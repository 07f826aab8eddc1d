---------------------------- MODULE MCGroupSignal ----------------------------
(* Two programs for GroupSignal. *)
EXTENDS GroupSignal, TLC

CONSTANTS t1, t2, t3, t4, t5, g1, g2, a1, a2, s1, s2

\* A copy, a CPU task of two threads and a GPU task in g1, then in the ordered
\* group g2 a GPU task and a copy that requires g1; the three kernels compete for
\* one kernarg segment; sync() on either group at any point.
MixedGroup == t1 :> g1 @@ t2 :> g1 @@ t3 :> g1 @@ t4 :> g2 @@ t5 :> g2
MixedKind == t1 :> "data" @@ t2 :> "cpu" @@ t3 :> "gpu" @@ t4 :> "gpu" @@ t5 :> "data"
MixedPackets == [t \in Task |-> IF t = t2 THEN 2 ELSE 1]
MixedRequired == [t \in Task |-> IF t = t5 THEN {g1} ELSE {}]
MixedProgram == [a \in App |-> <<t1, t2, t3, t4, t5>>]
MixedSyncer == [g \in Group |-> a1]

\* Two GPU tasks of one unordered group, launched by one thread and waited for
\* by another.
PairGroup == [t \in Task |-> g1]
PairKind == [t \in Task |-> "gpu"]
PairPackets == [t \in Task |-> 1]
PairRequired == [t \in Task |-> {}]
PairProgram == a1 :> <<t1, t2>> @@ a2 :> <<>>
PairSyncer == [g \in Group |-> a2]
===============================================================================

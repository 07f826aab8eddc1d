-------------------------- MODULE MCBarrierScheduler --------------------------
(* A program for BarrierScheduler. *)
EXTENDS BarrierScheduler, TLC

CONSTANTS t1, t2, t3, t4, t5, g1, g2, a1, q1, q2, s1, s2

\* Three tasks of an unordered group, the first made by CreateTask, the second
\* requiring it, the third a copy; then a kernel, which requires the copy, and a
\* copy of an ordered group.  Two signals: the pool runs out.
FiveGroupOf == t1 :> g1 @@ t2 :> g1 @@ t3 :> g1 @@ t4 :> g2 @@ t5 :> g2
FiveKindOf == t1 :> "gpu" @@ t2 :> "gpu" @@ t3 :> "data" @@ t4 :> "gpu" @@ t5 :> "data"
FiveRequires == [t \in Task |->
  IF t = t2 THEN {t1} ELSE IF t = t4 THEN {t3} ELSE {}]
FiveQueueOf == [t \in Task |-> IF t = t2 THEN q2 ELSE q1]
FiveProgram == [a \in App |-> <<t1, t2, t3, t4, t5>>]
TwoSignals == <<s1, s2>>

\* Every property excuses what follows an overlap, and overlapped stays TRUE.
BeforeOverlap == ~overlapped
===============================================================================

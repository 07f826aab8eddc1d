---------------------------- MODULE MCHostCallback ----------------------------
(* Small programs for HostCallback. *)
EXTENDS HostCallbackInvariant, TLC

CONSTANTS t1, t2, t3, t4, k1, k2, g1, g2, a1, a2

OneSegment == [k \in Kernel |-> 1]
AnyApp == [t \in Task |-> App]
InOneGroup == [t \in Task |-> g1]

\* t3, a CPU task of two threads, joins a GPU task and a staged copy; t4 waits
\* for the GPU task only and shares the only kernarg segment of k2 with t3.
\* t1, created, then activated, is synchronous: it never lacks a resource.
JoinRequires == t1 :> {} @@ t2 :> {} @@ t3 :> {t1, t2} @@ t4 :> {t1}
JoinKind == t1 :> "gpu" @@ t2 :> "staged" @@ t3 :> "cpu" @@ t4 :> "cpu"
JoinPackets == t1 :> 1 @@ t2 :> 2 @@ t3 :> 2 @@ t4 :> 1
JoinKernel == t1 :> k1 @@ t2 :> k1 @@ t3 :> k2 @@ t4 :> k2

\* A created task t1 of an ordered group, activated while t2 and t3 are
\* launched after it; t2 shares the only kernarg segment of k1 with t1.
AfterT1 == [t \in Task |-> IF t = t1 THEN {} ELSE {t1}]
MixedKind == t1 :> "gpu" @@ t2 :> "gpu" @@ t3 :> "data"
OnePacket == [t \in Task |-> 1]

\* t1 outside the ordered group of t2 and t3, and required by t3.
T1Outside == [t \in Task |-> IF t = t1 THEN g2 ELSE g1]
T3RequiresT1 == [t \in Task |-> IF t = t3 THEN {t1} ELSE {}]
AllGpu == [t \in Task |-> "gpu"]
InK1 == [t \in Task |-> k1]
TwoSegments == [k \in Kernel |-> 2]

\* t2 requires t1 and is synchronous.
T2RequiresT1 == [t \in Task |-> IF t = t2 THEN {t1} ELSE {}]
NoRequires == [t \in Task |-> {}]
===============================================================================

------------------------------ MODULE MCCpuAgent ------------------------------
(* Two dispatchers and the queues of two CPU agents for CpuAgent. *)
EXTENDS CpuAgent, TLC

CONSTANTS t1, t2, t3, d1, d2

\* d1 dispatches t1, of several threads, and t3; d2 dispatches t2 to the queue of
\* the second thread of t1.
TwoDispatchers == d1 :> {t1, t3} @@ d2 :> {t2}
BothQueues == [t \in Task |-> <<1, 2>>]
TwoThreads == t1 :> 2 @@ t2 :> 1 @@ t3 :> 1
Second == [t \in Task |-> 2]

\* With queues of two slots: t1 and t2 bring three packets to the second queue,
\* t3 alone as many to the first, and the three of them five to either.
ManyThreads == t1 :> 4 @@ t2 :> 1 @@ t3 :> 5
===============================================================================

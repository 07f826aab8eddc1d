------------------------------ MODULE TaskGraph ------------------------------
(***************************************************************************)
(* What the ATMI task API promises of a graph of tasks, with no scheduler  *)
(* in it: a task begins once every task it requires has finished, and it   *)
(* finishes some time after it has begun.  HostCallback implements this    *)
(* specification (its Graph instance).                                     *)
(***************************************************************************)
CONSTANTS
  Task,      \* the tasks of the program
  Requires   \* lparm->requires: the set of tasks each task waits for

VARIABLES
  begun,     \* tasks the runtime has committed to a device
  finished   \* tasks whose work is over

vars == <<begun, finished>>

Init ==
  /\ begun = {}
  /\ finished = {}

Begin(t) ==
  /\ t \notin begun
  /\ Requires[t] \subseteq finished
  /\ begun' = begun \cup {t}
  /\ UNCHANGED finished

Finish(t) ==
  /\ t \in begun \ finished
  /\ finished' = finished \cup {t}
  /\ UNCHANGED begun

Next == \E t \in Task : Begin(t) \/ Finish(t)

\* Once begun a task finishes; nobody is obliged to begin one.
Spec == Init /\ [][Next]_vars /\ \A t \in Task : WF_vars(Finish(t))
==============================================================================

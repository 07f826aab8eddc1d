---------------------------- MODULE Application ----------------------------
(* The application threads of one process and the calls of the ATMI       *)
(* interface they make.  The modules of the runtime's services extend this *)
(* one: a call is served by the calling thread in the steps of its         *)
(* service, named by pc.                                                   *)
EXTENDS Integers, Sequences, FiniteSets

CONSTANTS
  App,        \* the application threads
  Copy,       \* the copies of atmi_memcpy_async; each may have a thread
  Programs    \* what the threads call, in which settings

\* All the calls that the threads of a program make.
AllCalls(p) == UNION {{p.calls[a][n] : n \in DOMAIN p.calls[a]} : a \in App}

ASSUME ApplicationAssumption ==
  /\ App \cap Copy = {}
  /\ \A p \in Programs :
       /\ p.calls \in [App -> Seq(AllCalls(p))]
       /\ p.depSync \in {"callback", "barrier"}
       /\ p.holdsHSA \in BOOLEAN

Thread == App \cup Copy

VARIABLES
  program,  \* the program that runs
  calls,    \* the calls each application thread has still to make, the first
            \* one being the call in progress unless pc is "idle"
  pc,       \* where each thread is
  exited    \* ErrorCheck found an error: exit(1)

appVars == <<program, calls, pc, exited>>

AppInit ==
  /\ program \in Programs
  /\ calls = program.calls
  /\ pc = [x \in Thread |-> "idle"]
  /\ exited = FALSE

Current(a) == Head(calls[a])

\* Thread a is about to make the call op.
Calling(a, op) == pc[a] = "idle" /\ calls[a] # <<>> /\ Current(a).op = op

\* Thread a is inside the call op, at label.
Inside(a, op, label) == pc[a] = label /\ a \in App /\ Current(a).op = op

GoTo(x, label) == pc' = [pc EXCEPT ![x] = label] /\ UNCHANGED <<program, calls, exited>>

Return(a) ==
  /\ pc' = [pc EXCEPT ![a] = "idle"]
  /\ calls' = [calls EXCEPT ![a] = Tail(@)]
  /\ UNCHANGED <<program, exited>>

\* ErrorCheck and ATMIErrorCheck end the process.
Exit == exited' = TRUE /\ UNCHANGED <<program, calls, pc>>
=============================================================================

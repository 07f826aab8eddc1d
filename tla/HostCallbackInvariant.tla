------------------------- MODULE HostCallbackInvariant -------------------------
(***************************************************************************)
(* The inductive invariant of HostCallback: who works on a task in each of *)
(* its states, and what a task owns there.  HostCallback_proofs proves it  *)
(* for programs that create no task in an ordered group (CreatedUnordered).*)
(***************************************************************************)
EXTENDS HostCallback

(***************************************************************************)
(* CreateTask stores INITIALIZED whatever the state of the task is.  In an *)
(* ordered group another thread may have dispatched the task by then, from *)
(* the list the constructor put it in; so the invariant holds only when    *)
(* tasks of ordered groups are launched.                                   *)
(***************************************************************************)
CreatedUnordered == \A t \in Created : ~Ordered(t)

\* What a thread or the queues name is a task, and a task in the hands of a
\* dispatcher, a registered handler or the handler has a signal.
DispatchLabel == {"mark", "publish", "spawn", "register"}
HandleLabel == {"visit", "complete"}

ThreadsNameTasks == \A h \in Thread : ~At(h, "idle") => thread[h].task \in Task

SignalsAssigned ==
  /\ \A h \in Thread : thread[h].at \in DispatchLabel \cup HandleLabel =>
       signalOf[thread[h].task] \in Signal
  /\ \A t \in registered : signalOf[t] \in Signal

TypeInv == TypeOK /\ ThreadsNameTasks /\ SignalsAssigned

\* Tasks that the API has returned, or may be dispatched at once.
Known == {t \in Task : t \in Created => handle[t] \in {"returned", "activated"}}

\* CreateTask works alone on its task: nobody else knows it.
CreationPrivate ==
  /\ \A h \in Thread : At(h, "create") =>
       thread[h].task \in Created /\ handle[thread[h].task] = "object"
  /\ \A h, i \in Thread :
       At(h, "create") /\ At(i, "create") /\ thread[h].task = thread[i].task => h = i
  /\ \A t \in Task \ Known : state[t] = UNINITIALIZED
  /\ \A h \in Thread : thread[h].at \notin {"idle", "create"} => thread[h].task \in Known
  /\ \A p \in Task : andSuccessors[p] \subseteq Known
  /\ todo \subseteq Known
  /\ readyQueue \in Seq(Known)
  /\ tempList \in Seq(Known)
  /\ \A g \in Group : runningOrdered[g] \in Seq(Task \ Created)

InFlight == {t \in Task : state[t] \in {READY, DISPATCHED}}

\* One thread dispatches a task, then its handler is registered, then the
\* handler runs, once; the task's packets are gone by then.
OneOwner ==
  /\ \A h \in Thread : thread[h].at \in DispatchLabel =>
       thread[h].task \in InFlight \ registered
  /\ \A h, i \in Thread :
       /\ thread[h].at \in DispatchLabel /\ thread[i].at \in DispatchLabel
       /\ thread[h].task = thread[i].task
       => h = i
  /\ registered \subseteq InFlight
  /\ \A h \in Thread : thread[h].at \in HandleLabel =>
       h = Callback /\ state[thread[h].task] = EXECUTED

PacketsInFlight ==
  /\ \A t \in Task : packetsLeft[t] >= 0 /\ (packetsLeft[t] > 0 => t \in InFlight)
  /\ \A t \in Task : copier[t] # "none" => KindOf[t] = "staged" /\ packetsLeft[t] > 0
  /\ \A h \in Thread : At(h, "spawn") =>
       LET t == thread[h].task IN
       KindOf[t] = "staged" /\ packetsLeft[t] > 0 /\ copier[t] = "none"

OwnershipInv ==
  /\ TypeInv
  /\ CreationPrivate
  /\ OneOwner
  /\ PacketsInFlight
  /\ SignalsExclusive
  /\ SegmentsExclusive

-------------------------------------------------------------------------------
(***************************************************************************)
(* The inductive invariant of the dependencies, of programs with no task   *)
(* in an ordered group.  A task that was tried is linked to each           *)
(* unfinished task it requires; so when its count of predecessors reaches  *)
(* zero, and only then, nothing it requires is unfinished, and no attempt  *)
(* after the first has to look at its requirements again.                  *)
(***************************************************************************)
Unordered == \A t \in Task : ~Ordered(t)

\* Tasks that were tried and have nothing left to wait for.
Cleared ==
  {t \in Task : state[t] >= INITIALIZED /\ \A p \in Requires[t] : state[p] >= EXECUTED}

NothingOrdered ==
  /\ \A h \in Thread : thread[h].at # "front" /\ thread[h].via # "front"
  /\ prevOrdered = [t \in Task |-> NoTask]

FirstLabel == {"save", "create", "try"}

\* The first attempt on a task is made by the thread that makes the task.
FirstAttemptAlone ==
  /\ \A h \in Thread : ~At(h, "idle") => handle[thread[h].task] # "none"
  /\ \A t \in Task : handle[t] = "none" => state[t] = UNINITIALIZED
  /\ \A t \in Task : handle[t] \in {"returned", "activated"} => state[t] # UNINITIALIZED
  /\ \A h \in Thread :
       thread[h].at \in {"save", "create"} => state[thread[h].task] = UNINITIALIZED
  /\ \A h, i \in Thread :
       /\ thread[h].at \in FirstLabel /\ thread[i].at \in FirstLabel
       /\ thread[h].task = thread[i].task
       /\ state[thread[h].task] = UNINITIALIZED
       => h = i

\* Links are made by the first attempt, to all that is unfinished.
LinksComplete ==
  /\ \A p, t \in Task : t \in andSuccessors[p] => state[t] # UNINITIALIZED
  /\ \A t \in Task : state[t] # UNINITIALIZED =>
       \A p \in Requires[t] : state[p] >= EXECUTED \/ t \in andSuccessors[p]

AttemptsCleared ==
  /\ \A h \in Thread : At(h, "try") /\ state[thread[h].task] # UNINITIALIZED =>
       thread[h].task \in Cleared
  /\ readyQueue \in Seq(Cleared)
  /\ tempList \in Seq(Cleared)
  /\ \A t \in Task : state[t] >= READY => t \in Cleared

VisitsSuccessors ==
  At(Callback, "visit") => todo \subseteq andSuccessors[thread[Callback].task]

DependencyInv ==
  /\ NothingOrdered
  /\ FirstAttemptAlone
  /\ LinksComplete
  /\ AttemptsCleared
  /\ VisitsSuccessors
  /\ PredecessorCountExact

-------------------------------------------------------------------------------
(***************************************************************************)
(* The inductive invariant of the ordered groups, of programs that create  *)
(* no task in them.  running_ordered_tasks_ is the part of the chain of    *)
(* prev_ordered_task_ that is not READY yet, up to last_task_; so the task *)
(* whose previous one does not block it is the front of the list, and the  *)
(* pop_front of its dispatch removes it.                                   *)
(***************************************************************************)
\* The tasks whose constructor has run.
Made == {t \in Task : handle[t] # "none"}

MadeInv ==
  /\ \A h \in Thread : ~At(h, "idle") => thread[h].task \in Made
  /\ \A p \in Task : andSuccessors[p] \subseteq Made
  /\ todo \cup registered \subseteq Made
  /\ readyQueue \in Seq(Made)
  /\ tempList \in Seq(Made)
  /\ \A g \in Group : runningOrdered[g] \in Seq(Made)
  /\ \A t \in Task \ Made : state[t] = UNINITIALIZED

Chained(g, q) ==
  /\ \A i \in DOMAIN q : GroupOf[q[i]] = g /\ state[q[i]] < READY
  /\ \A i, j \in DOMAIN q : q[i] = q[j] => i = j
  /\ \A i \in DOMAIN q : i > 1 => prevOrdered[q[i]] = q[i - 1]
  /\ q # <<>> => lastTask[g] = q[Len(q)]
  /\ \A t \in Made : GroupOf[t] = g /\ state[t] < READY => \E i \in DOMAIN q : q[i] = t
  /\ lastTask[g] # NoTask => lastTask[g] \in Made /\ GroupOf[lastTask[g]] = g

ListsChained == \A g \in OrderedGroup : Chained(g, runningOrdered[g])

\* The previous task is another one of the group.
PreviousMade ==
  \A t \in Task :
    LET p == prevOrdered[t] IN
    p # NoTask => /\ {t, p} \subseteq Made /\ p # t
                  /\ Ordered(t) /\ GroupOf[p] = GroupOf[t]

\* Two copies count as tasks of one type, but have no queue that orders them.
BothCopies(t, p) == ~IsKernel(t) /\ ~IsKernel(p)

\* The queue of a device orders kernels of one kind; the previous task of
\* another kind was waited for.
PreviousFirst ==
  /\ \A t \in Task : Ordered(t) /\ IsKernel(t) /\ state[t] >= READY =>
       InSeq(t, submitOrder[GroupOf[t]])
  /\ \A t \in Task :
       LET p == prevOrdered[t] IN
       p # NoTask /\ state[t] >= READY =>
         /\ state[p] >= READY
         /\ SameType(t, p) /\ IsKernel(t) => p \in Earlier(t)
         /\ ~SameType(t, p) => state[p] >= EXECUTED
         /\ packetsLeft[t] < Packets[t] /\ ~BothCopies(t, p) => packetsLeft[p] = 0

OrderInv == MadeInv /\ ListsChained /\ PreviousMade /\ PreviousFirst
===============================================================================

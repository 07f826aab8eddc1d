----------------------------- MODULE HostCallback -----------------------------
(***************************************************************************)
(* The ATMI task scheduler in its default mode, ATL_SYNC_CALLBACK: tasks   *)
(* that own a completion signal of their own (not groupable ones).         *)
(*                                                                         *)
(* The actors are the application threads, the one thread on which the HSA *)
(* runtime calls handle_signal, the devices, and the threads that stage    *)
(* host copies.  Each action is one critical section of task.cpp (what     *)
(* runs between lock_set and unlock_set), or one step between two of them  *)
(* that another thread can observe.                                        *)
(***************************************************************************)
EXTENDS Integers, Sequences, FiniteSets

CONSTANTS
  Task,           \* the tasks the program makes
  App,            \* application threads
  Callback,       \* the thread that runs the signal handlers
  Group,          \* task groups
  OrderedGroup,   \* those created with ordered = true
  Kernel,         \* kernel implementations, each with a kernarg pool
  ArgKernel,      \* those with at least one argument
  Signal,         \* the signals of FreeSignalPool
  NoTask, NoSignal,
  GroupOf,        \* taskgroup_obj_
  KindOf,         \* "gpu", "cpu" (kernels), "data" or "staged" (copies)
  KernelOf,       \* kernel_impl of a kernel task
  SegmentCount,   \* number of kernarg segments of a kernel
  Packets,        \* what acquireAqlPacket adds to the task's signal
  Requires,       \* lparm->requires
  Created,        \* tasks made by CreateTask, the others are launched
  Synchronous,    \* lparm->synchronous
  Callers         \* the application threads that make the calls about a task

Thread == App \cup {Callback}
Kind == {"gpu", "cpu", "data", "staged"}

ASSUME TaskAssumption ==
  /\ NoTask \notin Task
  /\ GroupOf \in [Task -> Group]
  /\ KindOf \in [Task -> Kind]
  /\ KernelOf \in [Task -> Kernel]
  /\ Packets \in [Task -> Nat \ {0}]
  /\ Requires \in [Task -> SUBSET Task]
  /\ Created \subseteq {t \in Task : KindOf[t] \in {"gpu", "cpu"}}
  /\ Synchronous \subseteq Task
  /\ Callers \in [Task -> SUBSET App]
  \* a staged copy is one device copy and one step of its thread
  /\ \A t \in Task : KindOf[t] = "staged" => Packets[t] = 2
  \* the packets of a CPU task of several threads go to several queues, which
  \* Earlier does not describe
  /\ \A t \in Task :
       KindOf[t] = "cpu" /\ GroupOf[t] \in OrderedGroup => Packets[t] = 1
ASSUME ThreadAssumption == Callback \notin App
ASSUME PoolAssumption ==
  /\ OrderedGroup \subseteq Group
  /\ ArgKernel \subseteq Kernel
  /\ NoSignal \notin Signal
  /\ SegmentCount \in [Kernel -> Nat \ {0}]
ASSUME FiniteAssumption == IsFiniteSet(Task)

\* atmi_state_t
UNINITIALIZED == -1
INITIALIZED   == 0
READY         == 1
DISPATCHED    == 2
EXECUTED      == 3
COMPLETED     == 4
State == UNINITIALIZED..COMPLETED

IsKernel(t) == KindOf[t] \in {"gpu", "cpu"}
Ordered(t) == GroupOf[t] \in OrderedGroup
\* The two tests of the prev_ordered_task_ rule: type(), then devtype_.
SameType(t, u) == IF IsKernel(t) THEN KindOf[t] = KindOf[u] ELSE ~IsKernel(u)

VARIABLES
  state,           \* state_
  numPredecessors, \* num_predecessors_
  andSuccessors,   \* and_successors_
  prevOrdered,     \* prev_ordered_task_
  argsSaved,       \* kernel tasks whose kernarg_region_ is not NULL
  signalOf,        \* signal_, never reset
  segmentOf,       \* kernarg_region_index_, never reset (0 before the first)
  handle,          \* what the program holds of a task
  runningOrdered,  \* running_ordered_tasks_ of each group
  lastTask,        \* last_task_ of each group
  readyQueue,      \* ReadyTaskQueue
  freeSignals,     \* FreeSignalPool
  freeSegments,    \* free_kernarg_segments_ of each kernel
  signalValue,     \* value of each HSA signal
  packetsLeft,     \* packets of a task its device has not completed
  published,       \* tasks whose packets or copies the device may see
  copier,          \* progress of the detached thread of a staged copy
  submitOrder,     \* kernel tasks of an ordered group by queue write index
  dispatches,      \* history: calls of acquireAqlPacket for each task
  registered,      \* tasks with a pending hsa_amd_signal_async_handler
  thread,          \* control of each thread: where it is (at), on which task,
                   \* and the loop or call that tryDispatch returns to (via)
  todo,            \* successors the handler has still to visit
  tempList,        \* temp_list of the handler
  budget           \* iterations left of the loop of doProgress

taskVars    == <<state, numPredecessors, andSuccessors, prevOrdered, argsSaved>>
heldVars    == <<signalOf, segmentOf, freeSignals, freeSegments>>
groupVars   == <<runningOrdered, lastTask>>
deviceVars  == <<signalValue, packetsLeft, published, copier, submitOrder, dispatches>>
handlerVars == <<todo, tempList, budget>>
vars == <<taskVars, heldVars, groupVars, deviceVars, handlerVars,
          thread, handle, readyQueue, registered>>

Frame(label, t, via) == [at |-> label, task |-> t, via |-> via]
Idle == Frame("idle", NoTask, "launch")

Init ==
  /\ state = [t \in Task |-> UNINITIALIZED]
  /\ numPredecessors = [t \in Task |-> 0]
  /\ andSuccessors = [t \in Task |-> {}]
  /\ prevOrdered = [t \in Task |-> NoTask]
  /\ argsSaved = {}
  /\ signalOf = [t \in Task |-> NoSignal]
  /\ segmentOf = [t \in Task |-> 0]
  /\ handle = [t \in Task |-> "none"]
  /\ runningOrdered = [g \in Group |-> <<>>]
  /\ lastTask = [g \in Group |-> NoTask]
  /\ readyQueue = <<>>
  /\ freeSignals = Signal
  /\ freeSegments = [k \in Kernel |-> 1..SegmentCount[k]]
  /\ signalValue = [s \in Signal |-> 0]
  /\ packetsLeft = [t \in Task |-> 0]
  /\ published = {}
  /\ copier = [t \in Task |-> "none"]
  /\ submitOrder = [g \in Group |-> <<>>]
  /\ dispatches = [t \in Task |-> 0]
  /\ registered = {}
  /\ thread = [h \in Thread |-> Idle]
  /\ todo = {}
  /\ tempList = <<>>
  /\ budget = 0

-------------------------------------------------------------------------------
At(h, label) == thread[h].at = label
Goto(h, label) == thread' = [thread EXCEPT ![h].at = label]
Work(h, label, t, via) == thread' = [thread EXCEPT ![h] = Frame(label, t, via)]
Rest(h) == thread' = [thread EXCEPT ![h] = Idle]

(***************************************************************************)
(* The end of a call of tryDispatch(): back to the API call, or to the     *)
(* loop of ActivateTask ("front") or doProgress ("front", "drain") that    *)
(* made it.  A synchronous task is waited for whatever the outcome, and    *)
(* then ends an ordered loop.                                              *)
(***************************************************************************)
Resume(h, dispatched) ==
  /\ CASE thread[h].via = "drain" -> Goto(h, "pop")
       [] thread[h].via = "front" /\ dispatched -> Goto(h, "front")
       [] OTHER -> Rest(h)
  /\ handle' = IF thread[h].via = "launch"
               THEN [handle EXCEPT ![thread[h].task] = "returned"] ELSE handle

EndTry(h, dispatched) ==
  IF thread[h].task \in Synchronous
  THEN Goto(h, "wait") /\ UNCHANGED handle
  ELSE Resume(h, dispatched)


(***************************************************************************)
(* The constructors.  A task of an ordered group is linked into its        *)
(* group's list here, before its arguments are saved.                      *)
(***************************************************************************)
Construct(a, t) ==
  /\ a \in Callers[t]
  /\ At(a, "idle")
  /\ handle[t] = "none"
  /\ \A p \in Requires[t] : handle[p] \in {"returned", "activated"}
  /\ handle' = [handle EXCEPT ![t] = "object"]
  /\ LET g == GroupOf[t] IN
     IF Ordered(t)
     THEN /\ runningOrdered' = [runningOrdered EXCEPT ![g] = Append(@, t)]
          /\ prevOrdered' = [prevOrdered EXCEPT ![t] = lastTask[g]]
          /\ lastTask' = [lastTask EXCEPT ![g] = t]
     ELSE UNCHANGED <<groupVars, prevOrdered>>
  /\ Work(a, CASE t \in Created -> "create"
               [] t \notin Created /\ IsKernel(t) -> "save"
               [] OTHER -> "try",
          t, "launch")
  /\ UNCHANGED <<state, numPredecessors, andSuccessors, argsSaved, heldVars,
                 deviceVars, handlerVars, readyQueue, registered>>

\* The malloc and updateKernargRegion of a region that is still NULL.
KeepArgs(t) == argsSaved' = IF IsKernel(t) THEN argsSaved \cup {t} ELSE argsSaved

\* LaunchTask: copy the arguments unless a dispatch has already set the region.
SaveArgs(a) ==
  /\ At(a, "save")
  /\ KeepArgs(thread[a].task)
  /\ Goto(a, "try")
  /\ UNCHANGED <<state, numPredecessors, andSuccessors, prevOrdered, heldVars,
                 groupVars, deviceVars, handlerVars, handle,
                 readyQueue, registered>>

\* Mutant: one count for all the links of t.
LinkToCountingOnce(P, t) ==
  /\ andSuccessors' = [p \in Task |->
       IF p \in P THEN andSuccessors[p] \cup {t} ELSE andSuccessors[p]]
  /\ numPredecessors' = [numPredecessors EXCEPT ![t] = @ + 1]

\* Append t to the and_successors_ of every task of P.
LinkTo(P, t) ==
  /\ andSuccessors' = [p \in Task |->
       IF p \in P THEN andSuccessors[p] \cup {t} ELSE andSuccessors[p]]
  /\ numPredecessors' = [numPredecessors EXCEPT ![t] = @ + Cardinality(P)]

\* The predecessors a task must be linked to.
Unfinished(P) == {p \in P : state[p] < EXECUTED}

\* The critical section of CreateTask: the state is set without a test.
CreateTask(a) ==
  /\ At(a, "create")
  /\ LET t == thread[a].task IN
     /\ LinkTo(Unfinished(Requires[t]), t)
     /\ KeepArgs(t)
     /\ state' = [state EXCEPT ![t] = INITIALIZED]
     /\ handle' = [handle EXCEPT ![t] = "returned"]
  /\ Rest(a)
  /\ UNCHANGED <<prevOrdered, heldVars, groupVars, deviceVars, handlerVars,
                 readyQueue, registered>>

(***************************************************************************)
(* ActivateTask: in an ordered group work on the front of the group's      *)
(* list; otherwise dispatch the task itself, unless it has predecessors,   *)
(* in which case the call does nothing.                                    *)
(***************************************************************************)
ActivateTask(a, t) ==
  /\ a \in Callers[t]
  /\ At(a, "idle")
  /\ t \in Created
  /\ handle[t] = "returned"
  /\ handle' = [handle EXCEPT ![t] = "activated"]
  /\ IF Ordered(t) THEN Work(a, "front", t, "front")
     ELSE IF Requires[t] = {} THEN Work(a, "try", t, "activate")
     ELSE UNCHANGED thread
  /\ UNCHANGED <<taskVars, heldVars, groupVars, deviceVars, handlerVars,
                 readyQueue, registered>>

\* One iteration of the loops over running_ordered_tasks_: read the front.
TakeFront(h) ==
  /\ At(h, "front")
  /\ LET front == runningOrdered[GroupOf[thread[h].task]] IN
     IF front = <<>>
     THEN Rest(h)
     ELSE Work(h, "try", Head(front), "front")
  /\ UNCHANGED <<taskVars, heldVars, groupVars, deviceVars, handlerVars, handle, readyQueue, registered>>

-------------------------------------------------------------------------------
(***************************************************************************)
(* tryDispatchHostCallback, one critical section.  Its outcomes are the    *)
(* five actions below; they share the tests that follow.                   *)
(***************************************************************************)
\* Predecessors a first attempt still has to wait for.
WaitsFor(t) ==
  IF state[t] < INITIALIZED THEN Unfinished(Requires[t]) ELSE {}

\* Mutant: a previous task of another kind is not looked at.
PrevBlocksSameType(t) ==
  LET p == prevOrdered[t] IN p # NoTask /\ SameType(t, p) /\ state[p] < READY

\* Mutant: tasks of different kinds are treated as if they shared a queue.
PrevBlocksUntilReady(t) ==
  LET p == prevOrdered[t] IN p # NoTask /\ state[p] < READY

\* The rule on the previous task of an ordered group: one of the same kind
\* must be in the queue, one of another kind must have executed.
PrevBlocks(t) ==
  LET p == prevOrdered[t] IN
  /\ p # NoTask
  /\ IF SameType(t, p) THEN state[p] < READY ELSE state[p] < EXECUTED

HasResources(t) ==
  /\ freeSignals # {}
  /\ IsKernel(t) => freeSegments[KernelOf[t]] # {}

TryLeavesUnchanged ==
  UNCHANGED <<prevOrdered, lastTask, published, copier, handlerVars, registered>>

\* Mutant: no test for a task that another thread is dispatching, which may be
\* set back and given to a device again.
KeepForLaterUnchecked(h) ==
  /\ At(h, "try")
  /\ state' = [state EXCEPT ![thread[h].task] = INITIALIZED]
  /\ KeepArgs(thread[h].task)
  /\ EndTry(h, FALSE)
  /\ UNCHANGED <<heldVars, runningOrdered, signalValue, packetsLeft, submitOrder,
                 dispatches>>
  /\ TryLeavesUnchanged

\* A failed attempt keeps a copy of the arguments and the INITIALIZED state.
KeepForLater(h) ==
  /\ At(h, "try")
  /\ state[thread[h].task] < READY
  /\ state' = [state EXCEPT ![thread[h].task] = INITIALIZED]
  /\ KeepArgs(thread[h].task)
  /\ EndTry(h, FALSE)
  /\ UNCHANGED <<heldVars, runningOrdered, signalValue, packetsLeft, submitOrder,
                 dispatches>>
  /\ TryLeavesUnchanged

\* "If someone else is trying to dispatch this task, give up".
TryTaken(h) ==
  /\ At(h, "try")
  /\ state[thread[h].task] >= READY
  /\ EndTry(h, FALSE)
  /\ UNCHANGED <<state, numPredecessors, andSuccessors, argsSaved, heldVars,
                 runningOrdered, signalValue, packetsLeft, submitOrder, dispatches,
                 readyQueue>>
  /\ TryLeavesUnchanged

TryWaitsForRequired(h) ==
  LET t == thread[h].task IN
  /\ KeepForLater(h)
  /\ WaitsFor(t) # {}
  /\ LinkTo(WaitsFor(t), t)
  /\ UNCHANGED readyQueue

\* A first attempt links the task to a previous one of another kind.
LinkToPrevious(t) ==
  IF state[t] < INITIALIZED /\ ~SameType(t, prevOrdered[t])
  THEN LinkTo({prevOrdered[t]}, t)
  ELSE UNCHANGED <<numPredecessors, andSuccessors>>

TryWaitsForPrevious(h) ==
  LET t == thread[h].task IN
  /\ KeepForLater(h)
  /\ WaitsFor(t) = {}
  /\ PrevBlocks(t)
  /\ LinkToPrevious(t)
  /\ UNCHANGED readyQueue

\* Mutant: the task is left to whoever comes next.
QueueForNobody(t) == UNCHANGED readyQueue

\* Only a task of an unordered group is queued for the next free resource.
QueueForResources(t) ==
  readyQueue' = IF Ordered(t) THEN readyQueue ELSE Append(readyQueue, t)

TryLacksResources(h) ==
  LET t == thread[h].task IN
  /\ KeepForLater(h)
  /\ WaitsFor(t) = {}
  /\ ~PrevBlocks(t)
  /\ ~HasResources(t)
  /\ QueueForResources(t)
  /\ UNCHANGED <<numPredecessors, andSuccessors>>

\* Whether the current attempt on t gets its resources.
Dispatchable(t) ==
  /\ state[t] < READY
  /\ WaitsFor(t) = {}
  /\ ~PrevBlocks(t)
  /\ HasResources(t)

FirstDispatchStep(t) ==
  CASE KindOf[t] \in {"gpu", "data"} -> "mark"
    [] KindOf[t] = "cpu" -> "publish"
    [] OTHER -> "spawn"

\* Mutant: FreeSignalPool.front() without the pop().
TakeSignalWithoutPop(t, s) ==
  /\ signalOf' = [signalOf EXCEPT ![t] = s]
  /\ UNCHANGED freeSignals

TakeSignal(t, s) ==
  /\ signalOf' = [signalOf EXCEPT ![t] = s]
  /\ freeSignals' = freeSignals \ {s}

\* Count the packets in the signal and take their places in the queue.
AcquireAqlPacket(t, s) ==
  /\ signalValue' = [signalValue EXCEPT ![s] = @ + Packets[t]]
  /\ packetsLeft' = [packetsLeft EXCEPT ![t] = Packets[t]]
  /\ dispatches' = [dispatches EXCEPT ![t] = @ + 1]
  /\ submitOrder' = IF Ordered(t) /\ IsKernel(t)
                    THEN [submitOrder EXCEPT ![GroupOf[t]] = Append(@, t)]
                    ELSE submitOrder

\* A signal, a kernarg segment, a place in the queue, and the READY state.
TryAcquires(h) ==
  LET t == thread[h].task
      k == KernelOf[t]
      g == GroupOf[t]
  IN
  /\ At(h, "try")
  /\ Dispatchable(t)
  /\ \E s \in freeSignals : TakeSignal(t, s) /\ AcquireAqlPacket(t, s)
  /\ IF IsKernel(t)
     THEN \E i \in freeSegments[k] :
            /\ segmentOf' = [segmentOf EXCEPT ![t] = i]
            /\ freeSegments' = [freeSegments EXCEPT ![k] = @ \ {i}]
     ELSE UNCHANGED <<segmentOf, freeSegments>>
  /\ KeepArgs(t)
  /\ runningOrdered' =
       IF Ordered(t)
       THEN [runningOrdered EXCEPT ![g] = SubSeq(@, 2, Len(@))]
       ELSE runningOrdered
  /\ state' = [state EXCEPT ![t] = READY]
  /\ Goto(h, FirstDispatchStep(t))
  /\ UNCHANGED <<numPredecessors, andSuccessors, handle, readyQueue>>
  /\ TryLeavesUnchanged

-------------------------------------------------------------------------------
(***************************************************************************)
(* dispatch() and the rest of tryDispatch, outside every lock.  A GPU task *)
(* or a device copy is marked DISPATCHED before the device can see it, a   *)
(* CPU task after; a staged copy is marked by its own thread.              *)
(***************************************************************************)
DispatchLeavesUnchanged ==
  UNCHANGED <<numPredecessors, andSuccessors, prevOrdered, argsSaved, heldVars,
              groupVars, signalValue, packetsLeft, submitOrder, dispatches,
              handlerVars, readyQueue>>

MarkDispatched(h) ==
  /\ At(h, "mark")
  /\ state' = [state EXCEPT ![thread[h].task] = DISPATCHED]
  /\ Goto(h, IF KindOf[thread[h].task] = "cpu" THEN "register" ELSE "publish")
  /\ UNCHANGED <<published, copier, handle, registered>>
  /\ DispatchLeavesUnchanged

Publish(h) ==
  /\ At(h, "publish")
  /\ published' = published \cup {thread[h].task}
  /\ Goto(h, IF KindOf[thread[h].task] = "cpu" THEN "mark" ELSE "register")
  /\ UNCHANGED <<state, copier, handle, registered>>
  /\ DispatchLeavesUnchanged

SpawnCopier(h) ==
  /\ At(h, "spawn")
  /\ copier' = [copier EXCEPT ![thread[h].task] = "spawned"]
  /\ Goto(h, "register")
  /\ UNCHANGED <<state, published, handle, registered>>
  /\ DispatchLeavesUnchanged

RegisterHandler(h) ==
  /\ At(h, "register")
  /\ registered' = registered \cup {thread[h].task}
  /\ EndTry(h, TRUE)
  /\ UNCHANGED <<state, published, copier>>
  /\ DispatchLeavesUnchanged

\* wait(): spin until COMPLETED, on whichever thread called tryDispatch.
WaitCompleted(h) ==
  /\ At(h, "wait")
  /\ state[thread[h].task] = COMPLETED
  /\ Resume(h, FALSE)
  /\ UNCHANGED <<state, published, copier, registered>>
  /\ DispatchLeavesUnchanged

-------------------------------------------------------------------------------
(***************************************************************************)
(* The devices and the copier threads.  Kernel tasks of an ordered group   *)
(* share one queue per device type and carry the barrier bit, so that a    *)
(* packet waits for those with a smaller index.                            *)
(***************************************************************************)
Earlier(t) ==
  LET q == submitOrder[GroupOf[t]] IN
  {q[i] : i \in {i \in DOMAIN q : /\ KindOf[q[i]] = KindOf[t]
                                  /\ \E j \in DOMAIN q : i < j /\ q[j] = t}}

DeviceLeavesUnchanged ==
  UNCHANGED <<numPredecessors, andSuccessors, prevOrdered, argsSaved, heldVars,
              groupVars, submitOrder, dispatches, handlerVars, thread, handle,
              readyQueue, registered>>

FinishPacket(t) ==
  /\ packetsLeft' = [packetsLeft EXCEPT ![t] = @ - 1]
  /\ signalValue' = [signalValue EXCEPT ![signalOf[t]] = @ - 1]

CompletePacket(t) ==
  /\ t \in published
  /\ packetsLeft[t] > (IF KindOf[t] = "staged" THEN 1 ELSE 0)
  /\ \A u \in Earlier(t) : packetsLeft[u] = 0
  /\ FinishPacket(t)
  /\ UNCHANGED <<state, published, copier>>
  /\ DeviceLeavesUnchanged

CopierIssue(t) ==
  /\ copier[t] = "spawned"
  /\ copier' = [copier EXCEPT ![t] = "issued"]
  /\ published' = published \cup {t}
  /\ UNCHANGED <<state, signalValue, packetsLeft>>
  /\ DeviceLeavesUnchanged

CopierMark(t) ==
  /\ copier[t] = "issued"
  /\ copier' = [copier EXCEPT ![t] = "marked"]
  /\ state' = [state EXCEPT ![t] = DISPATCHED]
  /\ UNCHANGED <<published, signalValue, packetsLeft>>
  /\ DeviceLeavesUnchanged

CopierFinish(t) ==
  /\ copier[t] = "marked"
  /\ signalValue[signalOf[t]] = 1
  /\ copier' = [copier EXCEPT ![t] = "none"]
  /\ FinishPacket(t)
  /\ UNCHANGED <<state, published>>
  /\ DeviceLeavesUnchanged

-------------------------------------------------------------------------------
(***************************************************************************)
(* handle_signal_callback and doProgress, on the callback thread.          *)
(***************************************************************************)
HandlerLeavesUnchanged ==
  UNCHANGED <<prevOrdered, argsSaved, signalOf, segmentOf, groupVars, deviceVars,
              handle>>

\* Mutant: handle_signal returns true, and is called again.
HandleSignalAgain(t) ==
  /\ At(Callback, "idle")
  /\ t \in registered
  /\ signalValue[signalOf[t]] = 0
  /\ state' = [state EXCEPT ![t] = EXECUTED]
  /\ todo' = andSuccessors[t]
  /\ Work(Callback, "visit", t, "drain")
  /\ UNCHANGED <<numPredecessors, andSuccessors, freeSignals, freeSegments,
                 tempList, budget, readyQueue, registered>>
  /\ HandlerLeavesUnchanged

HandleSignal(t) ==
  /\ At(Callback, "idle")
  /\ t \in registered
  /\ signalValue[signalOf[t]] = 0
  /\ registered' = registered \ {t}
  /\ state' = [state EXCEPT ![t] = EXECUTED]
  /\ todo' = andSuccessors[t]
  /\ Work(Callback, "visit", t, "drain")
  /\ UNCHANGED <<numPredecessors, andSuccessors, freeSignals, freeSegments,
                 tempList, budget, readyQueue>>
  /\ HandlerLeavesUnchanged

\* Mutant: tested before the decrement is counted.
NoPredecessorCounted(u) == numPredecessors[u] = 0

\* Mutant: one finished predecessor is enough.
SomePredecessor(u) == numPredecessors[u] >= 1

LastPredecessor(u) == numPredecessors[u] = 1

\* Under the successor's own lock; the last predecessor makes it ready.
VisitSuccessor(u) ==
  /\ At(Callback, "visit")
  /\ u \in todo
  /\ todo' = todo \ {u}
  /\ numPredecessors' = [numPredecessors EXCEPT ![u] = @ - 1]
  /\ tempList' = IF LastPredecessor(u) THEN Append(tempList, u) ELSE tempList
  /\ UNCHANGED <<state, andSuccessors, freeSignals, freeSegments, budget, thread,
                 readyQueue, registered>>
  /\ HandlerLeavesUnchanged

ReleaseResources ==
  LET t == thread[Callback].task IN
  /\ At(Callback, "visit")
  /\ todo = {}
  /\ readyQueue' = readyQueue \o tempList
  /\ tempList' = <<>>
  /\ freeSignals' = freeSignals \cup {signalOf[t]}
  /\ freeSegments' = IF IsKernel(t)
       THEN [freeSegments EXCEPT ![KernelOf[t]] = @ \cup {segmentOf[t]}]
       ELSE freeSegments
  /\ Goto(Callback, "complete")
  /\ UNCHANGED <<state, numPredecessors, andSuccessors, todo, budget, registered>>
  /\ HandlerLeavesUnchanged

MarkCompleted ==
  /\ At(Callback, "complete")
  /\ state' = [state EXCEPT ![thread[Callback].task] = COMPLETED]
  /\ Goto(Callback, "progress")
  /\ UNCHANGED <<numPredecessors, andSuccessors, freeSignals, freeSegments,
                 handlerVars, readyQueue, registered>>
  /\ HandlerLeavesUnchanged

\* Mutants: the loop leaves out the last entry, or looks at one entry only.
AllButOne == Len(readyQueue) - 1
JustOne == 1

\* queue_sz of doProgress.
DrainBudget == Len(readyQueue)

\* Mutant: only the ready queue is served.
DoProgressReadyQueueOnly ==
  /\ At(Callback, "progress")
  /\ Goto(Callback, "pop")
  /\ budget' = Len(readyQueue)
  /\ UNCHANGED <<state, numPredecessors, andSuccessors, freeSignals, freeSegments,
                 todo, tempList, readyQueue, registered>>
  /\ HandlerLeavesUnchanged

\* The ordered loop never looks at the ready queue, nor the other way round.
DoProgress ==
  /\ At(Callback, "progress")
  /\ LET t == thread[Callback].task IN
     IF Ordered(t)
     THEN Work(Callback, "front", t, "front") /\ UNCHANGED budget
     ELSE Goto(Callback, "pop") /\ budget' = DrainBudget
  /\ UNCHANGED <<state, numPredecessors, andSuccessors, freeSignals, freeSegments,
                 todo, tempList, readyQueue, registered>>
  /\ HandlerLeavesUnchanged

PopReady ==
  /\ At(Callback, "pop")
  /\ IF budget > 0 /\ readyQueue # <<>>
     THEN /\ Work(Callback, "try", Head(readyQueue), "drain")
          /\ readyQueue' = Tail(readyQueue)
          /\ budget' = budget - 1
     ELSE /\ Rest(Callback)
          /\ budget' = 0
          /\ UNCHANGED readyQueue
  /\ UNCHANGED <<state, numPredecessors, andSuccessors, freeSignals, freeSegments,
                 todo, tempList, registered>>
  /\ HandlerLeavesUnchanged

-------------------------------------------------------------------------------
\* The program is over: every task completed and no thread at work.
Finished ==
  /\ \A t \in Task : state[t] = COMPLETED
  /\ \A h \in Thread : At(h, "idle")
  /\ UNCHANGED vars

Call(a) == \E t \in Task : Construct(a, t) \/ ActivateTask(a, t)

TryDispatch(h) ==
  \/ TryTaken(h)
  \/ TryWaitsForRequired(h)
  \/ TryWaitsForPrevious(h)
  \/ TryLacksResources(h)
  \/ TryAcquires(h)

Dispatch(h) ==
  \/ MarkDispatched(h)
  \/ Publish(h)
  \/ SpawnCopier(h)
  \/ RegisterHandler(h)
  \/ WaitCompleted(h)

AppStep(a) ==
  SaveArgs(a) \/ CreateTask(a) \/ TakeFront(a) \/ TryDispatch(a) \/ Dispatch(a)

Handler ==
  \/ \E t \in Task : HandleSignal(t)
  \/ \E u \in Task : VisitSuccessor(u)
  \/ ReleaseResources
  \/ MarkCompleted
  \/ DoProgress
  \/ PopReady
  \/ TakeFront(Callback)
  \/ TryDispatch(Callback)
  \/ Dispatch(Callback)

Device(t) == CompletePacket(t) \/ CopierIssue(t) \/ CopierMark(t) \/ CopierFinish(t)

Next ==
  \/ \E a \in App : Call(a) \/ AppStep(a)
  \/ Handler
  \/ \E t \in Task : Device(t)
  \/ Finished

(***************************************************************************)
(* A call, once made, runs; the handler thread runs; a device finishes     *)
(* what it sees.  Nothing obliges the program to make a call.              *)
(***************************************************************************)
Fairness ==
  /\ \A a \in App : WF_vars(AppStep(a))
  /\ WF_vars(Handler)
  /\ \A t \in Task : WF_vars(Device(t))

Spec == Init /\ [][Next]_vars /\ Fairness
-------------------------------------------------------------------------------
(***************************************************************************)
(* Correctness.                                                            *)
(***************************************************************************)
Label == {"idle", "save", "create", "front", "try", "mark", "publish", "spawn",
          "register", "wait", "visit", "complete", "progress", "pop"}
Via == {"launch", "activate", "front", "drain"}

TypeOK ==
  /\ state \in [Task -> State]
  /\ numPredecessors \in [Task -> Int]
  /\ andSuccessors \in [Task -> SUBSET Task]
  /\ prevOrdered \in [Task -> Task \cup {NoTask}]
  /\ argsSaved \subseteq Task
  /\ signalOf \in [Task -> Signal \cup {NoSignal}]
  /\ segmentOf \in [Task -> Nat]
  /\ handle \in [Task -> {"none", "object", "returned", "activated"}]
  /\ runningOrdered \in [Group -> Seq(Task)]
  /\ lastTask \in [Group -> Task \cup {NoTask}]
  /\ readyQueue \in Seq(Task)
  /\ freeSignals \subseteq Signal
  /\ freeSegments \in [Kernel -> SUBSET Nat]
  /\ signalValue \in [Signal -> Int]
  /\ packetsLeft \in [Task -> Int]
  /\ published \subseteq Task
  /\ copier \in [Task -> {"none", "spawned", "issued", "marked"}]
  /\ submitOrder \in [Group -> Seq(Task)]
  /\ dispatches \in [Task -> Nat]
  /\ registered \subseteq Task
  /\ thread \in [Thread -> [at : Label, task : Task \cup {NoTask}, via : Via]]
  /\ todo \subseteq Task
  /\ tempList \in Seq(Task)
  /\ budget \in Nat

\* The handler of t has given t's resources back but not completed t yet.
Released(t) == At(Callback, "complete") /\ thread[Callback].task = t

\* t owns its signal and its kernarg segment.
Holds(t) == state[t] \in READY..EXECUTED /\ ~Released(t)

(***************************************************************************)
(* "Number of predecessor (parent) tasks required to be completed before   *)
(* this task may begin execution" (include/atmi.h:400): a task is not      *)
(* committed to a device before every task it requires has executed and    *)
(* none of their packets is left.                                          *)
(***************************************************************************)
DependenciesRespected ==
  \A t \in Task : state[t] >= READY =>
    \A p \in Requires[t] : state[p] >= EXECUTED /\ packetsLeft[p] = 0

(***************************************************************************)
(* A signal of FreeSignalPool and a kernarg segment have one owner at a    *)
(* time, the pool included, from tryDispatchHostCallback to                *)
(* handle_signal_callback, and a signal counts exactly the outstanding     *)
(* packets of its owner: it is zero when it is free.                       *)
(***************************************************************************)
SignalsExclusive ==
  /\ \A t \in Task : Holds(t) =>
       /\ signalOf[t] \in Signal \ freeSignals
       /\ signalValue[signalOf[t]] = packetsLeft[t]
  /\ \A t, u \in Task : Holds(t) /\ Holds(u) /\ signalOf[t] = signalOf[u] => t = u
  /\ \A s \in freeSignals : signalValue[s] = 0

SegmentsExclusive ==
  /\ \A t \in Task : Holds(t) /\ IsKernel(t) =>
       segmentOf[t] \in (1..SegmentCount[KernelOf[t]]) \ freeSegments[KernelOf[t]]
  /\ \A t, u \in Task :
       /\ Holds(t) /\ Holds(u) /\ IsKernel(t) /\ IsKernel(u)
       /\ KernelOf[t] = KernelOf[u] /\ segmentOf[t] = segmentOf[u]
       => t = u
  /\ \A k \in Kernel : freeSegments[k] \subseteq 1..SegmentCount[k]

ResourcesExclusive == SignalsExclusive /\ SegmentsExclusive

(***************************************************************************)
(* num_predecessors_ is the number of tasks that still list t as a         *)
(* successor and have not visited it: no predecessor is counted twice or   *)
(* forgotten, although links are made by the launching thread while the    *)
(* callback thread walks the lists.                                        *)
(***************************************************************************)
StillCounts(p, t) ==
  /\ t \in andSuccessors[p]
  /\ \/ state[p] < EXECUTED
     \/ At(Callback, "visit") /\ thread[Callback].task = p /\ t \in todo

PredecessorCountExact ==
  \A t \in Task : numPredecessors[t] = Cardinality({p \in Task : StillCounts(p, t)})

(***************************************************************************)
(* No task of an unordered group is forgotten: one that waits for nobody   *)
(* and is not yet dispatched is in ReadyTaskQueue, on its way there, or in *)
(* the hands of a thread; and while the queue is not empty some task of an *)
(* unordered group still holds resources, or the callback thread has not   *)
(* yet finished the doProgress that will look at the queue.                *)
(***************************************************************************)
InHand(t) == \E h \in Thread : At(h, "try") /\ thread[h].task = t

InSeq(t, q) == \E i \in DOMAIN q : q[i] = t

ReadyTasksQueued ==
  \A t \in Task :
    /\ ~Ordered(t) /\ state[t] = INITIALIZED /\ numPredecessors[t] = 0
    /\ t \in Created => Requires[t] # {}
    => InSeq(t, readyQueue) \/ InSeq(t, tempList) \/ InHand(t)

QueueHasWaker ==
  readyQueue # <<>> =>
    \/ \E t \in Task : ~Ordered(t) /\ Holds(t)
    \/ /\ thread[Callback].at \in {"complete", "progress"}
       /\ ~Ordered(thread[Callback].task)
    \/ thread[Callback].via = "drain" /\ budget >= Len(readyQueue)

(***************************************************************************)
(* state_ only moves forward, although three threads write it without a    *)
(* common lock.                                                            *)
(***************************************************************************)
StatesAdvance == [][\A t \in Task : state'[t] >= state[t]]_vars

(***************************************************************************)
(* Over the whole run a task takes its packets at most once, whichever     *)
(* loops try it and whatever is stored in its state_ between two attempts, *)
(* and none is COMPLETED without: "If someone else is trying to dispatch   *)
(* this task, give up" (task.cpp:1485).  It fails where CreateTask sets a  *)
(* task back that a loop over its group's list has dispatched (2161).      *)
(***************************************************************************)
TasksRunOnce ==
  \A t \in Task :
    /\ dispatches[t] <= 1
    /\ state[t] = COMPLETED => dispatches[t] = 1

(***************************************************************************)
(* running_ordered_tasks_ holds exactly the tasks of the group that are    *)
(* not READY yet, in the order they were made: the pop_front of a          *)
(* successful dispatch removes the dispatched task and no other.           *)
(***************************************************************************)
OrderedListExact ==
  \A g \in OrderedGroup :
    LET q == runningOrdered[g] IN
    /\ \A t \in Task : GroupOf[t] = g /\ handle[t] # "none" =>
         (InSeq(t, q) <=> state[t] < READY)
    /\ \A i \in DOMAIN q : i > 1 => prevOrdered[q[i]] = q[i - 1]

(***************************************************************************)
(* "Denotes if tasks in the task group have to be executed in the enqueue  *)
(* order" (include/atmi_runtime.h:550): no packet of an ordered task       *)
(* completes while one of the task made before it is left.                 *)
(***************************************************************************)
EnqueueOrder ==
  \A t \in Task :
    LET p == prevOrdered[t] IN
    p # NoTask /\ state[t] >= READY /\ packetsLeft[t] < Packets[t] =>
      state[p] >= READY /\ packetsLeft[p] = 0

(***************************************************************************)
(* The assertion of task.cpp:1623: an attempt that does not come from the  *)
(* launching call, and so has no args, finds the arguments saved.          *)
(***************************************************************************)
KernargsAvailable ==
  \A h \in Thread :
    LET t == thread[h].task IN
    At(h, "try") /\ thread[h].via # "launch" /\ Dispatchable(t) /\ IsKernel(t)
      /\ KernelOf[t] \in ArgKernel
    => t \in argsSaved

\* The tasks that t waits for, itself included.
Ancestors(t) ==
  {a \in Task : \A S \in SUBSET Task :
     t \in S /\ (\A x \in S : Requires[x] \subseteq S) => a \in S}

Submitted(t) ==
  IF t \in Created /\ Requires[t] = {} THEN handle[t] = "activated"
  ELSE handle[t] # "none"

(***************************************************************************)
(* Every task whose ancestors were all launched or activated completes:    *)
(* "dispatch all ready tasks in a round-robin manner to the available      *)
(* GPU/CPU queues" (task.cpp:494).                                         *)
(***************************************************************************)
SubmittedComplete ==
  \A t \in Task : (\A a \in Ancestors(t) : Submitted(a)) ~> (state[t] = COMPLETED)

(***************************************************************************)
(* The scheduler implements the task graph: a task has begun once it is    *)
(* READY and is finished when its device has completed all its packets.    *)
(***************************************************************************)
Graph == INSTANCE TaskGraph WITH
  begun    <- {t \in Task : state[t] >= READY},
  finished <- {t \in Task : state[t] >= READY /\ packetsLeft[t] = 0}

ImplementsTaskGraph == Graph!Spec
===============================================================================

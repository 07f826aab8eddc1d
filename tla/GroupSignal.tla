------------------------------ MODULE GroupSignal ------------------------------
(***************************************************************************)
(* Groupable tasks of the default mode, ATL_SYNC_CALLBACK: the tasks of a  *)
(* group share one completion signal, handle_group_signal completes all    *)
(* that are running when the signal reaches 0, and task_count_ tells       *)
(* TaskgroupImpl::sync() and the tasks that require the group when it is   *)
(* over.                                                                   *)
(*                                                                         *)
(* Every task here is groupable and launched, not created and activated.   *)
(* An action is one critical section of task.cpp or taskgroup.cpp, or one  *)
(* step between two of them that another thread can observe.  The lock of  *)
(* a group appears where it is held across steps: handle_group_signal      *)
(* waits for the signal with the lock held.                                *)
(***************************************************************************)
EXTENDS Integers, Sequences, FiniteSets

CONSTANTS
  Task,           \* groupable tasks
  App,            \* application threads
  Callback,       \* the thread that runs handle_group_signal
  Group,          \* task groups
  OrderedGroup,   \* those created with ordered = true
  NoTask, NoGroup,
  GroupOf,        \* taskgroup_obj_
  KindOf,         \* "gpu", "cpu" (kernels) or "data" (a copy without staging)
  Packets,        \* what acquireAqlPacket adds to the group's signal
  RequiredGroups, \* lparm->required_groups
  Program,        \* the tasks each application thread launches, in order
  Syncer,         \* the application thread that calls sync() on a group
  Segment         \* the kernarg segments, of one kernel

Thread == App \cup {Callback}

ASSUME GroupTaskAssumption ==
  /\ NoTask \notin Task
  /\ NoGroup \notin Group
  /\ Callback \notin App
  /\ OrderedGroup \subseteq Group
  /\ GroupOf \in [Task -> Group]
  /\ KindOf \in [Task -> {"gpu", "cpu", "data"}]
  /\ Packets \in [Task -> Nat \ {0}]
  /\ \A t \in Task : KindOf[t] # "cpu" => Packets[t] = 1
  /\ RequiredGroups \in [Task -> SUBSET Group]
  /\ Program \in [App -> Seq(Task)]
  /\ \A t \in Task : \E a \in App : \E i \in DOMAIN Program[a] : Program[a][i] = t
  /\ \A a, b \in App : \A i \in DOMAIN Program[a], j \in DOMAIN Program[b] :
       Program[a][i] = Program[b][j] => a = b /\ i = j
  /\ Syncer \in [Group -> App]
  /\ 0 \notin Segment
  /\ IsFiniteSet(Task)
  /\ IsFiniteSet(Group)

\* atmi_state_t
UNINITIALIZED == -1
INITIALIZED   == 0
READY         == 1
DISPATCHED    == 2
EXECUTED      == 3
COMPLETED     == 4

VARIABLES
  state,            \* state_
  numPredecessors,  \* num_predecessors_
  prevOrdered,      \* prev_ordered_task_
  segmentOf,        \* kernarg_region_index_, never reset (0 before the first)
  freeSegments,     \* free_kernarg_segments_
  packetsLeft,      \* packets of a task its device has not completed
  published,        \* tasks whose packets or copies the device may see
  groupSignal,      \* value of group_signal_
  taskCount,        \* task_count_, unsigned: -1 stands for its largest value
  groupSuccessors,  \* and_successors_ of each group
  callbackStarted,  \* callback_started_
  armed,            \* a registered hsa_amd_signal_async_handler
  runningGroupable, \* running_groupable_tasks_
  runningOrdered,   \* running_ordered_tasks_
  underflowed,      \* groups whose running_ordered_tasks_ was popped when empty
  runningDefault,   \* running_default_tasks_
  lastTask,         \* last_task_ of each group
  readyQueue,       \* ReadyTaskQueue
  thread,           \* control of each thread: where it is (at), on which task
                    \* or group, and the loop that tryDispatch returns to (via)
  toWait,           \* tasks that a thread in sync() has still to wait for
  groupTasks,       \* group_tasks of the handler
  toVisit,          \* successors of the group that the handler has still to visit
  tempList,         \* temp_list of the handler
  budget            \* iterations left of the loop of doProgress

taskVars    == <<state, numPredecessors, prevOrdered, segmentOf, freeSegments>>
deviceVars  == <<packetsLeft, published, groupSignal>>
signalVars  == <<callbackStarted, armed>>
listVars    == <<runningGroupable, runningOrdered, underflowed, runningDefault, lastTask>>
handlerVars == <<groupTasks, toVisit, tempList, budget>>
vars == <<taskVars, deviceVars, signalVars, listVars, handlerVars, taskCount,
          groupSuccessors, readyQueue, thread, toWait>>

Frame(label, t, g, via) == [at |-> label, task |-> t, group |-> g, via |-> via]
Idle == Frame("idle", NoTask, NoGroup, "launch")

Init ==
  /\ state = [t \in Task |-> UNINITIALIZED]
  /\ numPredecessors = [t \in Task |-> 0]
  /\ prevOrdered = [t \in Task |-> NoTask]
  /\ segmentOf = [t \in Task |-> 0]
  /\ freeSegments = Segment
  /\ packetsLeft = [t \in Task |-> 0]
  /\ published = {}
  /\ groupSignal = [g \in Group |-> 0]
  /\ taskCount = [g \in Group |-> 0]
  /\ groupSuccessors = [g \in Group |-> <<>>]
  /\ callbackStarted = [g \in Group |-> FALSE]
  /\ armed = [g \in Group |-> FALSE]
  /\ runningGroupable = [g \in Group |-> <<>>]
  /\ runningOrdered = [g \in Group |-> <<>>]
  /\ underflowed = {}
  /\ runningDefault = [g \in Group |-> <<>>]
  /\ lastTask = [g \in Group |-> NoTask]
  /\ readyQueue = <<>>
  /\ thread = [h \in Thread |-> Idle]
  /\ toWait = [a \in App |-> <<>>]
  /\ groupTasks = <<>>
  /\ toVisit = <<>>
  /\ tempList = <<>>
  /\ budget = 0

-------------------------------------------------------------------------------
At(h, label) == thread[h].at = label
Goto(h, label) == thread' = [thread EXCEPT ![h].at = label]
Work(h, label, t, via) ==
  thread' = [thread EXCEPT ![h] = Frame(label, t, @.group, via)]
Rest(h) == thread' = [thread EXCEPT ![h] = Idle]

IsKernel(t) == KindOf[t] # "data"
Ordered(t) == GroupOf[t] \in OrderedGroup
Elements(q) == {q[i] : i \in DOMAIN q}

\* The thread that launches t, and whether t is the next task it launches.
Launcher(t) == CHOOSE a \in App : t \in Elements(Program[a])
NextLaunch(a, t) ==
  \E i \in DOMAIN Program[a] :
    /\ Program[a][i] = t
    /\ state[t] = UNINITIALIZED
    /\ \A j \in 1..i - 1 : state[Program[a][j]] # UNINITIALIZED

\* The constructor of t has linked it into its group.
Made(t) ==
  \/ state[t] # UNINITIALIZED
  \/ thread[Launcher(t)].at \in {"count", "try"} /\ thread[Launcher(t)].task = t

\* group_mutex_ is free: nobody is in the wait of handle_group_signal.
Unlocked(g) == ~(At(Callback, "drain") /\ thread[Callback].group = g)

\* Back to the API call, or to the loop of doProgress that tried the task.
\* The second doProgress of the handler, which has no group in hand, is its end.
EndProgress == IF thread[Callback].group = NoGroup THEN Rest(Callback)
               ELSE Goto(Callback, "discount")

EndTry(h, dispatched) ==
  CASE thread[h].via = "pop" -> Goto(h, "pop")
    [] thread[h].via = "front" /\ dispatched -> Goto(h, "front")
    [] thread[h].via = "front" /\ ~dispatched -> EndProgress
    [] OTHER -> Rest(h)

-------------------------------------------------------------------------------
(***************************************************************************)
(* Launching.  The constructor links the task into its group, and counts   *)
(* it in task_count_ once the lock is released.                            *)
(***************************************************************************)
Construct(a, t) ==
  LET g == GroupOf[t] IN
  /\ At(a, "idle")
  /\ NextLaunch(a, t)
  /\ Unlocked(g)
  /\ IF Ordered(t)
     THEN /\ runningOrdered' = [runningOrdered EXCEPT ![g] = Append(@, t)]
          /\ prevOrdered' = [prevOrdered EXCEPT ![t] = lastTask[g]]
          /\ lastTask' = [lastTask EXCEPT ![g] = t]
          /\ UNCHANGED runningDefault
     ELSE /\ runningDefault' = [runningDefault EXCEPT ![g] = Append(@, t)]
          /\ UNCHANGED <<runningOrdered, prevOrdered, lastTask>>
  /\ Work(a, "count", t, "launch")
  /\ UNCHANGED <<state, numPredecessors, segmentOf, freeSegments, deviceVars,
                 signalVars, handlerVars, runningGroupable, underflowed, taskCount,
                 groupSuccessors, readyQueue, toWait>>

CountTask(a) ==
  /\ At(a, "count")
  /\ taskCount' = [taskCount EXCEPT ![GroupOf[thread[a].task]] = @ + 1]
  /\ Goto(a, "try")
  /\ UNCHANGED <<taskVars, deviceVars, signalVars, listVars, handlerVars,
                 groupSuccessors, readyQueue, toWait>>

(***************************************************************************)
(* tryDispatchHostCallback, one critical section, with the five outcomes   *)
(* below.  The required groups are looked at without their own locks.      *)
(***************************************************************************)
\* The groups a first attempt still has to wait for.
WaitsFor(t) ==
  IF state[t] < INITIALIZED THEN {g \in RequiredGroups[t] : taskCount[g] # 0} ELSE {}

\* The previous task of an ordered group must be in the queue, or have
\* executed if it is of another kind.
PrevBlocks(t) ==
  LET p == prevOrdered[t] IN
  /\ p # NoTask
  /\ IF KindOf[p] = KindOf[t] THEN state[p] < READY ELSE state[p] < EXECUTED

\* A groupable task needs no signal of the pool.
HasResources(t) == IsKernel(t) => freeSegments # {}

TryLeavesUnchanged ==
  UNCHANGED <<prevOrdered, published, signalVars, handlerVars, taskCount, toWait,
              runningGroupable, runningDefault, lastTask>>

\* The beginning of a failed attempt on a task that nobody has dispatched.
KeepForLater(h) ==
  LET t == thread[h].task IN
  /\ At(h, "try")
  /\ Unlocked(GroupOf[t])
  /\ state[t] < READY
  /\ state' = [state EXCEPT ![t] = INITIALIZED]
  /\ EndTry(h, FALSE)
  /\ UNCHANGED <<segmentOf, freeSegments, runningOrdered, underflowed, groupSignal,
                 packetsLeft>>
  /\ TryLeavesUnchanged

\* "If someone else is trying to dispatch this task, give up".
TryTaken(h) ==
  LET t == thread[h].task IN
  /\ At(h, "try")
  /\ Unlocked(GroupOf[t])
  /\ state[t] >= READY
  /\ EndTry(h, FALSE)
  /\ UNCHANGED <<state, numPredecessors, segmentOf, freeSegments, runningOrdered,
                 underflowed, groupSignal, packetsLeft, groupSuccessors, readyQueue>>
  /\ TryLeavesUnchanged

TryWaitsForGroup(h) ==
  LET t == thread[h].task
      W == WaitsFor(t)
  IN
  /\ KeepForLater(h)
  /\ W # {}
  /\ groupSuccessors' = [g \in Group |->
       IF g \in W THEN Append(groupSuccessors[g], t) ELSE groupSuccessors[g]]
  /\ numPredecessors' = [numPredecessors EXCEPT ![t] = @ + Cardinality(W)]
  /\ UNCHANGED readyQueue

\* The link to a previous task of another kind is left out: a groupable task
\* never visits its own successors.
TryWaitsForPrevious(h) ==
  LET t == thread[h].task IN
  /\ KeepForLater(h)
  /\ WaitsFor(t) = {}
  /\ PrevBlocks(t)
  /\ numPredecessors' = IF state[t] < INITIALIZED /\ KindOf[prevOrdered[t]] # KindOf[t]
                        THEN [numPredecessors EXCEPT ![t] = @ + 1]
                        ELSE numPredecessors
  /\ UNCHANGED <<groupSuccessors, readyQueue>>

\* Only a task of an unordered group is queued for the next free segment.
TryLacksResources(h) ==
  LET t == thread[h].task IN
  /\ KeepForLater(h)
  /\ WaitsFor(t) = {}
  /\ ~PrevBlocks(t)
  /\ ~HasResources(t)
  /\ readyQueue' = IF Ordered(t) THEN readyQueue ELSE Append(readyQueue, t)
  /\ UNCHANGED <<numPredecessors, groupSuccessors>>

\* Mutant: a task of several packets raises the signal once.
RaiseOnce(t) == groupSignal' = [groupSignal EXCEPT ![GroupOf[t]] = @ + 1]

\* The hsa_signal_add of acquireAqlPacket, on the signal of the group.
RaiseSignal(t) == groupSignal' = [groupSignal EXCEPT ![GroupOf[t]] = @ + Packets[t]]

\* The pop_front() of tryDispatch, which does not look whether the list is empty.
\* If it is, what the program does next is undefined (Fronts, Fairness).
PopFront(g) ==
  IF runningOrdered[g] = <<>>
  THEN /\ underflowed' = underflowed \cup {g}
       /\ UNCHANGED runningOrdered
  ELSE /\ runningOrdered' = [runningOrdered EXCEPT ![g] = Tail(@)]
       /\ UNCHANGED underflowed

\* A kernarg segment, places in the queues, and the READY state.
TryAcquires(h) ==
  LET t == thread[h].task
      g == GroupOf[t]
  IN
  /\ At(h, "try")
  /\ Unlocked(g)
  /\ state[t] < READY
  /\ WaitsFor(t) = {}
  /\ ~PrevBlocks(t)
  /\ IF IsKernel(t)
     THEN \E i \in freeSegments :
            /\ segmentOf' = [segmentOf EXCEPT ![t] = i]
            /\ freeSegments' = freeSegments \ {i}
     ELSE UNCHANGED <<segmentOf, freeSegments>>
  /\ RaiseSignal(t)
  /\ packetsLeft' = [packetsLeft EXCEPT ![t] = Packets[t]]
  /\ IF Ordered(t) THEN PopFront(g) ELSE UNCHANGED <<runningOrdered, underflowed>>
  /\ state' = [state EXCEPT ![t] = READY]
  /\ Goto(h, "push")
  /\ UNCHANGED <<numPredecessors, groupSuccessors, readyQueue>>
  /\ TryLeavesUnchanged

-------------------------------------------------------------------------------
(***************************************************************************)
(* dispatch() and the end of tryDispatch.  The task joins the running      *)
(* ones under the lock of its group; a GPU task or a copy is then marked   *)
(* DISPATCHED and published, a CPU task published and then marked; the     *)
(* first dispatcher since the last run of the handler registers it.        *)
(***************************************************************************)
DispatchLeavesUnchanged ==
  UNCHANGED <<numPredecessors, prevOrdered, segmentOf, freeSegments, packetsLeft,
              groupSignal, handlerVars, runningOrdered, underflowed, runningDefault,
              lastTask, taskCount, groupSuccessors, readyQueue, toWait>>

JoinRunning(h) ==
  LET t == thread[h].task IN
  /\ At(h, "push")
  /\ Unlocked(GroupOf[t])
  /\ runningGroupable' = [runningGroupable EXCEPT ![GroupOf[t]] = Append(@, t)]
  /\ Goto(h, IF KindOf[t] = "cpu" THEN "publish" ELSE "mark")
  /\ UNCHANGED <<state, published, signalVars>>
  /\ DispatchLeavesUnchanged

MarkDispatched(h) ==
  LET t == thread[h].task IN
  /\ At(h, "mark")
  /\ state' = [state EXCEPT ![t] = DISPATCHED]
  /\ Goto(h, IF KindOf[t] = "cpu" THEN "arm" ELSE "publish")
  /\ UNCHANGED <<published, runningGroupable, signalVars>>
  /\ DispatchLeavesUnchanged

Publish(h) ==
  LET t == thread[h].task IN
  /\ At(h, "publish")
  /\ published' = published \cup {t}
  /\ Goto(h, IF KindOf[t] = "cpu" THEN "mark" ELSE "arm")
  /\ UNCHANGED <<state, runningGroupable, signalVars>>
  /\ DispatchLeavesUnchanged

\* callback_started_.test_and_set()
TestAndSet(h) ==
  LET g == GroupOf[thread[h].task] IN
  /\ At(h, "arm")
  /\ callbackStarted' = [callbackStarted EXCEPT ![g] = TRUE]
  /\ IF callbackStarted[g] THEN EndTry(h, TRUE) ELSE Goto(h, "register")
  /\ UNCHANGED <<state, published, runningGroupable, armed>>
  /\ DispatchLeavesUnchanged

RegisterHandler(h) ==
  /\ At(h, "register")
  /\ armed' = [armed EXCEPT ![GroupOf[thread[h].task]] = TRUE]
  /\ EndTry(h, TRUE)
  /\ UNCHANGED <<state, published, runningGroupable, callbackStarted>>
  /\ DispatchLeavesUnchanged

\* A device completes one packet, or a copy engine a copy.
CompletePacket(t) ==
  /\ t \in published
  /\ packetsLeft[t] > 0
  /\ packetsLeft' = [packetsLeft EXCEPT ![t] = @ - 1]
  /\ groupSignal' = [groupSignal EXCEPT ![GroupOf[t]] = @ - 1]
  /\ UNCHANGED <<taskVars, published, signalVars, listVars, handlerVars, taskCount,
                 groupSuccessors, readyQueue, thread, toWait>>

-------------------------------------------------------------------------------
(***************************************************************************)
(* handle_group_signal, on the callback thread.                            *)
(***************************************************************************)
\* HSA calls the handler after it saw the signal at 0; a dispatcher may have
\* raised it again by then.
HandleGroupSignal(g) ==
  /\ At(Callback, "idle")
  /\ armed[g]
  /\ groupSignal[g] = 0
  /\ armed' = [armed EXCEPT ![g] = FALSE]
  /\ thread' = [thread EXCEPT ![Callback] = Frame("enter", NoTask, g, "launch")]
  /\ UNCHANGED <<taskVars, deviceVars, callbackStarted, listVars, handlerVars,
                 taskCount, groupSuccessors, readyQueue, toWait>>

LockGroup ==
  /\ At(Callback, "enter")
  /\ Goto(Callback, "drain")
  /\ UNCHANGED <<taskVars, deviceVars, signalVars, listVars, handlerVars,
                 taskCount, groupSuccessors, readyQueue, toWait>>

\* Mutant: the handler trusts the value that HSA saw.
NoWait(g) == TRUE

\* The hsa_signal_wait of the handler, with the lock of the group held.
SignalDrained(g) == groupSignal[g] = 0

\* Mutant: the flag is left to the end of the handler.
ClearFlagLate(g) == UNCHANGED callbackStarted

ClearFlag(g) == callbackStarted' = [callbackStarted EXCEPT ![g] = FALSE]

\* Mutant: the list of running tasks is kept.
KeepRunning(g) == UNCHANGED runningGroupable

ForgetRunning(g) == runningGroupable' = [runningGroupable EXCEPT ![g] = <<>>]

\* Take the running tasks, pop one task of an ordered list for each, clear the
\* flag and release the lock.
TakeRunning ==
  LET g == thread[Callback].group
      n == Len(runningGroupable[g])
      q == runningOrdered[g]
  IN
  /\ At(Callback, "drain")
  /\ SignalDrained(g)
  /\ groupTasks' = runningGroupable[g]
  /\ ForgetRunning(g)
  /\ runningOrdered' =
       IF g \in OrderedGroup
       THEN [runningOrdered EXCEPT ![g] = IF n < Len(q) THEN SubSeq(q, n + 1, Len(q))
                                          ELSE <<>>]
       ELSE runningOrdered
  /\ ClearFlag(g)
  /\ Goto(Callback, "release")
  /\ UNCHANGED <<taskVars, deviceVars, armed, underflowed, runningDefault, lastTask,
                 toVisit, tempList, budget, taskCount, groupSuccessors, readyQueue, toWait>>

\* Return the segments and complete the tasks; an empty group makes no progress.
ReleaseTasks ==
  LET T == Elements(groupTasks) IN
  /\ At(Callback, "release")
  /\ freeSegments' = freeSegments \cup {segmentOf[t] : t \in {u \in T : IsKernel(u)}}
  /\ state' = [t \in Task |-> IF t \in T THEN COMPLETED ELSE state[t]]
  /\ IF T = {} THEN Goto(Callback, "discount")
     ELSE Work(Callback, "progress", groupTasks[Len(groupTasks)], "launch")
  /\ UNCHANGED <<numPredecessors, prevOrdered, segmentOf, deviceVars, signalVars,
                 listVars, handlerVars, taskCount, groupSuccessors, readyQueue, toWait>>

ProgressLeavesUnchanged ==
  UNCHANGED <<taskVars, deviceVars, signalVars, listVars, groupTasks, toVisit, tempList,
            taskCount, groupSuccessors, toWait>>

\* Mutant: an ordered group only.
OrderedProgress ==
  /\ At(Callback, "progress")
  /\ IF Ordered(thread[Callback].task) THEN Goto(Callback, "front") ELSE EndProgress
  /\ UNCHANGED <<budget, readyQueue>>
  /\ ProgressLeavesUnchanged

\* doProgress: the ordered list of the task's group, or the ready queue.
DoProgress ==
  /\ At(Callback, "progress")
  /\ IF Ordered(thread[Callback].task)
     THEN Goto(Callback, "front") /\ UNCHANGED budget
     ELSE Goto(Callback, "pop") /\ budget' = Len(readyQueue)
  /\ UNCHANGED readyQueue
  /\ ProgressLeavesUnchanged

\* What the loop of doProgress may see at the front of the list, NoTask if it
\* finds the list empty.  A list popped when empty has its start behind its end:
\* the entry there is left over from any task that the group was given.
Fronts(g) ==
  IF g \in underflowed THEN {t \in Task : GroupOf[t] = g /\ Made(t)} \cup {NoTask}
  ELSE IF runningOrdered[g] = <<>> THEN {NoTask}
  ELSE {Head(runningOrdered[g])}

TakeFront ==
  /\ At(Callback, "front")
  /\ \E t \in Fronts(GroupOf[thread[Callback].task]) :
       IF t = NoTask THEN EndProgress ELSE Work(Callback, "try", t, "front")
  /\ UNCHANGED <<budget, readyQueue>>
  /\ ProgressLeavesUnchanged

PopReady ==
  /\ At(Callback, "pop")
  /\ IF budget > 0 /\ readyQueue # <<>>
     THEN /\ Work(Callback, "try", Head(readyQueue), "pop")
          /\ readyQueue' = Tail(readyQueue)
          /\ budget' = budget - 1
     ELSE EndProgress /\ budget' = 0 /\ UNCHANGED readyQueue
  /\ ProgressLeavesUnchanged

\* Mutant: each run of the handler counts for one task.
DiscountOne(g) == taskCount' = [taskCount EXCEPT ![g] = IF groupTasks = <<>> THEN @ ELSE @ - 1]

Discount(g) == taskCount' = [taskCount EXCEPT ![g] = @ - Len(groupTasks)]

\* task_count_ falls once doProgress is over.
DiscountTasks ==
  /\ At(Callback, "discount")
  /\ Discount(thread[Callback].group)
  /\ groupTasks' = <<>>
  /\ Goto(Callback, "load")
  /\ UNCHANGED <<taskVars, deviceVars, signalVars, listVars, toVisit, tempList, budget,
                 groupSuccessors, readyQueue, toWait>>

LoadCount ==
  /\ At(Callback, "load")
  /\ IF taskCount[thread[Callback].group] = 0 THEN Goto(Callback, "clear")
     ELSE Rest(Callback)
  /\ UNCHANGED <<taskVars, deviceVars, signalVars, listVars, handlerVars, taskCount,
                 groupSuccessors, readyQueue, toWait>>

\* successors is a reference: the clear() empties it too.
ClearSuccessors ==
  LET g == thread[Callback].group IN
  /\ At(Callback, "clear")
  /\ groupSuccessors' = [groupSuccessors EXCEPT ![g] = <<>>]
  /\ Goto(Callback, "visit")
  /\ UNCHANGED <<taskVars, deviceVars, signalVars, listVars, handlerVars, taskCount,
                 readyQueue, toWait>>

(***************************************************************************)
(* The loop over what the list holds now: tasks linked since the clear().  *)
(* Its bounds are read once, so a task linked during the loop is left out. *)
(* It locks one successor at a time; those it makes ready are then queued  *)
(* together, and doProgress follows.                                       *)
(***************************************************************************)
BeginVisits ==
  /\ At(Callback, "visit")
  /\ toVisit' = groupSuccessors[thread[Callback].group]
  /\ Goto(Callback, "unlink")
  /\ UNCHANGED <<taskVars, deviceVars, signalVars, listVars, groupTasks, tempList, budget,
                 taskCount, groupSuccessors, readyQueue, toWait>>

VisitSuccessor ==
  LET u == Head(toVisit) IN
  /\ At(Callback, "unlink")
  /\ toVisit # <<>>
  /\ toVisit' = Tail(toVisit)
  /\ numPredecessors' = [numPredecessors EXCEPT ![u] = @ - 1]
  /\ tempList' = IF numPredecessors[u] = 1 THEN Append(tempList, u) ELSE tempList
  /\ UNCHANGED <<state, prevOrdered, segmentOf, freeSegments, deviceVars, signalVars,
                 listVars, groupTasks, budget, taskCount, groupSuccessors, readyQueue,
                 thread, toWait>>

PushReady ==
  /\ At(Callback, "unlink")
  /\ toVisit = <<>>
  /\ readyQueue' = readyQueue \o tempList
  /\ tempList' = <<>>
  /\ IF tempList = <<>> THEN Rest(Callback)
     ELSE thread' = [thread EXCEPT ![Callback] =
                       Frame("progress", tempList[Len(tempList)], NoGroup, "launch")]
  /\ UNCHANGED <<taskVars, deviceVars, signalVars, listVars, groupTasks, toVisit, budget,
                 taskCount, groupSuccessors, toWait>>

-------------------------------------------------------------------------------
(***************************************************************************)
(* TaskgroupImpl::sync().  The caller has launched a task in an ordered    *)
(* group since its last sync: the code uses last_task_ without a test.     *)
(***************************************************************************)
SyncLeavesUnchanged ==
  UNCHANGED <<taskVars, deviceVars, signalVars, handlerVars, taskCount,
              groupSuccessors, readyQueue>>

CallSync(a, g) ==
  /\ a = Syncer[g]
  /\ At(a, "idle")
  /\ g \in OrderedGroup => lastTask[g] # NoTask
  /\ thread' = [thread EXCEPT ![a] = Frame("sync", NoTask, g, "launch")]
  /\ UNCHANGED <<listVars, toWait>>
  /\ SyncLeavesUnchanged

\* The spin on task_count_, then the tasks to wait for: the last of an ordered
\* group, all of an unordered one.
SyncCounted(a) ==
  LET g == thread[a].group IN
  /\ At(a, "sync")
  /\ taskCount[g] = 0
  /\ toWait' = [toWait EXCEPT ![a] = IF g \in OrderedGroup THEN <<lastTask[g]>>
                                      ELSE runningDefault[g]]
  /\ Goto(a, "waiting")
  /\ UNCHANGED listVars
  /\ SyncLeavesUnchanged

\* wait(), one task after the other.
SyncWaited(a) ==
  /\ At(a, "waiting")
  /\ toWait[a] # <<>>
  /\ state[Head(toWait[a])] = COMPLETED
  /\ toWait' = [toWait EXCEPT ![a] = Tail(@)]
  /\ UNCHANGED <<listVars, thread>>
  /\ SyncLeavesUnchanged

SyncForgetsLast(a) ==
  LET g == thread[a].group IN
  /\ At(a, "waiting")
  /\ toWait[a] = <<>>
  /\ g \in OrderedGroup
  /\ Unlocked(g)
  /\ lastTask' = [lastTask EXCEPT ![g] = NoTask]
  /\ Goto(a, "clearing")
  /\ UNCHANGED <<runningGroupable, runningOrdered, underflowed, runningDefault, toWait>>
  /\ SyncLeavesUnchanged

\* An ordered group has one more step before clearSavedTasks().
WaitedForAll(a) ==
  \/ At(a, "clearing")
  \/ At(a, "waiting") /\ toWait[a] = <<>> /\ thread[a].group \notin OrderedGroup

\* clearSavedTasks()
SyncClears(a) ==
  LET g == thread[a].group IN
  /\ WaitedForAll(a)
  /\ Unlocked(g)
  /\ runningOrdered' = [runningOrdered EXCEPT ![g] = <<>>]
  /\ runningDefault' = [runningDefault EXCEPT ![g] = <<>>]
  /\ runningGroupable' = [runningGroupable EXCEPT ![g] = <<>>]
  /\ Rest(a)
  /\ UNCHANGED <<underflowed, lastTask, toWait>>
  /\ SyncLeavesUnchanged

-------------------------------------------------------------------------------
Launch(a) == \E t \in Task : Construct(a, t)

TryDispatch(h) ==
  \/ TryWaitsForGroup(h)
  \/ TryWaitsForPrevious(h)
  \/ TryLacksResources(h)
  \/ TryAcquires(h)
  \/ TryTaken(h)

Dispatch(h) ==
  \/ JoinRunning(h)
  \/ MarkDispatched(h)
  \/ Publish(h)
  \/ TestAndSet(h)
  \/ RegisterHandler(h)

Sync(a) == SyncCounted(a) \/ SyncWaited(a) \/ SyncForgetsLast(a) \/ SyncClears(a)

AppStep(a) == CountTask(a) \/ TryDispatch(a) \/ Dispatch(a) \/ Sync(a)

Handler ==
  \/ \E g \in Group : HandleGroupSignal(g)
  \/ LockGroup
  \/ TakeRunning
  \/ ReleaseTasks
  \/ DoProgress
  \/ TakeFront
  \/ PopReady
  \/ TryDispatch(Callback)
  \/ Dispatch(Callback)
  \/ DiscountTasks
  \/ LoadCount
  \/ ClearSuccessors
  \/ BeginVisits
  \/ VisitSuccessor
  \/ PushReady

Device == \E t \in Task : CompletePacket(t)

Next ==
  \/ \E a \in App : Launch(a) \/ (\E g \in Group : CallSync(a, g)) \/ AppStep(a)
  \/ Handler
  \/ Device

(***************************************************************************)
(* A call, once made, runs; the handler thread runs; the devices complete  *)
(* what they see.  Nothing obliges the program to make a call, and once it *)
(* has popped an empty list it may as well fail.                           *)
(***************************************************************************)
Fairness ==
  /\ \A a \in App : WF_vars(underflowed = {} /\ AppStep(a))
  /\ WF_vars(underflowed = {} /\ Handler)
  /\ WF_vars(underflowed = {} /\ Device)

Spec == Init /\ [][Next]_vars /\ Fairness
-------------------------------------------------------------------------------
(***************************************************************************)
(* Correctness.                                                            *)
(***************************************************************************)
Label == {"idle", "count", "try", "push", "mark", "publish", "arm", "register",
          "enter", "drain", "release", "progress", "front", "pop", "discount", "load",
          "clear", "visit", "unlink", "sync", "waiting", "clearing"}

TypeOK ==
  /\ state \in [Task -> UNINITIALIZED..COMPLETED]
  /\ numPredecessors \in [Task -> Int]
  /\ prevOrdered \in [Task -> Task \cup {NoTask}]
  /\ segmentOf \in [Task -> Segment \cup {0}]
  /\ freeSegments \subseteq Segment
  /\ packetsLeft \in [Task -> Nat]
  /\ published \subseteq Task
  /\ groupSignal \in [Group -> Nat]
  /\ taskCount \in [Group -> Int]
  /\ groupSuccessors \in [Group -> Seq(Task)]
  /\ callbackStarted \in [Group -> BOOLEAN]
  /\ armed \in [Group -> BOOLEAN]
  /\ runningGroupable \in [Group -> Seq(Task)]
  /\ runningOrdered \in [Group -> Seq(Task)]
  /\ underflowed \subseteq Group
  /\ runningDefault \in [Group -> Seq(Task)]
  /\ lastTask \in [Group -> Task \cup {NoTask}]
  /\ readyQueue \in Seq(Task)
  /\ thread \in [Thread -> [at : Label, task : Task \cup {NoTask},
                            group : Group \cup {NoGroup}, via : {"launch", "front", "pop"}]]
  /\ toWait \in [App -> Seq(Task)]
  /\ groupTasks \in Seq(Task)
  /\ toVisit \in Seq(Task)
  /\ tempList \in Seq(Task)
  /\ budget \in Nat

\* The handler will complete t, or is about to.
Running(t) ==
  \/ t \in Elements(runningGroupable[GroupOf[t]])
  \/ At(Callback, "release") /\ t \in Elements(groupTasks)

\* The tasks in the lists of those that wait for resources or for a group.
Linked ==
  Elements(readyQueue) \cup Elements(tempList) \cup Elements(toVisit)
    \cup UNION {Elements(groupSuccessors[g]) : g \in Group}

(***************************************************************************)
(* The ways in which the code leaves tasks unfinished.  HandlerBlocked:    *)
(* the handler waits for the signal with the lock that the dispatcher who  *)
(* raised it needs (task.cpp:687, 977).  SetBack: a CPU task, published    *)
(* before it is marked, is completed by the handler and then set back to   *)
(* DISPATCHED (task.cpp:1117).  Stranded: a task linked to a group whose   *)
(* list was cleared before the loop over it (task.cpp:788), which nobody   *)
(* will count down.  Dropped: a task that the handler popped in the place  *)
(* of one that had popped itself (task.cpp:696-705, 1649), whose launcher  *)
(* then finds that it has to wait.  Where that launcher can dispatch it,   *)
(* the pop_front() that follows meets an empty list instead (underflowed). *)
(* Starved: a kernel that lacked the segment of a kernel of another group, *)
(* and whose list the doProgress of that one does not serve, one of the    *)
(* two groups being ordered (task.cpp:829).                                *)
(***************************************************************************)
HandlerBlocked ==
  /\ At(Callback, "drain")
  /\ \E a \in App : At(a, "push") /\ GroupOf[thread[a].task] = thread[Callback].group

SetBack(t) == state[t] = DISPATCHED /\ ~Running(t)

Stranded(t) ==
  /\ state[t] = INITIALIZED
  /\ RequiredGroups[t] # {}
  /\ numPredecessors[t] > 0
  /\ t \notin Linked

Dropped(t) ==
  /\ Ordered(t)
  /\ state[t] = INITIALIZED
  /\ t \notin Elements(runningOrdered[GroupOf[t]])
  /\ t \notin Linked
  /\ \A h \in Thread : ~(At(h, "try") /\ thread[h].task = t)

Starved(t) ==
  /\ state[t] = INITIALIZED
  /\ t \in Elements(readyQueue) \cup Elements(runningOrdered[GroupOf[t]])
  /\ \E u \in Task : /\ IsKernel(t) /\ IsKernel(u) /\ state[u] = COMPLETED
                     /\ Ordered(t) \/ Ordered(u)
                     /\ GroupOf[t] # GroupOf[u]

Hung ==
  \/ HandlerBlocked
  \/ underflowed # {}
  \/ \E t \in Task : SetBack(t) \/ Stranded(t) \/ Dropped(t) \/ Starved(t)

(***************************************************************************)
(* A kernarg segment has one owner, the pool included, from the attempt    *)
(* that takes it to the handler that completes the task.                   *)
(***************************************************************************)
Holds(t) == IsKernel(t) /\ state[t] \in READY..EXECUTED /\ ~SetBack(t)

SegmentsExclusive ==
  /\ \A t \in Task : Holds(t) => segmentOf[t] \in Segment \ freeSegments
  /\ \A t, u \in Task : Holds(t) /\ Holds(u) /\ segmentOf[t] = segmentOf[u] => t = u

(***************************************************************************)
(* No running task is forgotten by the callback_started_ protocol: while a *)
(* group has running tasks its handler is registered, about to take them,  *)
(* or a dispatcher of the group has not yet passed the test_and_set.       *)
(***************************************************************************)
HandlerComes ==
  \A g \in Group : runningGroupable[g] # <<>> =>
    \/ armed[g]
    \/ thread[Callback].at \in {"enter", "drain"} /\ thread[Callback].group = g
    \/ \E h \in Thread :
         /\ thread[h].at \in {"mark", "publish", "arm", "register"}
         /\ GroupOf[thread[h].task] = g

(***************************************************************************)
(* task_count_ is the number of tasks counted by their launchers less the  *)
(* number of those the handler has discounted, although tasks join while   *)
(* the handler runs.  A task of an ordered group may be dispatched by the  *)
(* handler's loop, and even discounted, before its launcher counts it      *)
(* (task.cpp:1802, 1811): the difference may then be -1, or 0 early.       *)
(***************************************************************************)
Counted(t) ==
  /\ state[t] # UNINITIALIZED \/ thread[Launcher(t)].task = t
  /\ ~(At(Launcher(t), "count") /\ thread[Launcher(t)].task = t)

Discounted(t) == (state[t] = COMPLETED \/ SetBack(t)) /\ t \notin Elements(groupTasks)

TaskCountExact ==
  \A g \in Group :
    taskCount[g] = Cardinality({t \in Task : GroupOf[t] = g /\ Counted(t)})
                   - Cardinality({t \in Task : GroupOf[t] = g /\ Discounted(t)})

(***************************************************************************)
(* "Wait for the launched task group" (include/atmi_runtime.h:590): when   *)
(* sync() is about to return, every task that its caller launched in the   *)
(* group is COMPLETED and no packet of it is left on a device.             *)
(***************************************************************************)
SyncedFinished ==
  \A a \in App : WaitedForAll(a) =>
    \A t \in Task :
      GroupOf[t] = thread[a].group /\ Launcher(t) = a /\ state[t] # UNINITIALIZED =>
        state[t] = COMPLETED /\ packetsLeft[t] = 0

(***************************************************************************)
(* sync() returns to a program of one application thread, whatever the     *)
(* segments that tasks waited for and the moments at which the handler was *)
(* called, unless the program comes to one of the states above and never   *)
(* leaves it.                                                              *)
(***************************************************************************)
SyncReturns ==
  \A a \in App : At(a, "sync") ~> At(a, "idle") \/ []Hung

(***************************************************************************)
(* The same without exception, as a program that calls                     *)
(* atmi_taskgroup_wait expects.                                            *)
(***************************************************************************)
SyncAlwaysReturns == \A a \in App : At(a, "sync") ~> At(a, "idle")
===============================================================================

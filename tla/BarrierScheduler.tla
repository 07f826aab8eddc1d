--------------------------- MODULE BarrierScheduler ---------------------------
(***************************************************************************)
(* The task scheduler when ATMI_DEPENDENCY_SYNC_TYPE selects barrier       *)
(* packets (ATL_SYNC_BARRIER_PKT).  Dependences are left to the devices: a *)
(* task may be dispatched as soon as those it requires are, with a barrier *)
(* packet before it.  Its resources come back in batches: the thread that  *)
(* fails to dispatch, or that waits, takes the tasks dispatched so far in  *)
(* the group, puts a barrier packet after their sinks, and has             *)
(* handle_signal called when the packet's signal, IdentityANDSignal, which *)
(* all batches share, is 0.                                                *)
(*                                                                         *)
(* Tasks have a signal of their own (none is groupable) and are GPU        *)
(* kernels or copies without staging.  A kernarg segment is taken and      *)
(* returned with the signal; the signal stands for both.  The chain of     *)
(* barrier packets that a list longer than five takes is one packet here.  *)
(***************************************************************************)
EXTENDS Integers, SequencesExt, FiniteSets

CONSTANTS
  Task, App,
  Callback,      \* the thread that runs handle_signal
  Group,
  OrderedGroup,  \* those created with ordered = true
  NoTask, NoGroup,
  GroupOf,       \* taskgroup_obj_
  KindOf,        \* "gpu" or "data"
  Requires,      \* lparm->requires
  Queue,         \* AQL queues of the GPU
  QueueOf,       \* what chooseQueueFromPlace gives for a task
  Created,       \* tasks made by CreateTask; the others are launched
  Program,       \* the tasks each application thread makes, in order
  Pool           \* FreeSignalPool as it was filled

Elements(q) == {q[i] : i \in DOMAIN q}
Signal == Elements(Pool)
Thread == App \cup {Callback}

ASSUME BarrierAssumption ==
  /\ NoTask \notin Task
  /\ NoGroup \notin Group
  /\ Callback \notin App
  /\ OrderedGroup \subseteq Group
  /\ GroupOf \in [Task -> Group]
  /\ KindOf \in [Task -> {"gpu", "data"}]
  /\ Requires \in [Task -> SUBSET Task]
  /\ QueueOf \in [Task -> Queue]
  /\ \A t, u \in Task :
       GroupOf[t] = GroupOf[u] /\ GroupOf[t] \in OrderedGroup => QueueOf[t] = QueueOf[u]
  /\ Created \subseteq {t \in Task : KindOf[t] = "gpu"}
  /\ Program \in [App -> Seq(Task)]
  \* a call that makes a task makes a new one
  /\ \A a, b \in App : \A i \in DOMAIN Program[a], j \in DOMAIN Program[b] :
       Program[a][i] = Program[b][j] => a = b /\ i = j
  /\ 0 \notin Signal
  /\ Pool \in Seq(Signal) /\ Pool # <<>>
  /\ \A i, j \in DOMAIN Pool : Pool[i] = Pool[j] => i = j
  /\ IsFiniteSet(Task)

\* atmi_state_t
UNINITIALIZED == -1
INITIALIZED   == 0
READY         == 1
DISPATCHED    == 2
EXECUTED      == 3
COMPLETED     == 4

VARIABLES
  state,        \* state_
  prevOrdered,  \* prev_ordered_task_
  lastTask,     \* last_task_ of each group
  signalOf,     \* signal_, never reset (0 before the first)
  andPreds,     \* and_predecessors_
  freeSignals,  \* FreeSignalPool
  created,      \* created_tasks_
  dispatched,   \* dispatched_tasks_
  sinks,        \* dispatched_sink_tasks_
  flag,         \* first_created_tasks_dispatched_
  queue,        \* packets in each AQL queue that are not complete
  awaited,      \* predecessors whose signal a task's device has still to see at 0
  published,    \* tasks whose packet or copy the device may see
  finished,     \* tasks the device has completed
  signalValue,  \* value of each signal of the pool
  identity,     \* value of IdentityANDSignal
  handlers,     \* batches whose handler is registered on it
  handling,     \* tasks of its batch that handle_signal has still to treat
  thread,       \* control of each thread
  overlapped    \* history: a batch was started while another was in flight

taskVars    == <<state, prevOrdered, lastTask, signalOf, andPreds, freeSignals>>
listVars    == <<created, dispatched, sinks, flag>>
deviceVars  == <<queue, awaited, published, finished, signalValue>>
batchVars   == <<identity, handlers, overlapped>>
vars == <<taskVars, listVars, deviceVars, batchVars, handling, thread>>

Nothing == [sinks |-> {}, tasks |-> <<>>]
Frame(label, t, g, via) ==
  [at |-> label, task |-> t, group |-> g, via |-> via, batch |-> Nothing]
Idle == Frame("idle", NoTask, NoGroup, "launch")

Init ==
  /\ state = [t \in Task |-> UNINITIALIZED]
  /\ prevOrdered = [t \in Task |-> NoTask]
  /\ lastTask = [g \in Group |-> NoTask]
  /\ signalOf = [t \in Task |-> 0]
  /\ andPreds = [t \in Task |-> {}]
  /\ freeSignals = Pool
  /\ created = [g \in Group |-> <<>>]
  /\ dispatched = [g \in Group |-> <<>>]
  /\ sinks = [g \in Group |-> {}]
  /\ flag = [g \in Group |-> FALSE]
  /\ queue = [q \in Queue |-> <<>>]
  /\ awaited = [t \in Task |-> {}]
  /\ published = {}
  /\ finished = {}
  /\ signalValue = [s \in Signal |-> 0]
  /\ identity = 0
  /\ handlers = {}
  /\ handling = <<>>
  /\ thread = [h \in Thread |-> Idle]
  /\ overlapped = FALSE

-------------------------------------------------------------------------------
At(h, label) == thread[h].at = label
Goto(h, label) == thread' = [thread EXCEPT ![h].at = label]
Rest(h) == thread' = [thread EXCEPT ![h] = Idle]

Ordered(t) == GroupOf[t] \in OrderedGroup

\* CreateTask or the launch has listed it.
Exists(t) == state[t] # UNINITIALIZED \/ t \in Elements(created[GroupOf[t]])

\* Thread a makes its tasks in order, each after those it requires.
NextMade(a, t) ==
  \E i \in DOMAIN Program[a] :
    /\ Program[a][i] = t
    /\ ~Exists(t)
    /\ \A j \in 1..i - 1 : Exists(Program[a][j])
    /\ \A p \in Requires[t] : Exists(p)

\* Mutant: doProgress dispatches one task and is done.
EndProgressEarly(h, success) ==
  CASE thread[h].via = "wait" -> Goto(h, "waiting")
    [] thread[h].via = "activate" /\ success -> Goto(h, "gate")
    [] OTHER -> Rest(h)

\* tryDispatch returns: to the API call, to the loop of ActivateTask or of
\* doProgress, or, for the part of it that wait() repeats, to wait().
EndTry(h, success) ==
  CASE thread[h].via = "wait" -> Goto(h, "waiting")
    [] thread[h].via = "activate" /\ success -> Goto(h, "gate")
    [] thread[h].via = "progress" /\ success -> Goto(h, "peek")
    [] OTHER -> Rest(h)

-------------------------------------------------------------------------------
(***************************************************************************)
(* Making a task: the constructor, then created_tasks_.                    *)
(***************************************************************************)
Construct(a, t) ==
  LET g == GroupOf[t] IN
  /\ At(a, "idle")
  /\ NextMade(a, t)
  /\ IF Ordered(t)
     THEN /\ prevOrdered' = [prevOrdered EXCEPT ![t] = lastTask[g]]
          /\ lastTask' = [lastTask EXCEPT ![g] = t]
     ELSE UNCHANGED <<prevOrdered, lastTask>>
  /\ thread' = [thread EXCEPT ![a] = Frame("push", t, g, "launch")]
  /\ UNCHANGED <<state, signalOf, andPreds, freeSignals, listVars, deviceVars,
                 batchVars, handling>>

\* tryLaunchKernel and MemcpyAsync go on to tryDispatch, CreateTask does not.
PushCreated(a) ==
  LET t == thread[a].task IN
  /\ At(a, "push")
  /\ created' = [created EXCEPT ![GroupOf[t]] = Append(@, t)]
  /\ IF t \in Created
     THEN state' = [state EXCEPT ![t] = INITIALIZED] /\ Rest(a)
     ELSE UNCHANGED state /\ Goto(a, "gate")
  /\ UNCHANGED <<prevOrdered, lastTask, signalOf, andPreds, freeSignals,
                 dispatched, sinks, flag, deviceVars, batchVars, handling>>

ActivateTask(a, t) ==
  /\ At(a, "idle")
  /\ t \in Created \cap Elements(Program[a])
  /\ Exists(t)
  /\ thread' = [thread EXCEPT ![a] = Frame("gate", t, GroupOf[t], "activate")]
  /\ UNCHANGED <<taskVars, listVars, deviceVars, batchVars, handling>>

-------------------------------------------------------------------------------
(***************************************************************************)
(* tryDispatch.  An application thread tries only while no thread has      *)
(* failed in the group since the callback thread last found it empty.      *)
(***************************************************************************)
Gate(a) ==
  /\ At(a, "gate")
  /\ Goto(a, IF flag[thread[a].group] THEN "fail" ELSE "peek")
  /\ UNCHANGED <<taskVars, listVars, deviceVars, batchVars, handling>>

Peek(h) ==
  LET c == created[thread[h].group] IN
  /\ At(h, "peek")
  /\ thread' = [thread EXCEPT ![h] =
       IF c = <<>> THEN [@ EXCEPT !.at = "fail"]
       ELSE [@ EXCEPT !.at = "try", !.task = Head(c)]]
  /\ UNCHANGED <<taskVars, listVars, deviceVars, batchVars, handling>>

\* The previous task of an ordered group counts as a predecessor here.
Undispatched(t) ==
  \E p \in Requires[t] \cup ({prevOrdered[t]} \ {NoTask}) : state[p] < DISPATCHED

\* Mutant: a failed attempt removes the front of the list too.
GiveUpAndPop(g) == created' = [created EXCEPT ![g] = IF @ = <<>> THEN @ ELSE Tail(@)]

GiveUp(g) == UNCHANGED created

TryTaken(h) ==
  LET t == thread[h].task IN
  /\ At(h, "try")
  /\ state[t] >= READY
  /\ GiveUp(GroupOf[t])
  /\ Goto(h, "fail")
  /\ UNCHANGED <<taskVars, dispatched, sinks, flag, deviceVars, batchVars, handling>>

TryWaits(h) ==
  LET t == thread[h].task IN
  /\ At(h, "try")
  /\ state[t] < READY
  /\ Undispatched(t)
  /\ state' = [state EXCEPT ![t] = INITIALIZED]
  /\ Goto(h, "fail")
  /\ UNCHANGED <<prevOrdered, lastTask, signalOf, andPreds, freeSignals, listVars,
                 deviceVars, batchVars, handling>>

TryLacksSignal(h) ==
  LET t == thread[h].task IN
  /\ At(h, "try")
  /\ state[t] < READY
  /\ ~Undispatched(t)
  /\ freeSignals = <<>>
  /\ state' = [state EXCEPT ![t] = INITIALIZED]
  /\ andPreds' = [andPreds EXCEPT ![t] = {}]
  /\ Goto(h, "fail")
  /\ UNCHANGED <<prevOrdered, lastTask, signalOf, freeSignals, listVars,
                 deviceVars, batchVars, handling>>

\* Mutant: a task that has been dispatched is taken for an executed one.
UndispatchedAndPreds(t) == {p \in Requires[t] : state[p] < DISPATCHED}

\* Those that the device must wait for.
AndPredecessors(t) ==
  {p \in Requires[t] : state[p] < EXECUTED}
    \cup {p \in {prevOrdered[t]} \ {NoTask} : KindOf[p] # KindOf[t] /\ state[p] < EXECUTED}

\* Mutant: the new task is the only sink.
OnlySink(t) == {t}

\* A task replaces those it follows.
SinksWith(t) ==
  (sinks[GroupOf[t]] \cup {t}) \ (AndPredecessors(t) \cup {prevOrdered[t]})

\* Mutant: the front of the pool is not popped.
TakeWithoutPop == UNCHANGED freeSignals

TakeSignal == freeSignals' = Tail(freeSignals)

\* Mutant: the signal keeps its value.
RaiseNothing(s) == UNCHANGED signalValue

RaiseSignal(s) == signalValue' = [signalValue EXCEPT ![s] = @ + 1]

\* The last holds the sinks whose signal the device has still to see at 0.
TaskPacket(t)  == [type |-> "task", task |-> t, sinks |-> {}]
DepsPacket(t)  == [type |-> "deps", task |-> t, sinks |-> {}]
SinksPacket(S) == [type |-> "sinks", task |-> NoTask, sinks |-> S]

\* acquireAqlPacket: a barrier packet, if there is somebody to wait for, and a
\* place for the packet of the kernel.  A copy has its dependences with it.
Packets(t) ==
  IF KindOf[t] = "data" THEN <<>>
  ELSE IF AndPredecessors(t) = {} THEN <<TaskPacket(t)>>
  ELSE <<DepsPacket(t), TaskPacket(t)>>

TryAcquires(h) ==
  LET t == thread[h].task
      g == GroupOf[t]
  IN
  /\ At(h, "try")
  /\ state[t] < READY
  /\ ~Undispatched(t)
  /\ freeSignals # <<>>
  /\ TakeSignal
  /\ signalOf' = [signalOf EXCEPT ![t] = Head(freeSignals)]
  /\ RaiseSignal(Head(freeSignals))
  /\ andPreds' = [andPreds EXCEPT ![t] = AndPredecessors(t)]
  /\ awaited' = [awaited EXCEPT ![t] = AndPredecessors(t)]
  /\ dispatched' = [dispatched EXCEPT ![g] = Append(@, t)]
  /\ created' = [created EXCEPT ![g] = Tail(@)]
  /\ sinks' = [sinks EXCEPT ![g] = SinksWith(t)]
  /\ queue' = [queue EXCEPT ![QueueOf[t]] = @ \o Packets(t)]
  /\ state' = [state EXCEPT ![t] = READY]
  /\ Goto(h, "mark")
  /\ UNCHANGED <<prevOrdered, lastTask, flag, published, finished, batchVars, handling>>

MarkDispatched(h) ==
  /\ At(h, "mark")
  /\ state' = [state EXCEPT ![thread[h].task] = DISPATCHED]
  /\ Goto(h, "publish")
  /\ UNCHANGED <<prevOrdered, lastTask, signalOf, andPreds, freeSignals, listVars,
                 deviceVars, batchVars, handling>>

Publish(h) ==
  /\ At(h, "publish")
  /\ published' = published \cup {thread[h].task}
  /\ EndTry(h, TRUE)
  /\ UNCHANGED <<taskVars, listVars, queue, awaited, finished, signalValue, batchVars,
                 handling>>

-------------------------------------------------------------------------------
(***************************************************************************)
(* The end of a batch.  The callback thread, and the first application     *)
(* thread to fail since the flag was reset, take what was dispatched.      *)
(***************************************************************************)
CompareAndSet(h) ==
  LET g == thread[h].group IN
  /\ At(h, "fail")
  /\ flag' = [flag EXCEPT ![g] = TRUE]
  /\ IF h = Callback \/ ~flag[g] THEN Goto(h, "take") ELSE EndTry(h, FALSE)
  /\ UNCHANGED <<taskVars, created, dispatched, sinks, deviceVars, batchVars, handling>>

TakeSinks(h) ==
  LET g == thread[h].group IN
  /\ At(h, "take")
  /\ IF sinks[g] = {}
     THEN EndTry(h, FALSE) /\ UNCHANGED <<sinks, dispatched>>
     ELSE /\ thread' = [thread EXCEPT ![h] = [@ EXCEPT !.at = "store",
                          !.batch = [sinks |-> sinks[g], tasks |-> dispatched[g]]]]
          /\ sinks' = [sinks EXCEPT ![g] = {}]
          /\ dispatched' = [dispatched EXCEPT ![g] = <<>>]
  /\ UNCHANGED <<taskVars, created, flag, deviceVars, batchVars, handling>>

\* A batch is in flight from the store on IdentityANDSignal to its handler.
InFlight ==
  \/ handlers # {}
  \/ \E h \in Thread : thread[h].at \in {"barrier", "register"}

StoreIdentity(h) ==
  /\ At(h, "store")
  /\ overlapped' = (overlapped \/ InFlight)
  /\ identity' = 1
  /\ Goto(h, "barrier")
  /\ UNCHANGED <<taskVars, listVars, deviceVars, handlers, handling>>

\* On the queue of the last sink, in the order of the set's pointers.
EnqueueBarrier(h) ==
  LET S == thread[h].batch.sinks IN
  /\ At(h, "barrier")
  /\ \E t \in S : queue' = [queue EXCEPT ![QueueOf[t]] = Append(@, SinksPacket(S))]
  /\ Goto(h, "register")
  /\ UNCHANGED <<taskVars, listVars, awaited, published, finished, signalValue, batchVars,
                 handling>>

RegisterHandler(h) ==
  /\ At(h, "register")
  /\ handlers' = handlers \cup {thread[h].batch.tasks}
  /\ IF thread[h].via = "wait"
     THEN thread' = [thread EXCEPT ![h] = [@ EXCEPT !.at = "waiting", !.batch = Nothing]]
     ELSE Rest(h)
  /\ UNCHANGED <<taskVars, listVars, deviceVars, identity, overlapped, handling>>

-------------------------------------------------------------------------------
(***************************************************************************)
(* wait() ends the current batch itself if nobody else has failed.         *)
(***************************************************************************)
CallWait(a, t) ==
  /\ At(a, "idle")
  /\ t \in Elements(Program[a])
  /\ Exists(t)
  /\ thread' = [thread EXCEPT ![a] = Frame("spin", t, GroupOf[t], "wait")]
  /\ UNCHANGED <<taskVars, listVars, deviceVars, batchVars, handling>>

SpinUntilDispatched(a) ==
  /\ At(a, "spin")
  /\ state[thread[a].task] >= DISPATCHED
  /\ Goto(a, IF state[thread[a].task] < EXECUTED THEN "test" ELSE "waiting")
  /\ UNCHANGED <<taskVars, listVars, deviceVars, batchVars, handling>>

TestFlag(a) ==
  /\ At(a, "test")
  /\ Goto(a, IF flag[thread[a].group] THEN "waiting" ELSE "take")
  /\ UNCHANGED <<taskVars, listVars, deviceVars, batchVars, handling>>

WaitCompleted(a) ==
  /\ At(a, "waiting")
  /\ state[thread[a].task] = COMPLETED
  /\ Rest(a)
  /\ UNCHANGED <<taskVars, listVars, deviceVars, batchVars, handling>>

-------------------------------------------------------------------------------
(***************************************************************************)
(* handle_signal_barrier_pkt and doProgress, on the callback thread.       *)
(***************************************************************************)
HandleSignal(b) ==
  /\ At(Callback, "idle")
  /\ b \in handlers
  /\ identity = 0
  /\ handlers' = handlers \ {b}
  /\ handling' = b
  /\ thread' = [thread EXCEPT ![Callback] =
                  Frame("execute", b[1], GroupOf[b[1]], "progress")]
  /\ UNCHANGED <<taskVars, listVars, deviceVars, identity, overlapped>>

MarkExecuted ==
  /\ At(Callback, "execute")
  /\ state' = [state EXCEPT ![Head(handling)] = EXECUTED]
  /\ Goto(Callback, "release")
  /\ UNCHANGED <<prevOrdered, lastTask, signalOf, andPreds, freeSignals, listVars,
                 deviceVars, batchVars, handling>>

ReleaseSignal ==
  LET t == Head(handling) IN
  /\ At(Callback, "release")
  /\ freeSignals' = Append(freeSignals, signalOf[t])
  /\ state' = [state EXCEPT ![t] = COMPLETED]
  /\ handling' = Tail(handling)
  /\ Goto(Callback, IF Len(handling) = 1 THEN "progress" ELSE "execute")
  /\ UNCHANGED <<prevOrdered, lastTask, signalOf, andPreds, listVars, deviceVars, batchVars>>

DoProgress ==
  LET g == thread[Callback].group IN
  /\ At(Callback, "progress")
  /\ IF created[g] = <<>>
     THEN flag' = [flag EXCEPT ![g] = FALSE] /\ Rest(Callback)
     ELSE UNCHANGED flag /\ Goto(Callback, "peek")
  /\ UNCHANGED <<taskVars, created, dispatched, sinks, deviceVars, batchVars, handling>>

-------------------------------------------------------------------------------
(***************************************************************************)
(* The devices.  A queue is processed in order: nothing behind a barrier   *)
(* packet starts before it has passed; kernels of an unordered group may   *)
(* run together, those of an ordered group have the barrier bit.  A        *)
(* barrier packet passes at the front, when it has seen each signal it     *)
(* names at 0, if only once: of a chain (task.cpp:189) all but the last    *)
(* packet look before the kernels in front of them are complete.           *)
(***************************************************************************)
Started(q, i) ==
  \A j \in 1..i - 1 : queue[q][j].type = "task" /\ queue[q][j].task \in published

AtZero(p) == signalValue[signalOf[p]] = 0

SeePredecessor(t, p) ==
  /\ p \in awaited[t]
  /\ AtZero(p)
  /\ \/ KindOf[t] = "data" /\ t \in published
     \/ \E i \in DOMAIN queue[QueueOf[t]] :
          queue[QueueOf[t]][i] = DepsPacket(t) /\ Started(QueueOf[t], i)
  /\ awaited' = [awaited EXCEPT ![t] = @ \ {p}]
  /\ UNCHANGED <<taskVars, listVars, queue, published, finished, signalValue, batchVars,
                 handling, thread>>

SeeSink(q, p) ==
  /\ \E i \in DOMAIN queue[q] :
       /\ p \in queue[q][i].sinks
       /\ AtZero(p)
       /\ Started(q, i)
       /\ queue' = [queue EXCEPT ![q][i].sinks = @ \ {p}]
  /\ UNCHANGED <<taskVars, listVars, awaited, published, finished, signalValue, batchVars,
                 handling, thread>>

PassBarrier(q) ==
  /\ queue[q] # <<>>
  /\ LET p == Head(queue[q]) IN
     \/ p.type = "deps" /\ awaited[p.task] = {} /\ UNCHANGED identity
     \/ p.type = "sinks" /\ p.sinks = {} /\ identity' = identity - 1
  /\ queue' = [queue EXCEPT ![q] = Tail(@)]
  /\ UNCHANGED <<taskVars, listVars, awaited, published, finished, signalValue, handlers,
                 overlapped, handling, thread>>

\* The packet of a kernel that the device may run, at place i.
RunnableAt(t, i) ==
  /\ queue[QueueOf[t]][i] = TaskPacket(t)
  /\ Ordered(t) => i = 1
  /\ Started(QueueOf[t], i)

Runnable(t) ==
  /\ t \in published \ finished
  /\ awaited[t] = {}
  /\ KindOf[t] = "data" \/ \E i \in DOMAIN queue[QueueOf[t]] : RunnableAt(t, i)

FinishTask(t) ==
  /\ Runnable(t)
  /\ finished' = finished \cup {t}
  /\ signalValue' = [signalValue EXCEPT ![signalOf[t]] = @ - 1]
  /\ IF KindOf[t] = "data" THEN UNCHANGED queue
     ELSE \E i \in DOMAIN queue[QueueOf[t]] :
            /\ RunnableAt(t, i)
            /\ queue' = [queue EXCEPT ![QueueOf[t]] = RemoveAt(@, i)]
  /\ UNCHANGED <<taskVars, listVars, awaited, published, batchVars, handling, thread>>

-------------------------------------------------------------------------------
Call(a) ==
  \E t \in Task : Construct(a, t) \/ ActivateTask(a, t) \/ CallWait(a, t)

TryDispatch(h) ==
  \/ Peek(h)
  \/ TryTaken(h)
  \/ TryWaits(h)
  \/ TryLacksSignal(h)
  \/ TryAcquires(h)
  \/ MarkDispatched(h)
  \/ Publish(h)
  \/ CompareAndSet(h)
  \/ TakeSinks(h)
  \/ StoreIdentity(h)
  \/ EnqueueBarrier(h)
  \/ RegisterHandler(h)

Wait(a) == SpinUntilDispatched(a) \/ TestFlag(a) \/ WaitCompleted(a)

AppStep(a) == PushCreated(a) \/ Gate(a) \/ TryDispatch(a) \/ Wait(a)

Handler ==
  \/ \E b \in handlers : HandleSignal(b)
  \/ MarkExecuted
  \/ ReleaseSignal
  \/ DoProgress
  \/ TryDispatch(Callback)

Device ==
  \/ \E t, p \in Task : SeePredecessor(t, p)
  \/ \E t \in Task : FinishTask(t)
  \/ \E q \in Queue : PassBarrier(q) \/ \E p \in Task : SeeSink(q, p)

Next == (\E a \in App : Call(a) \/ AppStep(a)) \/ Handler \/ Device

(***************************************************************************)
(* A call, once made, runs; the handler thread runs; the devices go on     *)
(* with what they may start.  Nothing obliges the program to make a call.  *)
(***************************************************************************)
Fairness ==
  /\ \A a \in App : WF_vars(AppStep(a))
  /\ WF_vars(Handler)
  /\ WF_vars(Device)

Spec == Init /\ [][Next]_vars /\ Fairness
-------------------------------------------------------------------------------
PacketSet ==
  [type : {"task", "deps"}, task : Task, sinks : {{}}]
    \cup [type : {"sinks"}, task : {NoTask}, sinks : SUBSET Task]

(***************************************************************************)
(* Types.  A signal has the value 0 in the pool, and while a task has it   *)
(* is never taken below 0 (the raise at task.cpp:1179 is not missed).      *)
(* IdentityANDSignal, which is below 0 after a batch that overlapped       *)
(* another and then calls no handler, goes from 1 to 0 otherwise.          *)
(***************************************************************************)
TypeOK ==
  /\ state \in [Task -> UNINITIALIZED..COMPLETED]
  /\ prevOrdered \in [Task -> Task \cup {NoTask}]
  /\ lastTask \in [Group -> Task \cup {NoTask}]
  /\ signalOf \in [Task -> Signal \cup {0}]
  /\ andPreds \in [Task -> SUBSET Task] /\ awaited \in [Task -> SUBSET Task]
  /\ Elements(freeSignals) \subseteq Signal
  /\ \A g \in Group :
       /\ Elements(created[g]) \cup Elements(dispatched[g]) \cup sinks[g] \subseteq Task
       /\ flag[g] \in BOOLEAN
  /\ \A q \in Queue : Elements(queue[q]) \subseteq PacketSet
  /\ finished \subseteq published /\ published \subseteq Task
  /\ signalValue \in [Signal -> 0..Cardinality(Task)]
  /\ identity \in Int /\ (identity \in {0, 1} \/ overlapped)
  /\ Elements(handling) \subseteq Task
  /\ overlapped \in BOOLEAN

\* Two copies in a row in an ordered group: no dependence is given to either.
CopiesAdjacent(g) ==
  \E u \in Task :
    /\ prevOrdered[u] # NoTask
    /\ GroupOf[u] = g /\ KindOf[u] = "data" /\ KindOf[prevOrdered[u]] = "data"

(***************************************************************************)
(* "Since we attach barrier packet to sink tasks, at this point in the     *)
(* callback, we are guaranteed that all dispatched_tasks have completed    *)
(* execution" (task.cpp:563), as long as batches do not overlap.           *)
(***************************************************************************)
BatchesFinished ==
  ~overlapped =>
    \A t \in Elements(handling) : t \in finished \/ CopiesAdjacent(GroupOf[t])

(***************************************************************************)
(* tryDispatchBarrierPacket peeks under group_mutex_ and pops, later and   *)
(* under other locks, without looking again: the front it pops is still    *)
(* the task it dispatches.  No task is lost from the list or in it twice.  *)
(***************************************************************************)
CreatedExact ==
  /\ \A g \in Group : \A i, j \in DOMAIN created[g] :
       /\ state[created[g][i]] < READY
       /\ created[g][i] = created[g][j] => i = j
  /\ \A t \in Task : state[t] = INITIALIZED => t \in Elements(created[GroupOf[t]])
  /\ \A h \in Thread :
       LET t == thread[h].task IN
       At(h, "try") /\ state[t] < READY =>
         created[GroupOf[t]] # <<>> /\ Head(created[GroupOf[t]]) = t

\* Tasks that have a signal and have not returned it.
Holders == {t \in Task : state[t] \in READY..EXECUTED}

(***************************************************************************)
(* A signal has one owner: a task or the pool.                             *)
(***************************************************************************)
SignalsExclusive ==
  ~overlapped =>
    /\ \A i, j \in DOMAIN freeSignals : freeSignals[i] = freeSignals[j] => i = j
    /\ \A t \in Holders : signalOf[t] \notin Elements(freeSignals)
    /\ \A t, u \in Holders : t # u => signalOf[t] # signalOf[u]

(***************************************************************************)
(* The device starts a task only when those it requires are complete,      *)
(* although the task was dispatched before they were; the exception is the *)
(* same, for a copy marked as executed before it is complete.              *)
(***************************************************************************)
DependenciesRespected ==
  ~overlapped =>
    \A t \in Task : Runnable(t) =>
      \A p \in Requires[t] : p \in finished \/ CopiesAdjacent(GroupOf[p])

\* Nothing is on its way that would try a task of the group.
Quiet(g) ==
  /\ \A b \in handlers : GroupOf[b[1]] # g
  /\ \A h \in Thread : thread[h].group # g \/ thread[h].at \in {"idle", "spin", "waiting"}

\* The flag says that the callback thread will go on, but no batch is in
\* flight: the thread that set it had found nothing dispatched.
Stuck(g) == Quiet(g) /\ flag[g] /\ created[g] # <<>> /\ dispatched[g] = <<>>

\* A launch dispatched a created task, the front of the list, and left its own.
Untried(g) ==
  /\ Quiet(g) /\ ~flag[g] /\ created[g] # <<>>
  /\ \E t \in Created : GroupOf[t] = g

\* wait() left the batch to the callback thread, for the flag was set, and the
\* callback thread reset it, for created_tasks_ was empty.
Forgotten(g) ==
  /\ Quiet(g) /\ ~flag[g] /\ dispatched[g] # <<>>
  /\ \E a \in App : At(a, "waiting") /\ thread[a].task \in Elements(dispatched[g])

\* A device waits for the signal of a predecessor that is complete, and whose
\* signal has since been given to another task.
Entangled ==
  \E t \in Holders \ finished : \E p \in awaited[t] : \E u \in Holders :
    state[p] = COMPLETED /\ signalOf[u] = signalOf[p] /\ signalValue[signalOf[p]] > 0

(***************************************************************************)
(* atmi_task_wait returns, unless two batches overlapped, a group is stuck *)
(* or forgotten, the task is behind one that was never activated, or the   *)
(* device waits for ever for a signal with a new owner.                    *)
(***************************************************************************)
WaitReturns ==
  \A a \in App :
    At(a, "spin") ~> (\/ At(a, "idle")
                     \/ overlapped
                     \/ \E g \in Group : Stuck(g) \/ Forgotten(g)
                     \/ Untried(thread[a].group)
                     \/ []Entangled)
===============================================================================

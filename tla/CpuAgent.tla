------------------------------- MODULE CpuAgent -------------------------------
(***************************************************************************)
(* The CPU agents: soft queues of packets that dispatching threads fill    *)
(* (acquireAqlPacket and dispatch of ComputeTaskImpl), one worker thread   *)
(* per queue that empties it (agent_worker), and the end of the workers    *)
(* (agent_fini).  HostCallback sees all of this as Publish and             *)
(* CompletePacket; here the queues, doorbells and worker signals are       *)
(* explicit and every step is one access to a location that threads share. *)
(***************************************************************************)
EXTENDS Integers, Sequences, FiniteSets

CONSTANTS
  Task,          \* CPU tasks whose dispatch is due
  Dispatcher,    \* threads that dispatch: the application's and the callback's
  Calls,         \* the tasks each of them may dispatch
  QueueCount,    \* soft queues, over all CPU agents
  QueueSize,     \* ATMI_MAX_QUEUE_SIZE
  QueuesOf,      \* get_cpu_queues(place_): the queues of the task's agent
  ThreadCount,   \* the product of gridDim_, at least 1
  ChosenQueue,   \* position in QueuesOf of what chooseQueueFromPlace returns
  NoTask, NoThread,
  Invalid,       \* header of a slot that holds no packet, as the queue is made
  Cleared,       \* header after the memset of dispatch: type VENDOR_SPECIFIC
  IntMax         \* the doorbell value that ends process_packet

Queue == 1..QueueCount

ASSUME AgentAssumption ==
  /\ QueueCount \in Nat \ {0}
  /\ QueueSize \in Nat \ {0}
  /\ Calls \in [Dispatcher -> SUBSET Task]
  /\ QueuesOf \in [Task -> Seq(Queue) \ {<<>>}]
  /\ ThreadCount \in [Task -> Nat \ {0}]
  /\ \A t \in Task : ChosenQueue[t] \in DOMAIN QueuesOf[t]
  /\ NoTask \notin Task
  /\ NoThread \notin Dispatcher
  /\ IntMax \in Nat
  /\ \A t \in Task : ThreadCount[t] < IntMax

\* internal.h: the values of worker_sig.
PROCESS_PKT == 0
FINISH      == 1
IDLE        == 2

\* A packet is a thread of a task.
PacketsOf(t) == {<<t, i>> : i \in 1..ThreadCount[t]}
Packet == UNION {PacketsOf(t) : t \in Task}

\* The headers of a slot without packet are of other types.
ASSUME HeaderAssumption == Invalid \notin Packet /\ Cleared \notin Packet

\* Round robin over the agent's queues, a single packet on the chosen one.
QueueOf(t, i) ==
  LET qs == QueuesOf[t] IN
  IF ThreadCount[t] = 1 THEN qs[ChosenQueue[t]]
  ELSE qs[1 + ((i - 1) % Len(qs))]

VARIABLES
  writeIndex, readIndex,  \* of each queue
  header,                 \* of each slot of a queue: a packet or what it is not
  completion,             \* the task whose signal each slot holds
  doorbell,               \* doorbell_signal of each queue
  workerSig,              \* worker_sig of each queue's agent
  worker,                 \* control of each worker
  dispatcher,             \* control of each dispatcher: at, task, the packet
                          \* it is at, and the index it has read
  readyqMutex,            \* holder of mutex_readyq_
  places,                 \* packets_ of each task: queue and index of each
  signalValue,            \* completion signal of each task
  ran,                    \* packets whose function has been called
  finalizer,              \* control of agent_fini, and the queue it is at
  disturbed               \* history: queues on which two dispatches overlapped

queueVars == <<writeIndex, readIndex, header, completion, doorbell>>
vars == <<queueVars, workerSig, worker, dispatcher, readyqMutex, places,
          signalValue, ran, finalizer, disturbed>>

\* The control of a dispatcher that is at packet n of t and has read index k.
Control(label, t, n, k) == [at |-> label, task |-> t, next |-> n, index |-> k]

NoCall == Control("idle", NoTask, 1, 0)

\* The HSA runtime makes a soft queue with INVALID headers in zeroed memory.
Init ==
  /\ writeIndex = [q \in Queue |-> 0]
  /\ readIndex = [q \in Queue |-> 0]
  /\ header = [q \in Queue |-> [i \in 0..QueueSize - 1 |-> Invalid]]
  /\ completion = [q \in Queue |-> [i \in 0..QueueSize - 1 |-> NoTask]]
  /\ doorbell = [q \in Queue |-> 1]
  /\ workerSig = [q \in Queue |-> IDLE]
  /\ worker = [q \in Queue |-> "asleep"]
  /\ dispatcher = [d \in Dispatcher |-> NoCall]
  /\ readyqMutex = NoThread
  /\ places = [t \in Task |-> <<>>]
  /\ signalValue = [t \in Task |-> 0]
  /\ ran = {}
  /\ finalizer = [at |-> "none", queue |-> 1]
  /\ disturbed = {}

-------------------------------------------------------------------------------
(***************************************************************************)
(* The dispatching threads.                                                *)
(***************************************************************************)
At(d, label) == dispatcher[d].at = label
Goto(d, label, k) ==
  dispatcher' = [dispatcher EXCEPT ![d] =
    Control(label, dispatcher[d].task, dispatcher[d].next, k)]

\* The next packet of the task, or what follows the loop over the packets.
NextPacket(d, again, after) ==
  LET c == dispatcher[d] IN
  dispatcher' = [dispatcher EXCEPT ![d] =
    IF c.next < ThreadCount[c.task] THEN Control(again, c.task, c.next + 1, c.index)
    ELSE IF after = "idle" THEN NoCall
    ELSE Control(after, c.task, 1, c.index)]

\* The queue of the packet a dispatcher is at.
CurrentQueue(d) == QueueOf(dispatcher[d].task, dispatcher[d].next)

\* Mutant: the signal counts one packet, as for a GPU task.
AcquireOnePacket(d, t) ==
  /\ At(d, "idle")
  /\ finalizer.at = "none"
  /\ t \in Calls[d]
  /\ places[t] = <<>>
  /\ \A e \in Dispatcher : dispatcher[e].task # t
  /\ readyqMutex = NoThread
  /\ readyqMutex' = d
  /\ signalValue' = [signalValue EXCEPT ![t] = @ + 1]
  /\ dispatcher' = [dispatcher EXCEPT ![d] = Control("reserve", t, 1, 0)]
  /\ UNCHANGED <<queueVars, workerSig, worker, places, ran, finalizer,
                 disturbed>>

\* acquireAqlPacket begins, under mutex_readyq_: count the packets.
AcquireAqlPacket(d, t) ==
  /\ At(d, "idle")
  /\ finalizer.at = "none"
  /\ t \in Calls[d]
  /\ places[t] = <<>>
  /\ \A e \in Dispatcher : dispatcher[e].task # t
  /\ readyqMutex = NoThread
  /\ readyqMutex' = d
  /\ signalValue' = [signalValue EXCEPT ![t] = @ + ThreadCount[t]]
  /\ dispatcher' = [dispatcher EXCEPT ![d] = Control("reserve", t, 1, 0)]
  /\ UNCHANGED <<queueVars, workerSig, worker, places, ran, finalizer,
                 disturbed>>

\* Another dispatch with a packet for q is not over.
Overlaps(d, q) ==
  \E e \in Dispatcher \ {d} :
    LET t == dispatcher[e].task IN
    t # NoTask /\ \E i \in 1..ThreadCount[t] : QueueOf(t, i) = q

\* hsa_queue_add_write_index.
ReserveIndex(d) ==
  LET q == CurrentQueue(d) IN
  /\ At(d, "reserve")
  /\ writeIndex' = [writeIndex EXCEPT ![q] = @ + 1]
  /\ Goto(d, "room", writeIndex[q])
  /\ disturbed' = disturbed \cup (IF Overlaps(d, q) THEN {q} ELSE {})
  /\ UNCHANGED <<readIndex, header, completion, doorbell, workerSig, worker, readyqMutex,
                 places, signalValue, ran, finalizer>>

\* Mutants: one slot too many, or slots that are never free again.
OneSlotTooMany(q, index) == index - readIndex[q] <= QueueSize
FirstRoundOnly(q, index) == index < QueueSize

Room(q, index) == index - readIndex[q] < QueueSize

\* The spin on a full queue, with mutex_readyq_ held, and packets_.push_back.
FindRoom(d) ==
  LET c == dispatcher[d]
      q == CurrentQueue(d)
  IN
  /\ At(d, "room")
  /\ Room(q, c.index)
  /\ places' = [places EXCEPT ![c.task] = Append(@, <<q, c.index>>)]
  /\ NextPacket(d, "reserve", "clear")
  /\ readyqMutex' = IF c.next = ThreadCount[c.task] THEN NoThread ELSE d
  /\ UNCHANGED <<queueVars, workerSig, worker, signalValue, ran, finalizer, disturbed>>

\* The place of the packet a dispatcher is at, once it has one.
Place(d) == places[dispatcher[d].task][dispatcher[d].next]
StoreAt(f, d, value) == [f EXCEPT ![Place(d)[1]][Place(d)[2] % QueueSize] = value]
WritingLeavesUnchanged ==
  UNCHANGED <<writeIndex, readIndex, doorbell, workerSig, worker, readyqMutex,
              places, signalValue, ran, finalizer, disturbed>>

\* The memset of the packet, whose header then says VENDOR_SPECIFIC.
ClearPacket(d) ==
  /\ At(d, "clear")
  /\ header' = StoreAt(header, d, Cleared)
  /\ completion' = StoreAt(completion, d, NoTask)
  /\ Goto(d, "fill", dispatcher[d].index)
  /\ WritingLeavesUnchanged

FillPacket(d) ==
  /\ At(d, "fill")
  /\ completion' = StoreAt(completion, d, dispatcher[d].task)
  /\ Goto(d, "header", dispatcher[d].index)
  /\ UNCHANGED header
  /\ WritingLeavesUnchanged

\* packet_store_release of the header.
StoreHeader(d) ==
  /\ At(d, "header")
  /\ header' = StoreAt(header, d, <<dispatcher[d].task, dispatcher[d].next>>)
  /\ NextPacket(d, "clear", "load")
  /\ UNCHANGED completion
  /\ WritingLeavesUnchanged

\* Mutants: the number of packets, or an index too low.
PacketCount(q) == writeIndex[q]
LastButOne(q) == writeIndex[q] - 2

\* "one lesser value"
LastIndex(q) == writeIndex[q] - 1

LoadIndex(d) ==
  /\ At(d, "load")
  /\ Goto(d, "ring", LastIndex(CurrentQueue(d)))
  /\ UNCHANGED <<queueVars, workerSig, worker, readyqMutex, places,
                 signalValue, ran, finalizer, disturbed>>

\* The doorbell is stored, whatever its value was.
RingDoorbell(d) ==
  /\ At(d, "ring")
  /\ doorbell' = [doorbell EXCEPT ![CurrentQueue(d)] = dispatcher[d].index]
  /\ Goto(d, "signal", dispatcher[d].index)
  /\ UNCHANGED <<writeIndex, readIndex, header, completion, workerSig, worker, readyqMutex,
                 places, signalValue, ran, finalizer, disturbed>>

\* Mutant: only the queue of the first packet is rung and signalled.
SignalFirstWorker(d) ==
  /\ At(d, "signal")
  /\ workerSig' = [workerSig EXCEPT ![CurrentQueue(d)] = PROCESS_PKT]
  /\ dispatcher' = [dispatcher EXCEPT ![d] = NoCall]
  /\ UNCHANGED <<queueVars, worker, readyqMutex, places, signalValue, ran, finalizer, disturbed>>

SignalWorker(d) ==
  /\ At(d, "signal")
  /\ workerSig' = [workerSig EXCEPT ![CurrentQueue(d)] = PROCESS_PKT]
  /\ NextPacket(d, "load", "idle")
  /\ UNCHANGED <<queueVars, worker, readyqMutex, places, signalValue, ran, finalizer, disturbed>>

-------------------------------------------------------------------------------
(***************************************************************************)
(* The worker of queue q: agent_worker, and process_packet once woken.     *)
(***************************************************************************)
WorkerGoto(q, label) == worker' = [worker EXCEPT ![q] = label]
WorkerLeavesUnchanged ==
  UNCHANGED <<writeIndex, completion, doorbell, dispatcher, readyqMutex, places,
              finalizer, disturbed>>

WakeUp(q) ==
  /\ worker[q] = "asleep"
  /\ workerSig[q] < IDLE
  /\ WorkerGoto(q, IF workerSig[q] = FINISH THEN "ended" ELSE "awake")
  /\ UNCHANGED <<readIndex, header, workerSig, signalValue, ran>>
  /\ WorkerLeavesUnchanged

\* The compare-and-swap of worker_sig from PROCESS_PKT to IDLE.
AcceptWork(q) ==
  /\ worker[q] = "awake"
  /\ IF workerSig[q] = PROCESS_PKT
     THEN workerSig' = [workerSig EXCEPT ![q] = IDLE] /\ WorkerGoto(q, "waiting")
     ELSE WorkerGoto(q, "asleep") /\ UNCHANGED workerSig
  /\ UNCHANGED <<readIndex, header, signalValue, ran>>
  /\ WorkerLeavesUnchanged

(***************************************************************************)
(* process_packet returns 0 after QueueSize packets; agent_worker then     *)
(* leaves its loop, since sig_value is still PROCESS_PKT, and the thread   *)
(* ends.  The same happens when the doorbell says INT_MAX.                 *)
(***************************************************************************)
LeaveLoop(q) ==
  /\ worker[q] = "waiting"
  /\ \/ readIndex[q] >= QueueSize
     \/ doorbell[q] = IntMax
  /\ WorkerGoto(q, "ended")
  /\ UNCHANGED <<readIndex, header, workerSig, signalValue, ran>>
  /\ WorkerLeavesUnchanged

SeeDoorbell(q) ==
  /\ worker[q] = "waiting"
  /\ readIndex[q] < QueueSize
  /\ doorbell[q] >= readIndex[q]
  /\ doorbell[q] # IntMax
  /\ WorkerGoto(q, "at packet")
  /\ UNCHANGED <<readIndex, header, workerSig, signalValue, ran>>
  /\ WorkerLeavesUnchanged

\* The slot the worker is at.
AtSlot(q) == readIndex[q] % QueueSize
Header(q) == header[q][AtSlot(q)]

\* "wait til the packet is ready to be dispatched": while it is VENDOR_SPECIFIC.
ReadHeader(q) ==
  /\ worker[q] = "at packet"
  /\ Header(q) # Cleared
  /\ WorkerGoto(q, "switch")
  /\ UNCHANGED <<readIndex, header, workerSig, signalValue, ran>>
  /\ WorkerLeavesUnchanged

\* The case of AGENT_DISPATCH.
RunPacket(q) ==
  /\ worker[q] = "switch"
  /\ Header(q) \in Packet
  /\ ran' = ran \cup {Header(q)}
  /\ header' = [header EXCEPT ![q][AtSlot(q)] = Invalid]
  /\ WorkerGoto(q, "signal")
  /\ UNCHANGED <<readIndex, workerSig, signalValue>>
  /\ WorkerLeavesUnchanged

\* No case of the switch is for INVALID or VENDOR_SPECIFIC.
PassOver(q) ==
  /\ worker[q] = "switch"
  /\ Header(q) \notin Packet
  /\ WorkerGoto(q, "signal")
  /\ UNCHANGED <<readIndex, header, workerSig, signalValue, ran>>
  /\ WorkerLeavesUnchanged

\* The completion signal, whatever case was taken, and the next read index.
SignalCompletion(q) ==
  LET t == completion[q][AtSlot(q)] IN
  /\ worker[q] = "signal"
  /\ signalValue' = IF t = NoTask THEN signalValue ELSE [signalValue EXCEPT ![t] = @ - 1]
  /\ readIndex' = [readIndex EXCEPT ![q] = @ + 1]
  /\ WorkerGoto(q, "waiting")
  /\ UNCHANGED <<header, workerSig, ran>>
  /\ WorkerLeavesUnchanged

-------------------------------------------------------------------------------
(***************************************************************************)
(* agent_fini, called once no dispatch is under way and none will follow:  *)
(* for each queue the doorbell, then worker_sig, then pthread_join.        *)
(***************************************************************************)
FinalizerLeavesUnchanged ==
  UNCHANGED <<writeIndex, readIndex, header, completion, worker, dispatcher,
              readyqMutex, places, signalValue, ran, disturbed>>

AgentFini ==
  /\ finalizer.at = "none"
  /\ \A d \in Dispatcher : At(d, "idle")
  /\ finalizer' = [finalizer EXCEPT !.at = "doorbell"]
  /\ UNCHANGED <<doorbell, workerSig>>
  /\ FinalizerLeavesUnchanged

\* Mutant: only worker_sig is told.
StoreNoIntMax ==
  /\ finalizer.at = "doorbell"
  /\ finalizer' = [finalizer EXCEPT !.at = "finish"]
  /\ UNCHANGED <<doorbell, workerSig>>
  /\ FinalizerLeavesUnchanged

StoreIntMax ==
  /\ finalizer.at = "doorbell"
  /\ doorbell' = [doorbell EXCEPT ![finalizer.queue] = IntMax]
  /\ finalizer' = [finalizer EXCEPT !.at = "finish"]
  /\ UNCHANGED workerSig
  /\ FinalizerLeavesUnchanged

StoreFinish ==
  /\ finalizer.at = "finish"
  /\ workerSig' = [workerSig EXCEPT ![finalizer.queue] = FINISH]
  /\ finalizer' = [finalizer EXCEPT !.at = "join"]
  /\ UNCHANGED doorbell
  /\ FinalizerLeavesUnchanged

JoinWorker ==
  /\ finalizer.at = "join"
  /\ worker[finalizer.queue] = "ended"
  /\ finalizer' = IF finalizer.queue < QueueCount
                  THEN [at |-> "doorbell", queue |-> finalizer.queue + 1]
                  ELSE [finalizer EXCEPT !.at = "over"]
  /\ UNCHANGED <<doorbell, workerSig>>
  /\ FinalizerLeavesUnchanged

Over == finalizer.at = "over" /\ UNCHANGED vars

-------------------------------------------------------------------------------
DispatcherStep(d) ==
  \/ ReserveIndex(d)
  \/ FindRoom(d)
  \/ ClearPacket(d)
  \/ FillPacket(d)
  \/ StoreHeader(d)
  \/ LoadIndex(d)
  \/ RingDoorbell(d)
  \/ SignalWorker(d)

WorkerStep(q) ==
  \/ WakeUp(q)
  \/ AcceptWork(q)
  \/ LeaveLoop(q)
  \/ SeeDoorbell(q)
  \/ ReadHeader(q)
  \/ RunPacket(q)
  \/ PassOver(q)
  \/ SignalCompletion(q)

FinalizerStep == StoreIntMax \/ StoreFinish \/ JoinWorker

Next ==
  \/ \E d \in Dispatcher, t \in Task : AcquireAqlPacket(d, t)
  \/ \E d \in Dispatcher : DispatcherStep(d)
  \/ \E q \in Queue : WorkerStep(q)
  \/ AgentFini \/ FinalizerStep \/ Over

(***************************************************************************)
(* Threads that have begun something go on; nobody has to make a call.     *)
(***************************************************************************)
Fairness ==
  /\ \A d \in Dispatcher : WF_vars(DispatcherStep(d))
  /\ \A q \in Queue : WF_vars(WorkerStep(q))
  /\ WF_vars(FinalizerStep)

Spec == Init /\ [][Next]_vars /\ Fairness

-------------------------------------------------------------------------------
(***************************************************************************)
(* Correctness.                                                            *)
(***************************************************************************)
DispatcherLabel == {"idle", "reserve", "room", "clear", "fill", "header", "load",
                    "ring", "signal"}
WorkerLabel == {"asleep", "awake", "waiting", "at packet", "switch", "signal", "ended"}

TypeOK ==
  /\ writeIndex \in [Queue -> Nat]
  /\ readIndex \in [Queue -> Nat]
  /\ header \in [Queue -> [0..QueueSize - 1 -> Packet \cup {Invalid, Cleared}]]
  /\ completion \in [Queue -> [0..QueueSize - 1 -> Task \cup {NoTask}]]
  /\ doorbell \in [Queue -> Nat]
  /\ workerSig \in [Queue -> {PROCESS_PKT, FINISH, IDLE}]
  /\ worker \in [Queue -> WorkerLabel]
  /\ dispatcher \in [Dispatcher -> [at : DispatcherLabel, task : Task \cup {NoTask},
                                    next : Nat \ {0}, index : Int]]
  /\ readyqMutex \in Dispatcher \cup {NoThread}
  /\ places \in [Task -> Seq(Queue \X Nat)]
  /\ signalValue \in [Task -> Int]
  /\ ran \subseteq Packet
  /\ finalizer \in [at : {"none", "doorbell", "finish", "join", "over"}, queue : Queue]
  /\ disturbed \subseteq Queue

HasPlace(t, i) == i \in DOMAIN places[t]

(***************************************************************************)
(* No packet is lost to another: from its header's store to its run it is  *)
(* in its slot, though the ring wraps around.  The spin of acquireAqlPacket*)
(* ensures it as long as no two dispatches overlap on the queue; if they   *)
(* do, an index that was passed over gives its slot away too early.        *)
(***************************************************************************)
Stored(t, i) ==
  /\ HasPlace(t, i)
  /\ \A d \in Dispatcher : dispatcher[d].task = t =>
       \/ dispatcher[d].at \in {"clear", "fill", "header"} /\ i < dispatcher[d].next
       \/ dispatcher[d].at \in {"load", "ring", "signal"}

PacketsKept ==
  \A t \in Task : \A i \in 1..ThreadCount[t] :
    LET q == places[t][i][1]
        index == places[t][i][2]
    IN
    Stored(t, i) /\ q \notin disturbed /\ <<t, i>> \notin ran =>
      header[q][index % QueueSize] = <<t, i>>

(***************************************************************************)
(* The completion signal of a task is zero only once each of its threads   *)
(* has run, and never negative: so long as no two dispatches overlap on    *)
(* its queues, the handler of a CPU task is not called too early.          *)
(***************************************************************************)
CompletedHaveRun ==
  \A t \in Task :
    /\ signalValue[t] >= 0
    /\ /\ Len(places[t]) = ThreadCount[t] /\ signalValue[t] = 0
       /\ \A i \in 1..ThreadCount[t] : places[t][i][1] \notin disturbed
       => PacketsOf(t) \subseteq ran

(***************************************************************************)
(* "wait til the packet is ready to be dispatched" (cputask.cpp:167): the  *)
(* worker goes beyond an index only when its packet has run.               *)
(***************************************************************************)
PassedOver(t, i) ==
  /\ HasPlace(t, i)
  /\ places[t][i][2] < readIndex[places[t][i][1]]
  /\ <<t, i>> \notin ran

NoPacketPassedOver == \A t \in Task : \A i \in 1..ThreadCount[t] : ~PassedOver(t, i)

(***************************************************************************)
(* The same for the queues on which no two dispatches have overlapped.     *)
(***************************************************************************)
UndisturbedNotPassedOver ==
  \A t \in Task : \A i \in 1..ThreadCount[t] :
    PassedOver(t, i) => places[t][i][1] \in disturbed

(***************************************************************************)
(* The states in which a dispatcher spins for ever on a full queue, with   *)
(* mutex_readyq_ held (task.cpp:1218), so that nothing more is dispatched. *)
(* Exhausted: the queue's worker has ended after queue->size packets       *)
(* (cputask.cpp:148), and the queue holds as many again.  Overfull: the    *)
(* slots are the task's own, which are published after all its places are  *)
(* found.  DoorbellBack: overlapping dispatches left a doorbell too low    *)
(* for the packets ahead, and nobody is there to ring it again.            *)
(***************************************************************************)
Spinning(d) ==
  At(d, "room") /\ dispatcher[d].index - readIndex[CurrentQueue(d)] >= QueueSize

\* The indices that the task of d has in queue q so far.
OwnIndices(d, q) ==
  LET t == dispatcher[d].task IN
  {places[t][i][2] : i \in {j \in DOMAIN places[t] : places[t][j][1] = q}}

Exhausted(d) == Spinning(d) /\ worker[CurrentQueue(d)] = "ended"

Overfull(d) ==
  /\ Spinning(d)
  /\ \E index \in OwnIndices(d, CurrentQueue(d)) : dispatcher[d].index - index >= QueueSize

DoorbellBack(d) ==
  LET q == CurrentQueue(d) IN
  /\ Spinning(d)
  /\ q \in disturbed
  /\ worker[q] = "waiting" /\ doorbell[q] < readIndex[q]
  /\ ~Overlaps(d, q)

SpinsForEver(d) == Exhausted(d) \/ Overfull(d) \/ DoorbellBack(d)

(***************************************************************************)
(* The packets that the worker's loop is long enough for, "while           *)
(* (read_index < queue->size)" (cputask.cpp:148), run once dispatched,     *)
(* unless dispatches overlap on their queue, agent_fini is called or their *)
(* dispatch never gets to publish them.                                    *)
(***************************************************************************)
DispatchedRun ==
  \A t \in Task : \A i \in 1..ThreadCount[t] :
    (HasPlace(t, i) /\ places[t][i][2] < QueueSize)
      ~> \/ <<t, i>> \in ran
         \/ HasPlace(t, i) /\ places[t][i][1] \in disturbed
         \/ finalizer.at # "none"
         \/ \E d \in Dispatcher : dispatcher[d].task = t /\ SpinsForEver(d)

(***************************************************************************)
(* A dispatcher that waits for a slot gets it, and returns, although it    *)
(* keeps mutex_readyq_ and the packets in its way are those of other       *)
(* dispatchers, who may not have published them yet; except in the three   *)
(* states above.                                                           *)
(***************************************************************************)
DispatchReturns ==
  \A d \in Dispatcher :
    At(d, "reserve") ~> At(d, "idle") \/ SpinsForEver(d)

(***************************************************************************)
(* agent_fini returns: each worker ends, asleep, waiting or in between.    *)
(***************************************************************************)
FiniReturns == (finalizer.at # "none") ~> (finalizer.at = "over")
===============================================================================

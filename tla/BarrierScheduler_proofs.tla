----------------------- MODULE BarrierScheduler_proofs -----------------------
(***************************************************************************)
(* The scheduler with barrier packets, for every program: the lists, the   *)
(* signals, what is finished when a batch ends, and the dependences that   *)
(* are left to the devices.  The inductive invariant, BarrierInv, is built *)
(* in layers.                                                              *)
(*   BaseInv      the types, the threads, the lists, each dispatched task  *)
(*                in one place, each signal a count of its unfinished      *)
(*                users: true whether or not batches have overlapped.      *)
(*   FlightInv    one batch in flight, and one barrier packet of sinks.    *)
(*   MarkInv      a task not yet marked as dispatched is a sink of its     *)
(*                batch, or waited for, so that its batch cannot end.      *)
(*   PacketInv    one packet in its queue for each unfinished kernel.      *)
(*   CoverInv     each unfinished task of a batch is a sink, or a later    *)
(*                one of the batch cannot finish before it.                *)
(*   ExecutedInv  what handle_signal treats is finished.                   *)
(*   DependencyInv  what a task requires is finished, or still to be seen  *)
(*                by its device.                                           *)
(* CoverInv quantifies over all sequences of tasks, for the provers; TLC   *)
(* can check it over the lists that Listed names.                          *)
(***************************************************************************)
EXTENDS BarrierScheduler, FiniteSetTheorems, SequenceTheorems, TLAPS

-----------------------------------------------------------------------------
Acquired(t) == state[t] >= READY

\* Where an application thread, and the callback thread, may be.
TryLabel ==
  {"peek", "try", "mark", "publish", "fail", "take", "store", "barrier", "register"}
Label ==
  TryLabel \cup {"idle", "push", "gate", "spin", "test", "waiting",
                 "execute", "release", "progress"}

TypeInv ==
  /\ state \in [Task -> UNINITIALIZED..COMPLETED]
  /\ prevOrdered \in [Task -> Task \cup {NoTask}]
  /\ lastTask \in [Group -> Task \cup {NoTask}]
  /\ signalOf \in [Task -> Signal \cup {0}]
  /\ andPreds \in [Task -> SUBSET Task]
  /\ awaited \in [Task -> SUBSET Task]
  /\ freeSignals \in Seq(Signal)
  /\ created \in [Group -> Seq(Task)]
  /\ dispatched \in [Group -> Seq(Task)]
  /\ sinks \in [Group -> SUBSET Task]
  /\ flag \in [Group -> BOOLEAN]
  /\ queue \in [Queue -> Seq(PacketSet)]
  /\ published \subseteq Task
  /\ finished \subseteq published
  /\ signalValue \in [Signal -> Int]
  /\ identity \in Int
  /\ handlers \subseteq Seq(Task) \ {<<>>}
  /\ handling \in Seq(Task)
  /\ overlapped \in BOOLEAN
  /\ thread \in [Thread -> [at : Label,
                            task : Task \cup {NoTask},
                            group : Group \cup {NoGroup},
                            via : {"launch", "activate", "wait", "progress"},
                            batch : [sinks : SUBSET Task, tasks : Seq(Task)]]]

\* A thread that has taken a batch and not yet registered its handler.
Carrying(h) == thread[h].at \in {"store", "barrier", "register"}
BatchOf(h) == thread[h].batch.tasks

ThreadInv ==
  /\ \A h \in Thread :
       /\ thread[h].at # "idle" =>
            thread[h].task \in Task /\ thread[h].group = GroupOf[thread[h].task]
       /\ Carrying(h) =>
            /\ thread[h].batch.sinks # {}
            /\ thread[h].batch.sinks \subseteq Elements(BatchOf(h))
       /\ ~Carrying(h) => thread[h].batch = Nothing
       /\ thread[h].at \in {"push", "gate", "spin", "test", "waiting"} => h \in App
       /\ thread[h].at \in {"execute", "release", "progress"} => h = Callback
  /\ thread[Callback].at # "idle" => thread[Callback].via = "progress"
  /\ thread[Callback].at \in {"execute", "release"} <=> handling # <<>>

\* A task is on its way into the list once, in the thread whose program it is of.
MakingInv ==
  /\ \A a \in App : At(a, "push") =>
       ~Exists(thread[a].task) /\ thread[a].task \in Elements(Program[a])
  /\ \A t \in Task : prevOrdered[t] # NoTask =>
       /\ Ordered(t) /\ GroupOf[prevOrdered[t]] = GroupOf[t]
       /\ Exists(t) \/ \E a \in App : At(a, "push") /\ thread[a].task = t
  /\ \A g \in Group : lastTask[g] # NoTask => GroupOf[lastTask[g]] = g

CreatedInv ==
  /\ CreatedExact
  /\ \A g \in Group : \A i \in DOMAIN created[g] : GroupOf[created[g][i]] = g

\* A thread that has just dispatched a task has it to itself.
TurnInv ==
  /\ \A h \in Thread : thread[h].at \in {"mark", "publish"} =>
       Acquired(thread[h].task) /\ thread[h].task \notin published
  /\ \A h, k \in Thread :
       /\ h # k
       /\ thread[h].at \in {"mark", "publish"}
       /\ thread[k].at \in {"mark", "publish"}
       => thread[h].task # thread[k].task
  /\ \A t \in published : Acquired(t)

Injective(q) == \A i, j \in DOMAIN q : q[i] = q[j] => i = j
Disjoint(q, r) == Elements(q) \cap Elements(r) = {}

\* The tasks of a list are of one group, once each, and have their resources.
GoodList(q) ==
  /\ Injective(q)
  /\ \A i, j \in DOMAIN q : GroupOf[q[i]] = GroupOf[q[j]]

Running(q) == \A i \in DOMAIN q : state[q[i]] \in {READY, DISPATCHED}

\* A task that has its resources is in one place: the list of its group, the
\* batch of a thread, a batch that waits for its handler, or handle_signal.
PlacesInv ==
  /\ \A g \in Group :
       /\ Injective(dispatched[g])
       /\ \A i \in DOMAIN dispatched[g] : GroupOf[dispatched[g][i]] = g
       /\ Running(dispatched[g])
       /\ sinks[g] \subseteq Elements(dispatched[g])
       /\ Disjoint(dispatched[g], handling)
       /\ \A h \in Thread : Disjoint(dispatched[g], BatchOf(h))
       /\ \A b \in handlers : Disjoint(dispatched[g], b)
  /\ \A h \in Thread :
       /\ GoodList(BatchOf(h))
       /\ Running(BatchOf(h))
       /\ Disjoint(BatchOf(h), handling)
       /\ \A k \in Thread : h # k => Disjoint(BatchOf(h), BatchOf(k))
       /\ \A b \in handlers : Disjoint(BatchOf(h), b)
  /\ \A b \in handlers :
       /\ GoodList(b)
       /\ Running(b)
       /\ Disjoint(b, handling)
       /\ \A c \in handlers : b # c => Disjoint(b, c)
  /\ Injective(handling)
  /\ \A i \in DOMAIN handling : state[handling[i]] \in READY..EXECUTED

\* Each signal counts the unfinished tasks that have had it.
Users(s) == {t \in Task : signalOf[t] = s /\ t \notin finished}

SignalInv ==
  /\ \A t \in Task : signalOf[t] # 0 <=> Acquired(t)
  /\ \A s \in Signal : signalValue[s] = Cardinality(Users(s))
  /\ \A t \in Task : ~Acquired(t) => awaited[t] = {}
  /\ \A t \in Task : \A p \in awaited[t] : state[p] >= DISPATCHED

-----------------------------------------------------------------------------
IsSinks(q, i) == i \in DOMAIN queue[q] /\ queue[q][i].type = "sinks"
NoSinksPacket == \A q \in Queue : \A i \in DOMAIN queue[q] : ~IsSinks(q, i)
WaitedFor(t) ==
  \E q \in Queue : \E i \in DOMAIN queue[q] : IsSinks(q, i) /\ t \in queue[q][i].sinks

OneSinksPacket ==
  \A q, r \in Queue : \A i \in DOMAIN queue[q], j \in DOMAIN queue[r] :
    IsSinks(q, i) /\ IsSinks(r, j) => q = r /\ i = j

\* Between the store on IdentityANDSignal and the end of the call that does it.
InSync(h) == thread[h].at \in {"barrier", "register"}

\* One batch at a time: IdentityANDSignal is 1 until its packet passes.
FlightInv ==
  ~overlapped =>
    /\ identity \in {0, 1}
    /\ \A h, k \in Thread : InSync(h) /\ InSync(k) => h = k
    /\ \A h \in Thread : InSync(h) => handlers = {}
    /\ \A b, c \in handlers : b = c
    /\ ~InFlight => NoSinksPacket
    /\ \A h \in Thread : At(h, "barrier") => NoSinksPacket /\ identity = 1
    /\ ~NoSinksPacket => identity = 1
    /\ OneSinksPacket

\* A task that is not yet marked as dispatched keeps its batch from ending.
HeldBack(t) ==
  /\ state[t] = READY
  /\ \A g \in Group : t \in Elements(dispatched[g]) => t \in sinks[g]
  /\ \A k \in Thread : t \in Elements(BatchOf(k)) =>
       IF thread[k].at = "register" THEN WaitedFor(t) ELSE t \in thread[k].batch.sinks
  /\ \A b \in handlers : t \in Elements(b) => WaitedFor(t)
  /\ t \notin Elements(handling)

MarkInv ==
  ~overlapped => \A h \in Thread : At(h, "mark") => HeldBack(thread[h].task)

-----------------------------------------------------------------------------
\* The packets of kernels: one for each that has its resources and is unfinished.
PacketAt(t, q, i) == i \in DOMAIN queue[q] /\ queue[q][i] = TaskPacket(t)

PacketInv ==
  /\ \A t \in Task, q \in Queue : \A i \in DOMAIN queue[q] :
       PacketAt(t, q, i) =>
         /\ q = QueueOf[t] /\ KindOf[t] = "gpu"
         /\ Acquired(t) /\ t \notin finished
         /\ \A j \in DOMAIN queue[q] : PacketAt(t, q, j) => j = i
  /\ \A t \in Task : KindOf[t] = "gpu" /\ Acquired(t) /\ t \notin finished =>
       \E i \in DOMAIN queue[QueueOf[t]] : PacketAt(t, QueueOf[t], i)

\* u cannot finish before t.
Behind(t, u) ==
  /\ KindOf[u] = "gpu" /\ Ordered(u)
  /\ \E i, j \in DOMAIN queue[QueueOf[u]] :
       i < j /\ PacketAt(t, QueueOf[u], i) /\ PacketAt(u, QueueOf[u], j)
Follows(t, u) == t \in awaited[u] \/ Behind(t, u)

\* Each unfinished task of a list is a sink, or one of the list follows it.
Covered(q, S) ==
  \A i \in DOMAIN q :
    q[i] \notin finished /\ ~CopiesAdjacent(GroupOf[q[i]]) =>
      \/ q[i] \in S
      \/ \E j \in DOMAIN q : i < j /\ q[j] \notin finished /\ Follows(q[i], q[j])

Waited == {t \in Task : WaitedFor(t)}

\* The lists of tasks that have their resources, each with its sinks.
Listed(q, S) ==
  \/ \E g \in Group : q = dispatched[g] /\ S = sinks[g]
  \/ \E h \in Thread :
       /\ q = BatchOf(h)
       /\ S = IF thread[h].at = "register" THEN Waited ELSE thread[h].batch.sinks
  \/ q \in handlers /\ S = Waited

CoverInv ==
  \A q \in Seq(Task), S \in SUBSET Task : Listed(q, S) => Covered(q, S)

ExecutedInv ==
  ~overlapped =>
    \A t \in Task :
      t \in Elements(handling) \/ state[t] >= EXECUTED =>
        t \in finished \/ CopiesAdjacent(GroupOf[t])

\* What a task requires, its device has still to see, or is finished.
DependencyInv ==
  ~overlapped =>
    \A t \in Task : Acquired(t) => \A p \in Requires[t] :
      p \in awaited[t] \/ p \in finished \/ CopiesAdjacent(GroupOf[p])

-----------------------------------------------------------------------------
(* Steps of a thread.                                                        *)

\* Everything that holds whether or not batches have overlapped.
BaseInv ==
  /\ TypeInv /\ ThreadInv /\ MakingInv /\ CreatedInv /\ TurnInv /\ PlacesInv /\ SignalInv

LEMMA Constants ==
  /\ Callback \in Thread /\ App \subseteq Thread /\ Callback \notin App
  /\ \A h \in Thread : h \in App \/ h = Callback
  /\ \A t \in Task : GroupOf[t] \in Group /\ QueueOf[t] \in Queue /\ Requires[t] \subseteq Task
  /\ \A t \in Task : KindOf[t] \in {"gpu", "data"}
  /\ NoTask \notin Task /\ NoGroup \notin Group /\ 0 \notin Signal
  BY BarrierAssumption DEF Thread

\* The other threads stay where they are.
Others(h) == \A k \in Thread : k # h => thread'[k] = thread[k]

\* Thread h goes to label with its task and its batch.
Moves(h, label) ==
  /\ thread'[h].at = label
  /\ thread'[h].task = thread[h].task
  /\ thread'[h].group = thread[h].group
  /\ thread'[h].via = thread[h].via
  /\ thread'[h].batch = thread[h].batch
  /\ Others(h)

\* Thread h begins something else at label.
Begins(h, label, t, v) ==
  /\ thread'[h].at = label
  /\ thread'[h].task = t
  /\ thread'[h].group = GroupOf[t]
  /\ thread'[h].via = v
  /\ thread'[h].batch = Nothing
  /\ Others(h)

Rests(h) ==
  /\ thread'[h] = Idle
  /\ Others(h)

ThreadType ==
  thread \in [Thread -> [at : Label,
                         task : Task \cup {NoTask},
                         group : Group \cup {NoGroup},
                         via : {"launch", "activate", "wait", "progress"},
                         batch : [sinks : SUBSET Task, tasks : Seq(Task)]]]

LEMMA GotoMoves ==
  ASSUME ThreadType, NEW h \in Thread, NEW label \in Label, Goto(h, label)
  PROVE  Moves(h, label) /\ ThreadType'
  BY ZenonT(60) DEF ThreadType, Goto, Moves, Others

LEMMA NothingTyped ==
  Nothing \in [sinks : SUBSET Task, tasks : Seq(Task)]
  BY DEF Nothing

LEMMA FrameBegins ==
  ASSUME ThreadType, NEW h \in Thread, NEW label \in Label, NEW t \in Task,
         NEW v \in {"launch", "activate", "wait", "progress"},
         thread' = [thread EXCEPT ![h] = Frame(label, t, GroupOf[t], v)]
  PROVE  Begins(h, label, t, v) /\ ThreadType'
  <1>1. GroupOf[t] \in Group
    BY Constants
  <1>2. Frame(label, t, GroupOf[t], v) \in
          [at : Label, task : Task \cup {NoTask}, group : Group \cup {NoGroup},
           via : {"launch", "activate", "wait", "progress"},
           batch : [sinks : SUBSET Task, tasks : Seq(Task)]]
    BY <1>1, NothingTyped DEF Frame
  <1>3. thread'[h] = Frame(label, t, GroupOf[t], v) /\ Others(h) /\ ThreadType'
    BY <1>2 DEF ThreadType, Others
  <1>4. QED
    BY <1>3 DEF Begins, Frame

LEMMA RestRests ==
  ASSUME ThreadType, NEW h \in Thread, Rest(h)
  PROVE  Rests(h) /\ ThreadType'
  <1>1. Idle \in
          [at : Label, task : Task \cup {NoTask}, group : Group \cup {NoGroup},
           via : {"launch", "activate", "wait", "progress"},
           batch : [sinks : SUBSET Task, tasks : Seq(Task)]]
    BY NothingTyped DEF Idle, Frame, Label
  <1>2. QED
    BY <1>1 DEF ThreadType, Rest, Rests, Others

\* Where an attempt may end.
Ends(h) ==
  \/ Rests(h)
  \/ \E label \in {"waiting", "gate", "peek"} :
       Moves(h, label) /\ (h = Callback => label = "peek")

LEMMA EndTryEnds ==
  ASSUME ThreadType, ThreadInv, NEW h \in Thread, thread[h].at # "idle",
         NEW success \in BOOLEAN, EndTry(h, success)
  PROVE  Ends(h) /\ ThreadType'
  <1>1. h = Callback => thread[h].via = "progress"
    BY DEF ThreadInv
  <1>2. \/ thread[h].via = "wait" /\ Goto(h, "waiting")
        \/ thread[h].via = "activate" /\ Goto(h, "gate")
        \/ thread[h].via = "progress" /\ Goto(h, "peek")
        \/ Rest(h)
    BY DEF EndTry
  <1>3. "waiting" \in Label /\ "gate" \in Label /\ "peek" \in Label
    BY DEF Label, TryLabel
  <1>4. QED
    BY <1>1, <1>2, <1>3, GotoMoves, RestRests DEF Ends

\* The threads in the labels at which they hold something of a task or a batch.
Holding ==
  {"push", "mark", "publish", "store", "barrier", "register", "execute", "release"}

\* A step that only moves a thread, from and to labels at which it holds nothing.
MovesOnly(h) ==
  /\ UNCHANGED <<taskVars, created, dispatched, sinks, deviceVars, batchVars, handling>>
  /\ ThreadType' /\ Others(h)
  /\ flag' \in [Group -> BOOLEAN]
  /\ thread[h].at \notin Holding /\ thread'[h].at \notin Holding
  /\ thread[h].batch = Nothing /\ thread'[h].batch = Nothing
  /\ thread'[h].at # "idle" =>
       thread'[h].task \in Task /\ thread'[h].group = GroupOf[thread'[h].task]
  /\ h = Callback /\ thread'[h].at # "idle" => thread'[h].via = "progress"
  /\ thread'[h].at \in {"push", "gate", "spin", "test", "waiting"} => h \in App
  /\ thread'[h].at \in {"execute", "release", "progress"} => h = Callback
  /\ thread'[h].at = "try" =>
       /\ thread[h].at = "peek"
       /\ LET g == thread[h].group IN
          created[g] # <<>> /\ thread'[h].task = Head(created[g])

LEMMA EndsQuiet ==
  ASSUME BaseInv, NEW h \in Thread, Ends(h), ThreadType', flag' \in [Group -> BOOLEAN],
         thread[h].at \notin Holding, thread[h].at # "idle",
         UNCHANGED <<taskVars, created, dispatched, sinks, deviceVars, batchVars, handling>>
  PROVE  MovesOnly(h)
  <1>1. /\ thread[h].batch = Nothing
        /\ thread[h].task \in Task /\ thread[h].group = GroupOf[thread[h].task]
        /\ h = Callback => thread[h].via = "progress"
    BY DEF BaseInv, ThreadInv, Carrying, Holding
  <1>2. CASE Rests(h)
    BY <1>1, <1>2 DEF MovesOnly, Rests, Idle, Frame, Holding
  <1>3. ASSUME NEW label \in {"waiting", "gate", "peek"}, Moves(h, label),
               h = Callback => label = "peek"
        PROVE  MovesOnly(h)
    BY <1>1, <1>3, Constants DEF MovesOnly, Moves, Holding
  <1>4. QED
    BY <1>2, <1>3 DEF Ends

LEMMA MovesQuiet ==
  ASSUME BaseInv, NEW h \in Thread, NEW label \in Label, Goto(h, label),
         flag' \in [Group -> BOOLEAN],
         thread[h].at \notin Holding, thread[h].at # "idle",
         label \notin Holding \cup {"try"},
         label \in {"gate", "spin", "test", "waiting"} => h \in App,
         label = "progress" => h = Callback,
         UNCHANGED <<taskVars, created, dispatched, sinks, deviceVars, batchVars, handling>>
  PROVE  MovesOnly(h)
  <1>1. /\ thread[h].batch = Nothing
        /\ thread[h].task \in Task /\ thread[h].group = GroupOf[thread[h].task]
        /\ h = Callback => thread[h].via = "progress"
    BY DEF BaseInv, ThreadInv, Carrying, Holding
  <1>2. Moves(h, label) /\ ThreadType'
    BY GotoMoves DEF BaseInv, TypeInv, ThreadType
  <1>3. QED
    BY <1>1, <1>2, Constants DEF MovesOnly, Moves, Holding

Takes(h) == TakeSinks(h) /\ sinks[thread[h].group] # {}
GivesUp(h) == TryWaits(h) \/ TryLacksSignal(h)

LEMMA TryQuiet ==
  ASSUME BaseInv, NEW h \in Thread,
         Peek(h) \/ TryTaken(h) \/ CompareAndSet(h) \/ (TakeSinks(h) /\ ~Takes(h))
  PROVE  MovesOnly(h)
  <1>1. /\ thread[h].at \in {"peek", "try", "fail", "take"}
        /\ thread[h].batch = Nothing
        /\ thread[h].task \in Task /\ thread[h].group = GroupOf[thread[h].task]
        /\ thread[h].group \in Group
        /\ h = Callback => thread[h].via = "progress"
        /\ flag \in [Group -> BOOLEAN]
        /\ ThreadType /\ ThreadInv
    BY Constants
    DEF BaseInv, TypeInv, ThreadInv, ThreadType, Carrying, Peek, TryTaken, CompareAndSet,
        TakeSinks, Takes, At
  <1>2. CASE TryTaken(h)
    <2>1. Goto(h, "fail") /\ flag' = flag
          /\ UNCHANGED <<taskVars, created, dispatched, sinks, deviceVars, batchVars, handling>>
      BY <1>2 DEF TryTaken, GiveUp
    <2>2. QED
      BY <1>1, <2>1, MovesQuiet, Constants DEF Label, TryLabel, Holding
  <1>3. CASE CompareAndSet(h)
    <2>1. /\ Goto(h, "take") \/ EndTry(h, FALSE)
          /\ flag' \in [Group -> BOOLEAN]
          /\ UNCHANGED <<taskVars, created, dispatched, sinks, deviceVars, batchVars, handling>>
      BY <1>1, <1>3 DEF CompareAndSet
    <2>2. CASE Goto(h, "take")
      BY <1>1, <2>1, <2>2, MovesQuiet, Constants DEF Label, TryLabel, Holding
    <2>3. CASE EndTry(h, FALSE)
      BY <1>1, <2>1, <2>3, EndTryEnds, EndsQuiet DEF Holding
    <2>4. QED
      BY <2>1, <2>2, <2>3
  <1>4. CASE TakeSinks(h) /\ ~Takes(h)
    <2>1. /\ EndTry(h, FALSE) /\ flag' = flag
          /\ UNCHANGED <<taskVars, created, dispatched, sinks, deviceVars, batchVars, handling>>
      BY <1>4 DEF TakeSinks, Takes
    <2>2. QED
      BY <1>1, <2>1, EndTryEnds, EndsQuiet DEF Holding
  <1>5. CASE Peek(h)
    <2> DEFINE c == created[thread[h].group]
    <2>1. /\ flag' = flag /\ thread[h].at = "peek"
          /\ UNCHANGED <<taskVars, created, dispatched, sinks, deviceVars, batchVars, handling>>
      BY <1>5 DEF Peek, At, listVars
    <2>2. CASE c = <<>>
      <3>1. Goto(h, "fail")
        BY <1>5, <2>2 DEF Peek, Goto
      <3>2. QED
        BY <1>1, <2>1, <3>1, MovesQuiet, Constants DEF Label, TryLabel, Holding
    <2>3. CASE c # <<>>
      <3>1. Head(c) \in Task /\ GroupOf[Head(c)] = thread[h].group
        <4>1. c \in Seq(Task)
          BY <1>1 DEF BaseInv, TypeInv
        <4>2. Len(c) > 0 /\ Head(c) = c[1] /\ 1 \in DOMAIN c
          BY <2>3, <4>1
        <4>3. QED
          BY <1>1, <4>1, <4>2 DEF BaseInv, CreatedInv
      <3>2. thread' = [thread EXCEPT ![h] = [@ EXCEPT !.at = "try", !.task = Head(c)]]
        BY <1>5, <2>3 DEF Peek
      <3>3. /\ ThreadType' /\ Others(h)
            /\ thread'[h].at = "try" /\ thread'[h].task = Head(c)
            /\ thread'[h].group = thread[h].group /\ thread'[h].via = thread[h].via
            /\ thread'[h].batch = thread[h].batch
        BY <1>1, <3>1, <3>2 DEF ThreadType, Others, Label, TryLabel
      <3>4. QED
        BY <1>1, <2>1, <2>3, <3>1, <3>3, Constants DEF MovesOnly, Holding
    <2>4. QED
      BY <2>2, <2>3
  <1>6. QED
    BY <1>2, <1>3, <1>4, <1>5

LEMMA AppQuiet ==
  ASSUME BaseInv, NEW a \in App,
         \/ \E t \in Task : ActivateTask(a, t) \/ CallWait(a, t)
         \/ Gate(a) \/ Wait(a)
  PROVE  MovesOnly(a)
  <1>1. a \in Thread /\ a # Callback /\ ThreadType /\ flag \in [Group -> BOOLEAN]
    BY Constants DEF BaseInv, TypeInv, ThreadType
  <1>2. ASSUME NEW t \in Task, ActivateTask(a, t) \/ CallWait(a, t)
        PROVE  MovesOnly(a)
    <2>1. /\ thread[a].at = "idle" /\ flag' = flag
          /\ UNCHANGED <<taskVars, created, dispatched, sinks, deviceVars, batchVars, handling>>
          /\ \/ thread' = [thread EXCEPT ![a] = Frame("gate", t, GroupOf[t], "activate")]
             \/ thread' = [thread EXCEPT ![a] = Frame("spin", t, GroupOf[t], "wait")]
      BY <1>2 DEF ActivateTask, CallWait, At, listVars
    <2>2. thread[a].batch = Nothing
      BY <1>1, <2>1 DEF BaseInv, ThreadInv, Carrying
    <2>3. ThreadType' /\ (Begins(a, "gate", t, "activate") \/ Begins(a, "spin", t, "wait"))
      BY <1>1, <2>1, FrameBegins DEF Label
    <2>4. QED
      BY <1>1, <2>1, <2>2, <2>3 DEF MovesOnly, Begins, Holding
  <1>3. CASE Gate(a) \/ SpinUntilDispatched(a) \/ TestFlag(a)
    <2>1. PICK label \in {"fail", "peek", "test", "waiting", "take"} :
            /\ thread[a].at \in {"gate", "spin", "test"}
            /\ Goto(a, label) /\ flag' = flag
            /\ UNCHANGED <<taskVars, created, dispatched, sinks, deviceVars, batchVars,
                           handling>>
      BY <1>3 DEF Gate, SpinUntilDispatched, TestFlag, At, listVars
    <2>2. QED
      BY <1>1, <2>1, MovesQuiet DEF Label, TryLabel, Holding
  <1>4. CASE WaitCompleted(a)
    <2>1. /\ thread[a].at = "waiting" /\ Rest(a) /\ flag' = flag
          /\ UNCHANGED <<taskVars, created, dispatched, sinks, deviceVars, batchVars, handling>>
      BY <1>4 DEF WaitCompleted, At, listVars
    <2>2. QED
      BY <1>1, <2>1, RestRests, EndsQuiet DEF Ends, Holding
  <1>5. QED
    BY <1>2, <1>3, <1>4 DEF Wait

LEMMA ProgressQuiet ==
  ASSUME BaseInv, DoProgress
  PROVE  MovesOnly(Callback)
  <1>1. Callback \in Thread /\ ThreadType /\ flag \in [Group -> BOOLEAN]
    BY Constants DEF BaseInv, TypeInv, ThreadType
  <1>2. /\ thread[Callback].at = "progress"
        /\ Rest(Callback) \/ Goto(Callback, "peek")
        /\ flag' \in [Group -> BOOLEAN]
        /\ UNCHANGED <<taskVars, created, dispatched, sinks, deviceVars, batchVars, handling>>
    BY <1>1 DEF DoProgress, At
  <1>3. CASE Rest(Callback)
    BY <1>1, <1>2, <1>3, RestRests, EndsQuiet DEF Ends, Holding
  <1>4. CASE Goto(Callback, "peek")
    BY <1>1, <1>2, <1>4, MovesQuiet DEF Label, TryLabel, Holding
  <1>5. QED
    BY <1>2, <1>3, <1>4

\* A step of a thread that does more than move it.
Work ==
  \/ \E a \in App : (\E t \in Task : Construct(a, t)) \/ PushCreated(a)
  \/ \E h \in Thread :
       \/ GivesUp(h) \/ TryAcquires(h) \/ MarkDispatched(h) \/ Publish(h)
       \/ Takes(h) \/ StoreIdentity(h) \/ EnqueueBarrier(h) \/ RegisterHandler(h)
  \/ \E b \in handlers : HandleSignal(b)
  \/ MarkExecuted
  \/ ReleaseSignal

LEMMA Steps ==
  ASSUME BaseInv, [Next]_vars
  PROVE  UNCHANGED vars \/ (\E h \in Thread : MovesOnly(h)) \/ Work \/ Device
  <1>1. ASSUME NEW h \in Thread, TryDispatch(h)
        PROVE  MovesOnly(h) \/ Work
    BY <1>1, TryQuiet DEF TryDispatch, Work, GivesUp, Takes
  <1>2. ASSUME NEW a \in App, Call(a) \/ AppStep(a)
        PROVE  MovesOnly(a) \/ Work
    <2>1. CASE TryDispatch(a)
      BY <1>1, <2>1, Constants
    <2>2. CASE (\E t \in Task : Construct(a, t)) \/ PushCreated(a)
      BY <2>2 DEF Work
    <2>3. CASE \/ \E t \in Task : ActivateTask(a, t) \/ CallWait(a, t)
               \/ Gate(a) \/ Wait(a)
      BY <2>3, AppQuiet
    <2>4. QED
      BY <1>2, <2>1, <2>2, <2>3 DEF Call, AppStep
  <1>3. CASE Handler
    BY <1>1, <1>3, Constants, ProgressQuiet DEF Handler, Work
  <1>4. QED
    BY <1>2, <1>3, Constants DEF Next

-----------------------------------------------------------------------------
(* Lists.                                                                    *)

LEMMA AppendedPlace ==
  \A n \in Nat : \A j \in 1..n + 1 : j \in 1..n \/ j = n + 1
  OBVIOUS

LEMMA AppendFacts ==
  ASSUME NEW S, NEW q \in Seq(S), NEW x \in S
  PROVE  /\ Append(q, x) \in Seq(S) /\ Append(q, x) # <<>>
         /\ Len(Append(q, x)) = Len(q) + 1
         /\ DOMAIN q = 1..Len(q) /\ DOMAIN Append(q, x) = 1..Len(q) + 1
         /\ \A i \in DOMAIN q : Append(q, x)[i] = q[i]
         /\ Append(q, x)[Len(q) + 1] = x
         /\ Elements(Append(q, x)) = Elements(q) \cup {x}
  <1>1. /\ Append(q, x) \in Seq(S) /\ Append(q, x) # <<>>
        /\ Len(Append(q, x)) = Len(q) + 1 /\ Len(q) \in Nat
        /\ DOMAIN q = 1..Len(q) /\ DOMAIN Append(q, x) = 1..Len(q) + 1
        /\ \A i \in DOMAIN q : Append(q, x)[i] = q[i]
        /\ Append(q, x)[Len(q) + 1] = x
    OBVIOUS
  <1>2. \A i \in DOMAIN Append(q, x) : i \in DOMAIN q \/ i = Len(q) + 1
    BY <1>1
  <1>3. DOMAIN q \subseteq DOMAIN Append(q, x) /\ Len(q) + 1 \in DOMAIN Append(q, x)
    BY <1>1
  <1>4. QED
    BY <1>1, <1>2, <1>3 DEF Elements

LEMMA TailFacts ==
  ASSUME NEW S, NEW q \in Seq(S), q # <<>>
  PROVE  /\ Tail(q) \in Seq(S) /\ Len(q) \in Nat \ {0} /\ Head(q) = q[1] /\ Head(q) \in S
         /\ DOMAIN q = 1..Len(q) /\ DOMAIN Tail(q) = 1..Len(q) - 1
         /\ \A i \in DOMAIN Tail(q) : i + 1 \in DOMAIN q /\ Tail(q)[i] = q[i + 1]
         /\ 1 \in DOMAIN q
         /\ Elements(q) = {Head(q)} \cup Elements(Tail(q))
         /\ Injective(q) => Injective(Tail(q)) /\ Head(q) \notin Elements(Tail(q))
         /\ Tail(q) = <<>> <=> Len(q) = 1
  <1>1. /\ Tail(q) \in Seq(S) /\ Len(q) \in Nat \ {0} /\ Head(q) = q[1] /\ Head(q) \in S
        /\ DOMAIN q = 1..Len(q) /\ DOMAIN Tail(q) = 1..Len(q) - 1
        /\ Len(Tail(q)) = Len(q) - 1
        /\ \A i \in DOMAIN Tail(q) : i + 1 \in DOMAIN q /\ Tail(q)[i] = q[i + 1]
        /\ 1 \in DOMAIN q
    OBVIOUS
  <1>2. \A i \in DOMAIN q : i = 1 \/ (i - 1 \in DOMAIN Tail(q) /\ Tail(q)[i - 1] = q[i])
    <2> SUFFICES ASSUME NEW i \in 1..Len(q), i # 1
                 PROVE  i - 1 \in DOMAIN Tail(q) /\ Tail(q)[i - 1] = q[i]
      BY <1>1
    <2>1. i - 1 \in 1..Len(q) - 1 /\ (i - 1) + 1 = i
      BY <1>1
    <2>2. QED
      BY <1>1, <2>1
  <1>3. Elements(q) = {Head(q)} \cup Elements(Tail(q))
    <2>1. ASSUME NEW x \in Elements(q) PROVE x \in {Head(q)} \cup Elements(Tail(q))
      <3>1. PICK i \in DOMAIN q : q[i] = x
        BY DEF Elements
      <3>2. CASE i = 1
        BY <1>1, <3>1, <3>2
      <3>3. CASE i - 1 \in DOMAIN Tail(q) /\ Tail(q)[i - 1] = q[i]
        BY <3>1, <3>3 DEF Elements
      <3>4. QED
        BY <1>2, <3>2, <3>3
    <2>2. {Head(q)} \cup Elements(Tail(q)) \subseteq Elements(q)
      BY <1>1 DEF Elements
    <2>3. QED
      BY <2>1, <2>2
  <1>4. ASSUME Injective(q)
        PROVE  Injective(Tail(q)) /\ Head(q) \notin Elements(Tail(q))
    <2>1. \A i \in DOMAIN Tail(q) : i + 1 # 1 /\ i \in Int
      BY <1>1
    <2>2. Head(q) \notin Elements(Tail(q))
      BY <1>1, <1>4, <2>1 DEF Elements, Injective
    <2>3. Injective(Tail(q))
      <3> SUFFICES ASSUME NEW i \in DOMAIN Tail(q), NEW j \in DOMAIN Tail(q),
                          Tail(q)[i] = Tail(q)[j]
                   PROVE  i = j
        BY DEF Injective
      <3>1. i + 1 = j + 1
        BY <1>1, <1>4 DEF Injective
      <3>2. QED
        BY <2>1, <3>1
    <2>4. QED
      BY <2>2, <2>3
  <1>5. Tail(q) = <<>> <=> Len(q) = 1
    <2>1. \A r \in Seq(S) : r = <<>> <=> Len(r) = 0
      OBVIOUS
    <2>2. PICK r \in Seq(S) : r = Tail(q) /\ Len(r) = Len(q) - 1
      BY <1>1
    <2>3. r = <<>> <=> Len(q) = 1
      BY <1>1, <2>1, <2>2
    <2>4. QED
      BY <2>2, <2>3
  <1>6. QED
    BY <1>1, <1>3, <1>4, <1>5

LEMMA InElements ==
  ASSUME NEW S, NEW q \in Seq(S)
  PROVE  /\ Elements(q) \subseteq S
         /\ \A i \in DOMAIN q : q[i] \in Elements(q)
         /\ \A x \in Elements(q) : \E i \in DOMAIN q : q[i] = x
         /\ q = <<>> <=> Elements(q) = {}
         /\ DOMAIN q = 1..Len(q) /\ Len(q) \in Nat
  <1>1. DOMAIN q = 1..Len(q) /\ Len(q) \in Nat /\ \A i \in DOMAIN q : q[i] \in S
    OBVIOUS
  <1>2. q # <<>> => 1 \in DOMAIN q
    BY <1>1
  <1>3. q = <<>> => DOMAIN q = {}
    BY <1>1
  <1>4. QED
    BY <1>1, <1>2, <1>3 DEF Elements

LEMMA EmptyList ==
  /\ Elements(<<>>) = {} /\ DOMAIN <<>> = {}
  /\ \A S : <<>> \in Seq(S)
  BY DEF Elements

\* The batch of a thread that has taken none.
LEMMA NoBatch ==
  ASSUME NEW h, thread[h].batch = Nothing
  PROVE  BatchOf(h) = <<>> /\ Elements(BatchOf(h)) = {} /\ DOMAIN BatchOf(h) = {}
  BY EmptyList DEF BatchOf, Nothing

-----------------------------------------------------------------------------
(* The steps that only move a thread.                                        *)

LEMMA QuietBase ==
  ASSUME BaseInv, NEW h \in Thread, MovesOnly(h)
  PROVE  BaseInv'
  <1>1. /\ UNCHANGED <<taskVars, created, dispatched, sinks, deviceVars, batchVars, handling>>
        /\ ThreadType' /\ flag' \in [Group -> BOOLEAN]
        /\ \A k \in Thread : k # h => thread'[k] = thread[k]
    BY DEF MovesOnly, Others
  <1>2. UNCHANGED <<state, prevOrdered, lastTask, signalOf, andPreds, freeSignals, created,
                    dispatched, sinks, queue, awaited, published, finished, signalValue,
                    identity, handlers, overlapped, handling>>
    BY <1>1 DEF taskVars, deviceVars, batchVars
  <1>3. \A k \in Thread : thread'[k].batch = thread[k].batch
    BY <1>1 DEF MovesOnly
  <1>4. \A k \in Thread, label \in Holding : thread'[k].at = label <=> thread[k].at = label
    BY <1>1 DEF MovesOnly
  <1>5. \A k \in Thread : thread[k].at \in Holding => thread'[k].task = thread[k].task
    BY <1>1 DEF MovesOnly
  <1>6. \A t \in Task : Exists(t)' <=> Exists(t)
    BY <1>2 DEF Exists
  <1>7. TypeInv'
    BY <1>1, <1>2 DEF BaseInv, TypeInv, ThreadType
  <1>8. ThreadInv'
    <2>1. \A k \in Thread : Carrying(k)' <=> Carrying(k)
      BY <1>4 DEF Carrying, Holding
    <2>2. \A k \in Thread :
            /\ thread'[k].at # "idle" =>
                 thread'[k].task \in Task /\ thread'[k].group = GroupOf[thread'[k].task]
            /\ thread'[k].at \in {"push", "gate", "spin", "test", "waiting"} => k \in App
            /\ thread'[k].at \in {"execute", "release", "progress"} => k = Callback
      BY <1>1 DEF MovesOnly, BaseInv, ThreadInv
    <2>3. thread'[Callback].at # "idle" => thread'[Callback].via = "progress"
      BY <1>1, Constants DEF MovesOnly, BaseInv, ThreadInv
    <2>4. thread'[Callback].at \in {"execute", "release"} <=> handling' # <<>>
      BY <1>2, <1>4, Constants DEF BaseInv, ThreadInv, Holding
    <2>5. \A k \in Thread :
            /\ Carrying(k)' => /\ thread'[k].batch.sinks # {}
                               /\ thread'[k].batch.sinks \subseteq Elements(BatchOf(k)')
            /\ ~Carrying(k)' => thread'[k].batch = Nothing
      BY <1>3, <2>1 DEF BaseInv, ThreadInv, BatchOf
    <2>6. QED
      BY <2>2, <2>3, <2>4, <2>5 DEF ThreadInv, Elements
  <1>9. MakingInv'
    <2>1. \A a \in App : At(a, "push")' <=> At(a, "push")
      BY <1>4, Constants DEF At, Holding
    <2>2. \A a \in App : At(a, "push") => thread'[a].task = thread[a].task
      BY <1>5, Constants DEF At, Holding
    <2>3. \A a \in App : At(a, "push") => thread[a].task \in Task
      BY Constants DEF BaseInv, ThreadInv, At
    <2>4. \A a \in App : At(a, "push")' =>
            ~Exists(thread[a].task)' /\ thread'[a].task \in Elements(Program[a])
      BY <1>2, <2>1, <2>2, <2>3 DEF BaseInv, MakingInv, Exists
    <2>5. \A t \in Task : prevOrdered'[t] # NoTask =>
            /\ Ordered(t) /\ GroupOf[prevOrdered'[t]] = GroupOf[t]
            /\ Exists(t)' \/ \E a \in App : At(a, "push")' /\ thread'[a].task = t
      BY <1>2, <1>6, <2>1, <2>2 DEF BaseInv, MakingInv
    <2>6. \A g \in Group : lastTask'[g] # NoTask => GroupOf[lastTask'[g]] = g
      BY <1>2 DEF BaseInv, MakingInv
    <2>7. QED
      BY <2>4, <2>5, <2>6 DEF MakingInv
  <1>10. CreatedInv'
    <2>1. \A k \in Thread :
            LET t == thread'[k].task IN
            At(k, "try")' /\ state'[t] < READY =>
              created'[GroupOf[t]] # <<>> /\ Head(created'[GroupOf[t]]) = t
      <3> SUFFICES ASSUME NEW k \in Thread, thread'[k].at = "try",
                          state'[thread'[k].task] < READY
                   PROVE  LET t == thread'[k].task IN
                          created'[GroupOf[t]] # <<>> /\ Head(created'[GroupOf[t]]) = t
        BY DEF At
      <3>1. CASE k # h
        BY <1>1, <1>2, <3>1 DEF BaseInv, CreatedInv, CreatedExact, At
      <3>2. CASE k = h
        <4> DEFINE g == thread[h].group
        <4>1. created[g] # <<>> /\ thread'[h].task = Head(created[g])
          BY <3>2 DEF MovesOnly
        <4>2. g \in Group
          BY <3>2, Constants DEF MovesOnly, BaseInv, ThreadInv
        <4>3. created[g] \in Seq(Task)
          BY <4>2 DEF BaseInv, TypeInv
        <4>4. Head(created[g]) = created[g][1] /\ 1 \in DOMAIN created[g]
          BY <4>1, <4>3, TailFacts
        <4>5. GroupOf[Head(created[g])] = g
          BY <4>2, <4>4 DEF BaseInv, CreatedInv
        <4>6. QED
          BY <1>2, <3>2, <4>1, <4>5
      <3>3. QED
        BY <3>1, <3>2
    <2>2. QED
      BY <1>2, <2>1 DEF BaseInv, CreatedInv, CreatedExact
  <1>11. TurnInv'
    <2>1. \A k \in Thread : thread'[k].at \in {"mark", "publish"} =>
            thread[k].at \in {"mark", "publish"} /\ thread'[k].task = thread[k].task
      BY <1>4, <1>5 DEF Holding
    <2>2. QED
      BY <1>2, <2>1 DEF BaseInv, TurnInv, Acquired
  <1>12. PlacesInv'
    <2>1. \A k \in Thread : BatchOf(k)' = BatchOf(k)
      BY <1>3 DEF BatchOf
    <2>2. QED
      BY <1>2, <2>1 DEF BaseInv, PlacesInv, Running
  <1>13. SignalInv'
    BY <1>2 DEF BaseInv, SignalInv, Users, Acquired
  <1>14. QED
    BY <1>7, <1>8, <1>9, <1>10, <1>11, <1>12, <1>13 DEF BaseInv

-----------------------------------------------------------------------------
(* What a step must leave alone for each part of the invariant to stay.      *)

LEMMA ThreadKept ==
  ASSUME ThreadInv, NEW h \in Thread, Others(h),
         thread'[h].at # "idle" =>
           thread'[h].task \in Task /\ thread'[h].group = GroupOf[thread'[h].task],
         thread'[h].at \in {"store", "barrier", "register"} =>
           /\ thread'[h].batch.sinks # {}
           /\ thread'[h].batch.sinks \subseteq Elements(thread'[h].batch.tasks),
         thread'[h].at \notin {"store", "barrier", "register"} => thread'[h].batch = Nothing,
         thread'[h].at \in {"push", "gate", "spin", "test", "waiting"} => h \in App,
         thread'[h].at \in {"execute", "release", "progress"} => h = Callback,
         h = Callback /\ thread'[h].at # "idle" => thread'[h].via = "progress",
         thread'[Callback].at \in {"execute", "release"} <=> handling' # <<>>
  PROVE  ThreadInv'
  <1>1. \A k \in Thread :
          /\ thread'[k].at # "idle" =>
               thread'[k].task \in Task /\ thread'[k].group = GroupOf[thread'[k].task]
          /\ thread'[k].at \in {"push", "gate", "spin", "test", "waiting"} => k \in App
          /\ thread'[k].at \in {"execute", "release", "progress"} => k = Callback
    BY DEF ThreadInv, Others
  <1>2. thread'[Callback].at # "idle" => thread'[Callback].via = "progress"
    BY Constants DEF ThreadInv, Others
  <1>3. \A k \in Thread :
          /\ Carrying(k)' => /\ thread'[k].batch.sinks # {}
                             /\ thread'[k].batch.sinks \subseteq Elements(BatchOf(k)')
          /\ ~Carrying(k)' => thread'[k].batch = Nothing
    BY DEF ThreadInv, Others, Carrying, BatchOf
  <1>4. QED
    BY <1>1, <1>2, <1>3 DEF ThreadInv

LEMMA MakingKept ==
  ASSUME ThreadInv, MakingInv,
         UNCHANGED <<prevOrdered, lastTask>>,
         \A t \in Task : Exists(t) <=> Exists(t)',
         \A a \in App : At(a, "push") <=> At(a, "push")',
         \A a \in App : At(a, "push") => thread'[a].task = thread[a].task
  PROVE  MakingInv'
  <1>1. \A a \in App : At(a, "push") => thread[a].task \in Task
    BY Constants DEF ThreadInv, At
  <1>2. \A a \in App : At(a, "push")' =>
          ~Exists(thread[a].task)' /\ thread'[a].task \in Elements(Program[a])
    BY <1>1 DEF MakingInv
  <1>3. \A a \in App : At(a, "push")' =>
          (~Exists(thread[a].task) /\ thread[a].task \in Elements(Program[a]))'
    BY <1>1, <1>2 DEF Exists
  <1>4. \A t \in Task : prevOrdered'[t] # NoTask =>
          /\ Ordered(t) /\ GroupOf[prevOrdered'[t]] = GroupOf[t]
          /\ Exists(t)' \/ \E a \in App : At(a, "push")' /\ thread'[a].task = t
    BY DEF MakingInv
  <1>5. \A g \in Group : lastTask'[g] # NoTask => GroupOf[lastTask'[g]] = g
    BY DEF MakingInv
  <1>6. QED
    BY <1>3, <1>4, <1>5 DEF MakingInv, Ordered

LEMMA CreatedKept ==
  ASSUME ThreadInv, CreatedInv, created' = created,
         \A g \in Group : \A i \in DOMAIN created[g] : state'[created[g][i]] < READY,
         \A t \in Task : state'[t] = INITIALIZED => t \in Elements(created[GroupOf[t]]),
         \A h \in Thread :
           thread'[h].at = "try" => thread[h].at = "try" /\ thread'[h].task = thread[h].task,
         \A h \in Thread :
           thread[h].at = "try" /\ state'[thread[h].task] < READY =>
             state[thread[h].task] < READY
  PROVE  CreatedInv'
  BY DEF CreatedInv, CreatedExact, At

LEMMA TurnKept ==
  ASSUME TypeInv, ThreadInv, TurnInv, published' = published,
         \A h \in Thread :
           thread'[h].at \in {"mark", "publish"} =>
             thread[h].at \in {"mark", "publish"} /\ thread'[h].task = thread[h].task,
         \A t \in Task : Acquired(t) => Acquired(t)'
  PROVE  TurnInv'
  <1>1. ASSUME NEW h \in Thread, thread'[h].at \in {"mark", "publish"}
        PROVE  Acquired(thread[h].task)' /\ thread'[h].task \notin published
    <2>1. PICK t \in Task : /\ t = thread[h].task /\ thread'[h].task = t
                            /\ Acquired(t) /\ t \notin published
      BY <1>1 DEF ThreadInv, TurnInv
    <2>2. Acquired(t)'
      BY <2>1
    <2>3. QED
      BY <2>1, <2>2 DEF Acquired
  <1>2. \A t \in published' : Acquired(t)'
    BY DEF TypeInv, TurnInv
  <1>3. \A h, k \in Thread :
          /\ h # k
          /\ thread'[h].at \in {"mark", "publish"}
          /\ thread'[k].at \in {"mark", "publish"}
          => thread'[h].task # thread'[k].task
    BY DEF TurnInv
  <1>4. QED
    BY <1>1, <1>2, <1>3 DEF TurnInv

LEMMA ListsTyped ==
  ASSUME TypeInv
  PROVE  /\ \A g \in Group : dispatched[g] \in Seq(Task) /\ created[g] \in Seq(Task)
         /\ \A h \in Thread : BatchOf(h) \in Seq(Task)
         /\ \A b \in handlers : b \in Seq(Task) /\ b # <<>>
         /\ handling \in Seq(Task)
  BY DEF TypeInv, BatchOf

LEMMA RunningKept ==
  ASSUME NEW q \in Seq(Task), Running(q),
         \A t \in Task : state[t] \in {READY, DISPATCHED} => state'[t] \in {READY, DISPATCHED}
  PROVE  Running(q)'
  BY DEF Running

LEMMA PlacesKept ==
  ASSUME TypeInv, PlacesInv, UNCHANGED <<dispatched, sinks, handlers, handling>>,
         \A h \in Thread : BatchOf(h)' = BatchOf(h),
         \A t \in Task : state[t] \in {READY, DISPATCHED} => state'[t] \in {READY, DISPATCHED},
         \A t \in Task : state[t] \in READY..EXECUTED => state'[t] \in READY..EXECUTED
  PROVE  PlacesInv'
  <1>1. \A g \in Group : (Running(dispatched[g]))'
    <2> SUFFICES ASSUME NEW g \in Group PROVE Running(dispatched[g])'
      OBVIOUS
    <2>1. dispatched[g] \in Seq(Task) /\ Running(dispatched[g])
      BY ListsTyped DEF PlacesInv
    <2>2. QED
      BY <2>1 DEF Running
  <1>2. \A h \in Thread : (Running(BatchOf(h)))'
    <2> SUFFICES ASSUME NEW h \in Thread PROVE Running(BatchOf(h))'
      OBVIOUS
    <2>1. BatchOf(h) \in Seq(Task) /\ Running(BatchOf(h)) /\ BatchOf(h)' = BatchOf(h)
      BY ListsTyped DEF PlacesInv
    <2>2. QED
      BY <2>1 DEF Running
  <1>3. \A b \in handlers : (Running(b))'
    BY ListsTyped, RunningKept DEF PlacesInv
  <1>4. \A i \in DOMAIN handling : state'[handling[i]] \in READY..EXECUTED
    BY ListsTyped DEF PlacesInv
  <1>5. QED
    BY <1>1, <1>2, <1>3, <1>4 DEF PlacesInv

LEMMA SignalKept ==
  ASSUME TypeInv, SignalInv, UNCHANGED <<signalOf, signalValue, finished>>,
         \A t \in Task : Acquired(t) <=> Acquired(t)',
         \A t \in Task : state[t] >= DISPATCHED => state'[t] >= DISPATCHED,
         \A t \in Task : awaited'[t] \subseteq awaited[t]
  PROVE  SignalInv'
  <1>1. \A t \in Task : awaited[t] \subseteq Task
    BY DEF TypeInv
  <1>2. QED
    BY <1>1 DEF SignalInv, Users

-----------------------------------------------------------------------------
(* Making a task.                                                            *)

LEMMA StateNumbers ==
  ASSUME TypeInv
  PROVE  /\ \A t \in Task : state[t] \in Int /\ (Acquired(t) <=> state[t] >= 1)
         /\ READY = 1 /\ INITIALIZED = 0 /\ UNINITIALIZED = -1 /\ DISPATCHED = 2
         /\ EXECUTED = 3 /\ COMPLETED = 4
  <1>1. /\ READY = 1 /\ INITIALIZED = 0 /\ UNINITIALIZED = -1 /\ DISPATCHED = 2
        /\ EXECUTED = 3 /\ COMPLETED = 4
    BY DEF READY, INITIALIZED, UNINITIALIZED, DISPATCHED, EXECUTED, COMPLETED
  <1>2. \A t \in Task : state[t] \in Int
    <2>1. UNINITIALIZED..COMPLETED \subseteq Int
      BY <1>1
    <2>2. QED
      BY <2>1 DEF TypeInv
  <1>3. QED
    BY <1>1, <1>2 DEF Acquired

LEMMA ConstructBase ==
  ASSUME BaseInv, NEW a \in App, NEW t \in Task, Construct(a, t)
  PROVE  BaseInv'
  <1> DEFINE g == GroupOf[t]
  <1>1. /\ thread[a].at = "idle" /\ ~Exists(t) /\ t \in Elements(Program[a])
        /\ thread' = [thread EXCEPT ![a] = Frame("push", t, g, "launch")]
        /\ UNCHANGED <<state, signalOf, andPreds, freeSignals, listVars, deviceVars,
                       batchVars, handling>>
    BY DEF Construct, NextMade, At, Elements
  <1>2. UNCHANGED <<state, signalOf, andPreds, freeSignals, created, dispatched, sinks, flag,
                    queue, awaited, published, finished, signalValue, identity, handlers,
                    overlapped, handling>>
    BY <1>1 DEF listVars, deviceVars, batchVars
  <1>3. a \in Thread /\ a # Callback /\ g \in Group
    BY Constants
  <1>4. Begins(a, "push", t, "launch") /\ ThreadType'
    BY <1>1, <1>3, FrameBegins DEF BaseInv, TypeInv, ThreadType, Label
  <1>5. \A k \in Thread : k # a => thread'[k] = thread[k]
    BY <1>4 DEF Begins, Others
  <1>6. \/ ~Ordered(t) /\ UNCHANGED <<prevOrdered, lastTask>>
        \/ /\ Ordered(t)
           /\ prevOrdered' = [prevOrdered EXCEPT ![t] = lastTask[g]]
           /\ lastTask' = [lastTask EXCEPT ![g] = t]
    BY DEF Construct
  <1>7. TypeInv'
    <2>1. /\ prevOrdered' \in [Task -> Task \cup {NoTask}]
          /\ lastTask' \in [Group -> Task \cup {NoTask}]
      BY <1>3, <1>6, ZenonT(60) DEF BaseInv, TypeInv
    <2>2. QED
      BY <1>2, <1>4, <2>1 DEF BaseInv, TypeInv, ThreadType
  <1>8. thread[a].batch = Nothing
    BY <1>1, <1>3 DEF BaseInv, ThreadInv, Carrying
  <1>9. ThreadInv'
    <2>1. thread'[Callback].at \in {"execute", "release"} <=> handling' # <<>>
      BY <1>2, <1>3, <1>5, Constants DEF BaseInv, ThreadInv
    <2>2. QED
      BY <1>3, <1>4, <2>1, ThreadKept DEF Begins, BaseInv
  <1>10. MakingInv'
    <2>1. \A u \in Task : Exists(u)' <=> Exists(u)
      BY <1>2 DEF Exists
    <2>2. \A b \in App : At(b, "push")' =>
            (~Exists(thread[b].task) /\ thread[b].task \in Elements(Program[b]))'
      BY <1>1, <1>2, <1>3, <1>4, <1>5, Constants
      DEF Begins, BaseInv, MakingInv, At, Exists
    <2>3. \A u \in Task : prevOrdered'[u] # NoTask =>
            /\ Ordered(u) /\ GroupOf[prevOrdered'[u]] = GroupOf[u]
            /\ Exists(u)' \/ \E b \in App : At(b, "push")' /\ thread'[b].task = u
      <3> SUFFICES ASSUME NEW u \in Task, prevOrdered'[u] # NoTask
                   PROVE  /\ Ordered(u) /\ GroupOf[prevOrdered'[u]] = GroupOf[u]
                          /\ Exists(u)' \/ \E b \in App : At(b, "push")' /\ thread'[b].task = u
        OBVIOUS
      <3>1. CASE u = t /\ Ordered(t)
        <4>1. prevOrdered'[t] = lastTask[g]
          BY <1>6, <3>1 DEF BaseInv, TypeInv
        <4>2. QED
          BY <1>3, <1>4, <3>1, <4>1 DEF Begins, At, BaseInv, MakingInv
      <3>2. CASE ~(u = t /\ Ordered(t))
        <4>1. prevOrdered'[u] = prevOrdered[u]
          BY <1>6, <3>2 DEF BaseInv, TypeInv
        <4>2. \A b \in App : At(b, "push") => b # a /\ At(b, "push")' /\ thread'[b].task = thread[b].task
          BY <1>1, <1>5, Constants DEF At
        <4>3. QED
          BY <2>1, <4>1, <4>2 DEF BaseInv, MakingInv
      <3>3. QED
        BY <3>1, <3>2
    <2>4. \A k \in Group : lastTask'[k] # NoTask => GroupOf[lastTask'[k]] = k
      BY <1>3, <1>6 DEF BaseInv, TypeInv, MakingInv
    <2>5. QED
      BY <2>2, <2>3, <2>4 DEF MakingInv, Ordered
  <1>11. \A k \in Thread : thread'[k].at \in {"try", "mark", "publish"} =>
           thread[k].at = thread'[k].at /\ thread'[k].task = thread[k].task
    BY <1>4, <1>5 DEF Begins
  <1>12. CreatedInv'
    <2>1. ThreadInv /\ CreatedInv
      BY DEF BaseInv
    <2>2. \A k \in Group : \A i \in DOMAIN created[k] : state'[created[k][i]] < READY
      BY <1>2 DEF BaseInv, CreatedInv, CreatedExact
    <2>3. \A u \in Task : state'[u] = INITIALIZED => u \in Elements(created[GroupOf[u]])
      BY <1>2 DEF BaseInv, CreatedInv, CreatedExact
    <2>4. QED
      BY <1>2, <1>11, <2>1, <2>2, <2>3, CreatedKept
  <1>13. TurnInv'
    BY <1>2, <1>11, TurnKept DEF BaseInv, Acquired
  <1>14. PlacesInv'
    <2>1. \A k \in Thread : BatchOf(k)' = BatchOf(k)
      BY <1>4, <1>5, <1>8 DEF Begins, BatchOf
    <2>2. QED
      BY <1>2, <2>1, PlacesKept DEF BaseInv
  <1>15. SignalInv'
    BY <1>2, SignalKept DEF BaseInv, Acquired
  <1>16. QED
    BY <1>7, <1>9, <1>10, <1>12, <1>13, <1>14, <1>15 DEF BaseInv

LEMMA PushCreatedBase ==
  ASSUME BaseInv, NEW a \in App, PushCreated(a)
  PROVE  BaseInv'
  <1> DEFINE t == thread[a].task
             g == GroupOf[t]
  <1>1. /\ thread[a].at = "push"
        /\ created' = [created EXCEPT ![g] = Append(@, t)]
        /\ UNCHANGED <<prevOrdered, lastTask, signalOf, andPreds, freeSignals,
                       dispatched, sinks, flag, deviceVars, batchVars, handling>>
    BY DEF PushCreated, At
  <1>2. UNCHANGED <<prevOrdered, lastTask, signalOf, andPreds, freeSignals, dispatched,
                    sinks, flag, queue, awaited, published, finished, signalValue, identity,
                    handlers, overlapped, handling>>
    BY <1>1 DEF deviceVars, batchVars
  <1>3. /\ a \in Thread /\ a # Callback /\ t \in Task /\ g \in Group
        /\ ~Exists(t) /\ t \in Elements(Program[a])
        /\ thread[a].batch = Nothing /\ thread[a].group = g
    BY <1>1, Constants DEF BaseInv, ThreadInv, Carrying, MakingInv, At
  <1>4. /\ state[t] = UNINITIALIZED /\ t \notin Elements(created[g])
        /\ created[g] \in Seq(Task) /\ created \in [Group -> Seq(Task)]
        /\ state \in [Task -> UNINITIALIZED..COMPLETED]
    BY <1>3 DEF Exists, BaseInv, TypeInv
  <1>5. \/ t \in Created /\ state' = [state EXCEPT ![t] = INITIALIZED] /\ Rest(a)
        \/ t \notin Created /\ state' = state /\ Goto(a, "gate")
    BY DEF PushCreated
  <1>6. /\ ThreadType' /\ Others(a) /\ thread'[a].at \in {"idle", "gate"}
        /\ thread'[a].batch = Nothing
        /\ thread'[a].at # "idle" => thread'[a].task \in Task
                                     /\ thread'[a].group = GroupOf[thread'[a].task]
    <2>1. CASE Rest(a)
      BY <1>3, <2>1, RestRests DEF Rests, Idle, Frame, BaseInv, TypeInv, ThreadType
    <2>2. CASE Goto(a, "gate")
      BY <1>3, <2>2, GotoMoves DEF Moves, Label, BaseInv, TypeInv, ThreadType
    <2>3. QED
      BY <1>5, <2>1, <2>2
  <1>7. \A k \in Thread : k # a => thread'[k] = thread[k]
    BY <1>6 DEF Others
  <1>8. /\ created'[g] = Append(created[g], t) /\ created' \in [Group -> Seq(Task)]
        /\ \A k \in Group : k # g => created'[k] = created[k]
        /\ Elements(created'[g]) = Elements(created[g]) \cup {t}
    BY <1>1, <1>3, <1>4, AppendFacts
  <1>9. /\ \A u \in Task : u # t => state'[u] = state[u]
        /\ state'[t] < READY
        /\ state' \in [Task -> UNINITIALIZED..COMPLETED]
        /\ \A u \in Task : state'[u] < READY <=> state[u] < READY
        /\ \A u \in Task : state[u] >= READY => state'[u] = state[u]
    BY <1>3, <1>4, <1>5 DEF UNINITIALIZED, INITIALIZED, READY, COMPLETED
  <1>10. TypeInv'
    BY <1>2, <1>6, <1>8, <1>9 DEF BaseInv, TypeInv, ThreadType
  <1>11. ThreadInv'
    <2>1. thread'[Callback].at \in {"execute", "release"} <=> handling' # <<>>
      BY <1>2, <1>3, <1>7, Constants DEF BaseInv, ThreadInv
    <2>2. QED
      BY <1>3, <1>6, <2>1, ThreadKept DEF BaseInv
  <1>12. MakingInv'
    <2>1. \A u \in Task : Exists(u)' <=> (Exists(u) \/ u = t)
      <3>1. \A u \in Task : u \in Elements(created'[GroupOf[u]])
                            <=> (u \in Elements(created[GroupOf[u]]) \/ u = t)
        BY <1>8, Constants
      <3>2. QED
        BY <1>4, <1>9, <3>1 DEF Exists
    <2>2. ASSUME NEW b \in App, thread'[b].at = "push"
          PROVE  /\ b # a /\ thread[b].at = "push" /\ thread'[b].task = thread[b].task
                 /\ thread[b].task \in Task /\ thread[b].task # t
      <3>1. b # a /\ b \in Thread
        BY <1>6, <2>2, Constants
      <3>2. /\ thread[b].at = "push" /\ thread'[b].task = thread[b].task
            /\ thread[b].task \in Task /\ thread[b].task \in Elements(Program[b])
        BY <1>7, <2>2, <3>1 DEF BaseInv, ThreadInv, MakingInv, At
      <3>3. \A i \in DOMAIN Program[a], j \in DOMAIN Program[b] : Program[a][i] # Program[b][j]
        BY <3>1, BarrierAssumption
      <3>4. thread[b].task # t
        BY <1>3, <3>2, <3>3 DEF Elements
      <3>5. QED
        BY <3>1, <3>2, <3>4
    <2>3. \A b \in App : At(b, "push")' =>
            (~Exists(thread[b].task) /\ thread[b].task \in Elements(Program[b]))'
      <3> SUFFICES ASSUME NEW b \in App, thread'[b].at = "push"
                   PROVE  (~Exists(thread[b].task) /\ thread[b].task \in Elements(Program[b]))'
        BY DEF At
      <3>1. PICK u \in Task : u = thread[b].task /\ thread'[b].task = u /\ u # t
        BY <2>2
      <3>2. ~Exists(u) /\ u \in Elements(Program[b])
        BY <2>2, <3>1 DEF BaseInv, MakingInv, At
      <3>3. ~Exists(u)'
        BY <2>1, <3>1, <3>2
      <3>4. QED
        BY <3>1, <3>2, <3>3 DEF Exists
    <2>4. \A u \in Task : prevOrdered[u] # NoTask =>
            Exists(u)' \/ \E b \in App : At(b, "push")' /\ thread'[b].task = u
      <3>1. ASSUME NEW u \in Task, NEW b \in App, At(b, "push"), thread[b].task = u
            PROVE  Exists(u)' \/ (At(b, "push")' /\ thread'[b].task = u)
        BY <1>7, <2>1, <3>1, Constants DEF At
      <3>2. QED
        BY <2>1, <3>1 DEF BaseInv, MakingInv
    <2>5. \A u \in Task : prevOrdered'[u] # NoTask =>
            Ordered(u) /\ GroupOf[prevOrdered'[u]] = GroupOf[u]
      BY <1>2 DEF BaseInv, MakingInv
    <2>6. \A k \in Group : lastTask'[k] # NoTask => GroupOf[lastTask'[k]] = k
      BY <1>2 DEF BaseInv, MakingInv
    <2>7. QED
      BY <1>2, <2>3, <2>4, <2>5, <2>6 DEF MakingInv, Ordered
  <1>13. \A k \in Thread : thread'[k].at \in {"try", "mark", "publish"} =>
           thread[k].at = thread'[k].at /\ thread'[k].task = thread[k].task
    BY <1>6, <1>7
  <1>14. CreatedInv'
    <2>1. ASSUME NEW k \in Group, NEW i \in DOMAIN created'[k]
          PROVE  /\ state'[created'[k][i]] < READY
                 /\ GroupOf[created'[k][i]] = k
                 /\ \A j \in DOMAIN created'[k] : created'[k][i] = created'[k][j] => i = j
      <3>1. CASE k # g
        <4>1. created'[k] = created[k] /\ created[k] \in Seq(Task)
          BY <1>4, <1>8, <3>1
        <4>2. created[k][i] \in Task
          BY <2>1, <4>1
        <4>3. QED
          BY <1>9, <2>1, <4>1, <4>2 DEF BaseInv, CreatedInv, CreatedExact
      <3>2. CASE k = g
        <4> PICK c \in Seq(Task) : c = created[g]
          BY <1>4
        <4>0. \A j \in DOMAIN c : c[j] \in Elements(c) /\ c[j] \in Task
          BY InElements
        <4>1. /\ DOMAIN created[g] = 1..Len(created[g]) /\ Len(created[g]) \in Nat
              /\ DOMAIN created'[g] = 1..Len(created[g]) + 1
              /\ \A j \in DOMAIN created[g] : created'[g][j] = created[g][j]
              /\ created'[g][Len(created[g]) + 1] = t
              /\ \A j \in DOMAIN created[g] : created[g][j] \in Task /\ created[g][j] # t
          <5>1. /\ DOMAIN c = 1..Len(c) /\ Len(c) \in Nat
                /\ DOMAIN Append(c, t) = 1..Len(c) + 1
                /\ \A j \in DOMAIN c : Append(c, t)[j] = c[j]
                /\ Append(c, t)[Len(c) + 1] = t
            BY <1>3, AppendFacts, SMTT(30)
          <5>2. created'[g] = Append(c, t) /\ t \notin Elements(c)
            BY <1>4, <1>8
          <5>3. \A j \in DOMAIN c : c[j] # t
            BY <4>0, <5>2
          <5>4. QED
            BY <4>0, <5>1, <5>2, <5>3
        <4>2. \A j \in DOMAIN created'[g] : j \in DOMAIN created[g] \/ j = Len(created[g]) + 1
          BY <4>1, AppendedPlace
        <4>3. CASE i = Len(created[g]) + 1
          BY <1>9, <3>2, <4>1, <4>2, <4>3
        <4>4. CASE i \in DOMAIN created[g]
          <5>1. created'[k][i] = created[g][i] /\ created[g][i] \in Task /\ created[g][i] # t
            BY <3>2, <4>1, <4>4
          <5>2. /\ state[created[g][i]] < READY /\ GroupOf[created[g][i]] = g
                /\ \A j \in DOMAIN created[g] : created[g][i] = created[g][j] => i = j
            BY <1>3, <4>4 DEF BaseInv, CreatedInv, CreatedExact
          <5>3. \A j \in DOMAIN created'[g] : created'[g][i] = created'[g][j] => i = j
            BY <3>2, <4>1, <4>2, <5>1, <5>2
          <5>4. QED
            BY <1>9, <3>2, <5>1, <5>2, <5>3
        <4>5. QED
          BY <2>1, <3>2, <4>2, <4>3, <4>4
      <3>3. QED
        BY <3>1, <3>2
    <2>2. \A u \in Task : state'[u] = INITIALIZED => u \in Elements(created'[GroupOf[u]])
      BY <1>3, <1>8, <1>9, Constants DEF BaseInv, CreatedInv, CreatedExact
    <2>3. ASSUME NEW h \in Thread, thread'[h].at = "try", state'[thread'[h].task] < READY
          PROVE  /\ created'[GroupOf[thread'[h].task]] # <<>>
                 /\ Head(created'[GroupOf[thread'[h].task]]) = thread'[h].task
      <3>1. PICK u \in Task : /\ u = thread[h].task /\ thread'[h].task = u
                              /\ thread[h].at = "try" /\ GroupOf[u] \in Group
        BY <1>13, <2>3, Constants DEF BaseInv, ThreadInv
      <3>2. created[GroupOf[u]] # <<>> /\ Head(created[GroupOf[u]]) = u
        BY <1>9, <2>3, <3>1 DEF BaseInv, CreatedInv, CreatedExact, At
      <3>3. CASE GroupOf[u] # g
        BY <1>8, <3>1, <3>2, <3>3
      <3>4. CASE GroupOf[u] = g
        <4>1. Head(created[g]) = created[g][1] /\ 1 \in DOMAIN created[g]
          BY <1>4, <3>2, <3>4, TailFacts
        <4>2. /\ created'[g] \in Seq(Task) /\ created'[g] # <<>>
              /\ created'[g][1] = created[g][1]
          <5> PICK c \in Seq(Task) : c = created[g]
            BY <1>4
          <5>1. Append(c, t) \in Seq(Task) /\ Append(c, t) # <<>> /\ Append(c, t)[1] = c[1]
            BY <1>3, <4>1, AppendFacts
          <5>2. QED
            BY <1>8, <5>1
        <4>3. Head(created'[g]) = created'[g][1]
          BY <4>2, TailFacts
        <4>4. QED
          BY <3>1, <3>2, <3>4, <4>1, <4>2, <4>3
      <3>5. QED
        BY <3>3, <3>4
    <2>4. QED
      BY <2>1, <2>2, <2>3 DEF CreatedInv, CreatedExact, At
  <1>15. TurnInv'
    <2>1. \A u \in Task : Acquired(u) => Acquired(u)'
      BY <1>9 DEF Acquired
    <2>2. QED
      BY <1>2, <1>13, <2>1, TurnKept DEF BaseInv
  <1>16. PlacesInv'
    <2>1. \A k \in Thread : BatchOf(k)' = BatchOf(k)
      BY <1>3, <1>6, <1>7 DEF BatchOf
    <2>2. \A u \in Task : state[u] \in READY..EXECUTED => state'[u] = state[u]
      BY <1>9 DEF READY, EXECUTED
    <2>3. \A u \in Task : state[u] \in {READY, DISPATCHED} => state'[u] = state[u]
      BY <1>9 DEF READY, DISPATCHED
    <2>4. QED
      BY <1>2, <2>1, <2>2, <2>3, PlacesKept DEF BaseInv
  <1>17. SignalInv'
    <2>1. \A u \in Task : (Acquired(u) <=> Acquired(u)')
                          /\ (state[u] >= DISPATCHED => state'[u] >= DISPATCHED)
      BY <1>4, <1>9 DEF Acquired, READY, DISPATCHED, UNINITIALIZED, COMPLETED
    <2>2. QED
      BY <1>2, <2>1, SignalKept DEF BaseInv
  <1>18. QED
    BY <1>10, <1>11, <1>12, <1>14, <1>15, <1>16, <1>17 DEF BaseInv

-----------------------------------------------------------------------------
(* An attempt, from the front of the list to the doorbell.                   *)

LEMMA HandlingKept ==
  ASSUME ThreadInv, NEW h \in Thread, Others(h), handling' = handling,
         thread[h].at \notin {"execute", "release"},
         thread'[h].at \notin {"execute", "release"}
  PROVE  thread'[Callback].at \in {"execute", "release"} <=> handling' # <<>>
  BY Constants DEF ThreadInv, Others

LEMMA GivesUpBase ==
  ASSUME BaseInv, NEW h \in Thread, GivesUp(h)
  PROVE  BaseInv'
  <1> DEFINE t == thread[h].task
             g == GroupOf[t]
  <1>1. /\ thread[h].at = "try" /\ state[t] < READY
        /\ state' = [state EXCEPT ![t] = INITIALIZED]
        /\ andPreds' = andPreds \/ andPreds' = [andPreds EXCEPT ![t] = {}]
        /\ Goto(h, "fail")
        /\ UNCHANGED <<prevOrdered, lastTask, signalOf, freeSignals, listVars, deviceVars,
                       batchVars, handling>>
    BY DEF GivesUp, TryWaits, TryLacksSignal, At
  <1>2. UNCHANGED <<prevOrdered, lastTask, signalOf, freeSignals, created, dispatched,
                    sinks, flag, queue, awaited, published, finished, signalValue, identity,
                    handlers, overlapped, handling>>
    BY <1>1 DEF listVars, deviceVars, batchVars
  <1>3. /\ t \in Task /\ g \in Group /\ thread[h].batch = Nothing /\ thread[h].group = g
        /\ h = Callback => thread[h].via = "progress"
    BY <1>1, Constants DEF BaseInv, ThreadInv, Carrying
  <1>4. Moves(h, "fail") /\ ThreadType'
    BY <1>1, GotoMoves DEF BaseInv, TypeInv, ThreadType, Label, TryLabel
  <1>5. t \in Elements(created[g])
    <2>1. created[g] # <<>> /\ Head(created[g]) = t
      BY <1>1 DEF BaseInv, CreatedInv, CreatedExact, At
    <2>2. created[g] \in Seq(Task)
      BY <1>3, ListsTyped DEF BaseInv
    <2>3. QED
      BY <2>1, <2>2, TailFacts
  <1>6. /\ state'[t] = INITIALIZED /\ \A u \in Task : u # t => state'[u] = state[u]
        /\ state' \in [Task -> UNINITIALIZED..COMPLETED]
        /\ state[t] \in Int /\ state[t] < 1 /\ state'[t] = 0
    BY <1>1, <1>3, StateNumbers, SMTT(30) DEF BaseInv, TypeInv
  <1>7. \A u \in Task : Acquired(u) <=> Acquired(u)'
    BY <1>6 DEF Acquired, READY
  <1>8. TypeInv'
    <2>1. andPreds' \in [Task -> SUBSET Task]
      BY <1>1 DEF BaseInv, TypeInv
    <2>2. QED
      BY <1>2, <1>4, <1>6, <2>1 DEF BaseInv, TypeInv, ThreadType
  <1>9. ThreadInv'
    BY <1>1, <1>2, <1>3, <1>4, ThreadKept, HandlingKept DEF Moves, BaseInv
  <1>10. \A k \in Thread : thread'[k].at \in {"push", "try", "mark", "publish"} =>
           thread[k].at = thread'[k].at /\ thread'[k].task = thread[k].task /\ k # h
    BY <1>4 DEF Moves, Others
  <1>11. MakingInv'
    <2>1. \A u \in Task : Exists(u) <=> Exists(u)'
      BY <1>2, <1>5, <1>6 DEF Exists
    <2>2. \A a \in App : /\ At(a, "push") <=> At(a, "push")'
                         /\ At(a, "push") => thread'[a].task = thread[a].task
      BY <1>1, <1>4, <1>10, Constants DEF At, Moves, Others
    <2>3. QED
      BY <1>2, <2>1, <2>2, MakingKept DEF BaseInv
  <1>12. CreatedInv'
    <2>1. ASSUME NEW k \in Group, NEW i \in DOMAIN created[k]
          PROVE  state'[created[k][i]] < READY
      <3>1. created[k][i] \in Task /\ state[created[k][i]] < READY
        BY ListsTyped, InElements DEF BaseInv, CreatedInv, CreatedExact
      <3>2. QED
        BY <1>6, <3>1 DEF READY
    <2>2. \A u \in Task : state'[u] = INITIALIZED => u \in Elements(created[GroupOf[u]])
      BY <1>5, <1>6 DEF BaseInv, CreatedInv, CreatedExact
    <2>3. \A k \in Thread : thread[k].at = "try" /\ state'[thread[k].task] < READY =>
            state[thread[k].task] < READY
      <3> SUFFICES ASSUME NEW k \in Thread, thread[k].at = "try"
                   PROVE  state'[thread[k].task] < READY => state[thread[k].task] < READY
        OBVIOUS
      <3>1. thread[k].task \in Task
        BY DEF BaseInv, ThreadInv
      <3>2. QED
        BY <1>1, <1>6, <3>1
    <2>4. QED
      BY <1>2, <1>10, <2>1, <2>2, <2>3, CreatedKept DEF BaseInv
  <1>13. TurnInv'
    BY <1>2, <1>7, <1>10, TurnKept DEF BaseInv
  <1>14. PlacesInv'
    <2>1. \A k \in Thread : BatchOf(k)' = BatchOf(k)
      BY <1>4 DEF BatchOf, Moves, Others
    <2>2. \A u \in Task : state[u] \in READY..EXECUTED => u # t
      BY <1>1, <1>6 DEF READY, EXECUTED
    <2>3. \A u \in Task : state[u] \in {READY, DISPATCHED} => u # t
      BY <1>1, <1>6 DEF READY, DISPATCHED
    <2>4. QED
      BY <1>2, <1>6, <2>1, <2>2, <2>3, PlacesKept DEF BaseInv
  <1>15. SignalInv'
    <2>1. \A u \in Task : state[u] >= DISPATCHED => state'[u] >= DISPATCHED
      BY <1>6 DEF DISPATCHED
    <2>2. QED
      BY <1>2, <1>7, <2>1, SignalKept DEF BaseInv
  <1>16. QED
    BY <1>8, <1>9, <1>11, <1>12, <1>13, <1>14, <1>15 DEF BaseInv

LEMMA MarkDispatchedBase ==
  ASSUME BaseInv, NEW h \in Thread, MarkDispatched(h)
  PROVE  BaseInv'
  <1> DEFINE t == thread[h].task
  <1>1. /\ thread[h].at = "mark"
        /\ state' = [state EXCEPT ![t] = DISPATCHED]
        /\ Goto(h, "publish")
        /\ UNCHANGED <<prevOrdered, lastTask, signalOf, andPreds, freeSignals, listVars,
                       deviceVars, batchVars, handling>>
    BY DEF MarkDispatched, At
  <1>2. UNCHANGED <<prevOrdered, lastTask, signalOf, andPreds, freeSignals, created,
                    dispatched, sinks, flag, queue, awaited, published, finished,
                    signalValue, identity, handlers, overlapped, handling>>
    BY <1>1 DEF listVars, deviceVars, batchVars
  <1>3. /\ t \in Task /\ thread[h].batch = Nothing /\ thread[h].group = GroupOf[t]
        /\ h = Callback => thread[h].via = "progress"
    BY <1>1 DEF BaseInv, ThreadInv, Carrying
  <1>4. Moves(h, "publish") /\ ThreadType'
    BY <1>1, GotoMoves DEF BaseInv, TypeInv, ThreadType, Label, TryLabel
  <1>5. /\ state'[t] = 2 /\ \A u \in Task : u # t => state'[u] = state[u]
        /\ state' \in [Task -> UNINITIALIZED..COMPLETED]
        /\ state[t] >= 1 /\ state[t] \in Int
    <2>1. 2 \in UNINITIALIZED..COMPLETED
      BY DEF UNINITIALIZED, COMPLETED
    <2>2. Acquired(t)
      BY <1>1 DEF BaseInv, TurnInv
    <2>3. QED
      BY <1>1, <1>3, <2>1, <2>2, StateNumbers DEF BaseInv, TypeInv
  <1>6. \A u \in Task : Acquired(u) <=> Acquired(u)'
    BY <1>5 DEF Acquired, READY
  <1>7. TypeInv'
    BY <1>2, <1>4, <1>5 DEF BaseInv, TypeInv, ThreadType
  <1>8. ThreadInv'
    BY <1>1, <1>2, <1>3, <1>4, ThreadKept, HandlingKept DEF Moves, BaseInv
  <1>9. \A k \in Thread : thread'[k].at \in {"push", "try"} =>
          thread[k].at = thread'[k].at /\ thread'[k].task = thread[k].task /\ k # h
    BY <1>4 DEF Moves, Others
  <1>10. MakingInv'
    <2>1. \A u \in Task : Exists(u) <=> Exists(u)'
      BY <1>2, <1>5 DEF Exists, UNINITIALIZED
    <2>2. \A a \in App : /\ At(a, "push") <=> At(a, "push")'
                         /\ At(a, "push") => thread'[a].task = thread[a].task
      BY <1>1, <1>4, <1>9, Constants DEF At, Moves, Others
    <2>3. QED
      BY <1>2, <2>1, <2>2, MakingKept DEF BaseInv
  <1>11. CreatedInv'
    <2>1. ASSUME NEW k \in Group, NEW i \in DOMAIN created[k]
          PROVE  state'[created[k][i]] < READY
      <3>1. created[k][i] \in Task /\ state[created[k][i]] < READY
        BY ListsTyped, InElements DEF BaseInv, CreatedInv, CreatedExact
      <3>2. QED
        BY <1>5, <3>1 DEF READY
    <2>2. \A u \in Task : state'[u] = INITIALIZED => u \in Elements(created[GroupOf[u]])
      BY <1>5 DEF INITIALIZED, BaseInv, CreatedInv, CreatedExact
    <2>3. \A k \in Thread : thread[k].at = "try" /\ state'[thread[k].task] < READY =>
            state[thread[k].task] < READY
      <3> SUFFICES ASSUME NEW k \in Thread, thread[k].at = "try"
                   PROVE  state'[thread[k].task] < READY => state[thread[k].task] < READY
        OBVIOUS
      <3>1. thread[k].task \in Task
        BY DEF BaseInv, ThreadInv
      <3>2. QED
        BY <1>5, <3>1 DEF READY
    <2>4. QED
      BY <1>2, <1>9, <2>1, <2>2, <2>3, CreatedKept DEF BaseInv
  <1>12. TurnInv'
    <2>1. \A k \in Thread : thread'[k].at \in {"mark", "publish"} =>
            thread[k].at \in {"mark", "publish"} /\ thread'[k].task = thread[k].task
      BY <1>1, <1>4 DEF Moves, Others
    <2>2. QED
      BY <1>2, <1>6, <2>1, TurnKept DEF BaseInv
  <1>13. PlacesInv'
    <2>1. \A k \in Thread : BatchOf(k)' = BatchOf(k)
      BY <1>4 DEF BatchOf, Moves, Others
    <2>2. 2 \in READY..EXECUTED /\ 2 \in {READY, DISPATCHED}
      BY DEF READY, DISPATCHED, EXECUTED
    <2>3. \A u \in Task : state'[u] = state[u] \/ state'[u] = 2
      BY <1>5
    <2>4. QED
      BY <1>2, <2>1, <2>2, <2>3, PlacesKept DEF BaseInv
  <1>14. SignalInv'
    <2>1. \A u \in Task : state[u] >= DISPATCHED => state'[u] >= DISPATCHED
      BY <1>5 DEF DISPATCHED
    <2>2. QED
      BY <1>2, <1>6, <2>1, SignalKept DEF BaseInv
  <1>15. QED
    BY <1>7, <1>8, <1>10, <1>11, <1>12, <1>13, <1>14 DEF BaseInv

LEMMA EndsWhere ==
  ASSUME NEW h \in Thread, Ends(h), thread[h].batch = Nothing,
         thread[h].group = GroupOf[thread[h].task]
  PROVE  /\ Others(h)
         /\ thread'[h].at \in {"idle", "waiting", "gate", "peek"}
         /\ thread'[h].batch = Nothing
         /\ thread'[h].at # "idle" =>
              /\ thread'[h].task = thread[h].task
              /\ thread'[h].group = GroupOf[thread[h].task]
              /\ thread'[h].via = thread[h].via
              /\ h = Callback => thread'[h].at = "peek"
  <1>1. CASE Rests(h)
    BY <1>1 DEF Rests, Idle, Frame
  <1>2. ASSUME NEW label \in {"waiting", "gate", "peek"}, Moves(h, label),
               h = Callback => label = "peek"
        PROVE  /\ Others(h)
               /\ thread'[h].at \in {"waiting", "gate", "peek"}
               /\ thread'[h].batch = Nothing
               /\ thread'[h].task = thread[h].task
               /\ thread'[h].group = GroupOf[thread[h].task]
               /\ thread'[h].via = thread[h].via
               /\ h = Callback => thread'[h].at = "peek"
    BY <1>2 DEF Moves
  <1>3. QED
    BY <1>1, <1>2 DEF Ends

LEMMA PublishBase ==
  ASSUME BaseInv, NEW h \in Thread, Publish(h)
  PROVE  BaseInv'
  <1> DEFINE t == thread[h].task
  <1>1. /\ thread[h].at = "publish"
        /\ published' = published \cup {t}
        /\ EndTry(h, TRUE)
        /\ UNCHANGED <<taskVars, listVars, queue, awaited, finished, signalValue, batchVars,
                       handling>>
    BY DEF Publish, At
  <1>2. UNCHANGED <<state, prevOrdered, lastTask, signalOf, andPreds, freeSignals, created,
                    dispatched, sinks, flag, queue, awaited, finished,
                    signalValue, identity, handlers, overlapped, handling>>
    BY <1>1 DEF taskVars, listVars, batchVars
  <1>3. /\ t \in Task /\ thread[h].batch = Nothing /\ thread[h].group = GroupOf[t]
        /\ h = Callback => thread[h].via = "progress"
    BY <1>1 DEF BaseInv, ThreadInv, Carrying
  <1>4. /\ ThreadType' /\ Others(h)
        /\ thread'[h].at \in {"idle", "waiting", "gate", "peek"}
        /\ thread'[h].batch = Nothing
        /\ thread'[h].at # "idle" => /\ thread'[h].task = t /\ thread'[h].group = GroupOf[t]
                                     /\ thread'[h].via = thread[h].via
                                     /\ h = Callback => thread'[h].at = "peek"
    <2>1. Ends(h) /\ ThreadType'
      BY <1>1, EndTryEnds DEF BaseInv, TypeInv, ThreadType
    <2>2. QED
      BY <1>3, <2>1, EndsWhere
  <1>5. \A k \in Thread : k # h => thread'[k] = thread[k]
    BY <1>4 DEF Others
  <1>6. TypeInv'
    BY <1>1, <1>2, <1>3, <1>4 DEF BaseInv, TypeInv, ThreadType
  <1>7. ThreadInv'
    <2>1. thread'[h].at \in {"push", "gate", "spin", "test", "waiting"} => h \in App
      BY <1>4, Constants
    <2>2. QED
      BY <1>1, <1>2, <1>3, <1>4, <2>1, ThreadKept, HandlingKept DEF BaseInv
  <1>8. \A k \in Thread : thread'[k].at \in {"push", "try", "mark", "publish"} =>
          thread[k].at = thread'[k].at /\ thread'[k].task = thread[k].task /\ k # h
    BY <1>4, <1>5
  <1>9. MakingInv'
    <2>1. \A u \in Task : Exists(u) <=> Exists(u)'
      BY <1>2 DEF Exists
    <2>2. \A a \in App : /\ At(a, "push") <=> At(a, "push")'
                         /\ At(a, "push") => thread'[a].task = thread[a].task
      BY <1>1, <1>5, <1>8, Constants DEF At
    <2>3. QED
      BY <1>2, <2>1, <2>2, MakingKept DEF BaseInv
  <1>10. CreatedInv'
    BY <1>2, <1>8, CreatedKept DEF BaseInv, CreatedInv, CreatedExact
  <1>11. TurnInv'
    <2>1. \A u \in Task : Acquired(u) <=> Acquired(u)'
      BY <1>2 DEF Acquired
    <2>2. ASSUME NEW k \in Thread, thread'[k].at \in {"mark", "publish"}
          PROVE  state'[thread'[k].task] >= READY /\ thread'[k].task \notin published'
      BY <1>1, <1>2, <1>8, <2>2 DEF BaseInv, TurnInv, Acquired
    <2>3. \A u \in published' : state'[u] >= READY
      BY <1>1, <1>2 DEF BaseInv, TurnInv, Acquired
    <2>4. \A k, l \in Thread :
            /\ k # l
            /\ thread'[k].at \in {"mark", "publish"} /\ thread'[l].at \in {"mark", "publish"}
            => thread'[k].task # thread'[l].task
      BY <1>8 DEF BaseInv, TurnInv
    <2>5. QED
      BY <2>2, <2>3, <2>4 DEF TurnInv, Acquired
  <1>12. PlacesInv'
    <2>1. \A k \in Thread : BatchOf(k)' = BatchOf(k)
      BY <1>3, <1>4, <1>5 DEF BatchOf
    <2>2. QED
      BY <1>2, <2>1, PlacesKept DEF BaseInv
  <1>13. SignalInv'
    BY <1>2, SignalKept DEF BaseInv, Acquired
  <1>14. QED
    BY <1>6, <1>7, <1>9, <1>10, <1>11, <1>12, <1>13 DEF BaseInv

-----------------------------------------------------------------------------
(* A batch, from the list of its group to its handler.                       *)

LEMMA DisjointFacts ==
  /\ \A q, r : Disjoint(q, r) <=> Disjoint(r, q)
  /\ \A q : Disjoint(<<>>, q) /\ Disjoint(q, <<>>)
  /\ Injective(<<>>) /\ GoodList(<<>>) /\ Running(<<>>)
  BY EmptyList DEF Disjoint, Injective, GoodList, Running

\* A step that leaves the tasks, the lists of created tasks and the turns alone.
LEMMA RestKept ==
  ASSUME BaseInv, NEW h \in Thread, Others(h),
         UNCHANGED <<state, prevOrdered, lastTask, signalOf, created, published, finished,
                     signalValue>>,
         \A t \in Task : awaited'[t] \subseteq awaited[t],
         thread[h].at \notin {"push", "mark", "publish", "try"},
         thread'[h].at \notin {"push", "mark", "publish", "try"}
  PROVE  MakingInv' /\ CreatedInv' /\ TurnInv' /\ SignalInv'
  <1>1. \A k \in Thread :
          /\ thread'[k].at \in {"push", "try", "mark", "publish"} =>
               thread[k].at = thread'[k].at /\ thread'[k].task = thread[k].task /\ k # h
          /\ thread[k].at \in {"push", "try", "mark", "publish"} =>
               thread[k].at = thread'[k].at
    BY DEF Others
  <1>2. MakingInv'
    <2>1. \A u \in Task : Exists(u) <=> Exists(u)'
      BY DEF Exists
    <2>2. \A a \in App : /\ At(a, "push") <=> At(a, "push")'
                         /\ At(a, "push") => thread'[a].task = thread[a].task
      BY <1>1, Constants DEF At
    <2>3. QED
      BY <2>1, <2>2, MakingKept DEF BaseInv
  <1>3. CreatedInv'
    BY <1>1, CreatedKept DEF BaseInv, CreatedInv, CreatedExact
  <1>4. TurnInv'
    BY <1>1, TurnKept DEF BaseInv, Acquired
  <1>5. SignalInv'
    BY SignalKept DEF BaseInv, Acquired
  <1>6. QED
    BY <1>2, <1>3, <1>4, <1>5

LEMMA TakesBase ==
  ASSUME BaseInv, NEW h \in Thread, Takes(h)
  PROVE  BaseInv'
  <1> DEFINE g == thread[h].group
             b == [sinks |-> sinks[g], tasks |-> dispatched[g]]
  <1>1. /\ thread[h].at = "take" /\ sinks[g] # {}
        /\ thread' = [thread EXCEPT ![h] = [@ EXCEPT !.at = "store", !.batch = b]]
        /\ sinks' = [sinks EXCEPT ![g] = {}]
        /\ dispatched' = [dispatched EXCEPT ![g] = <<>>]
        /\ UNCHANGED <<taskVars, created, flag, deviceVars, batchVars, handling>>
    BY DEF Takes, TakeSinks, At
  <1>2. UNCHANGED <<state, prevOrdered, lastTask, signalOf, andPreds, freeSignals, created,
                    flag, queue, awaited, published, finished, signalValue, identity,
                    handlers, overlapped, handling>>
    BY <1>1 DEF taskVars, deviceVars, batchVars
  <1>3. /\ thread[h].task \in Task /\ g = GroupOf[thread[h].task] /\ g \in Group
        /\ thread[h].batch = Nothing
        /\ h = Callback => thread[h].via = "progress"
    BY <1>1, Constants DEF BaseInv, ThreadInv, Carrying
  <1>4. /\ sinks[g] \in SUBSET Task /\ dispatched[g] \in Seq(Task)
        /\ b \in [sinks : SUBSET Task, tasks : Seq(Task)]
    BY <1>3 DEF BaseInv, TypeInv
  <1>5. /\ ThreadType' /\ Others(h) /\ thread'[h].at = "store" /\ thread'[h].batch = b
        /\ thread'[h].task = thread[h].task /\ thread'[h].group = g
        /\ thread'[h].via = thread[h].via
    BY <1>1, <1>4, ZenonT(60) DEF Others, BaseInv, TypeInv, ThreadType, Label, TryLabel
  <1>6. \A k \in Thread : k # h => thread'[k] = thread[k]
    BY <1>5 DEF Others
  <1>7. /\ sinks' \in [Group -> SUBSET Task] /\ dispatched' \in [Group -> Seq(Task)]
        /\ sinks'[g] = {} /\ dispatched'[g] = <<>>
        /\ \A k \in Group : k # g => sinks'[k] = sinks[k] /\ dispatched'[k] = dispatched[k]
    BY <1>1, <1>3, EmptyList DEF BaseInv, TypeInv
  <1>8. TypeInv'
    BY <1>2, <1>5, <1>7 DEF BaseInv, TypeInv, ThreadType
  <1>9. ThreadInv'
    <2>1. sinks[g] \subseteq Elements(dispatched[g])
      BY <1>3 DEF BaseInv, PlacesInv
    <2>2. thread'[h].batch.sinks = sinks[g] /\ thread'[h].batch.tasks = dispatched[g]
      BY <1>5
    <2>3. QED
      BY <1>1, <1>2, <1>3, <1>5, <2>1, <2>2, ThreadKept, HandlingKept DEF BaseInv
  <1>10. MakingInv' /\ CreatedInv' /\ TurnInv' /\ SignalInv'
    BY <1>1, <1>2, <1>5, RestKept
  <1>11. PlacesInv'
    <2>1. BatchOf(h) = <<>>
      BY <1>3, NoBatch
    <2>2. /\ BatchOf(h)' = dispatched[g]
          /\ \A k \in Thread : k # h => BatchOf(k)' = BatchOf(k)
      BY <1>5, <1>6 DEF BatchOf
    <2>3. /\ Injective(dispatched[g]) /\ Running(dispatched[g])
          /\ \A i \in DOMAIN dispatched[g] : GroupOf[dispatched[g][i]] = g
          /\ Disjoint(dispatched[g], handling)
          /\ \A k \in Thread : Disjoint(dispatched[g], BatchOf(k))
          /\ \A c \in handlers : Disjoint(dispatched[g], c)
      BY <1>3 DEF BaseInv, PlacesInv
    <2>4. GoodList(dispatched[g])
      BY <2>3 DEF GoodList
    <2>5. \A k \in Group : k # g => Disjoint(dispatched[k], dispatched[g])
      BY <1>3 DEF BaseInv, PlacesInv, Disjoint, Elements
    <2>6. \A k \in Group :
            /\ Injective(dispatched'[k])
            /\ \A i \in DOMAIN dispatched'[k] : GroupOf[dispatched'[k][i]] = k
            /\ (Running(dispatched[k]))'
            /\ sinks'[k] \subseteq Elements(dispatched'[k])
            /\ Disjoint(dispatched'[k], handling')
            /\ \A l \in Thread : Disjoint(dispatched'[k], BatchOf(l)')
            /\ \A c \in handlers' : Disjoint(dispatched'[k], c)
      <3> SUFFICES ASSUME NEW k \in Group
                   PROVE  /\ Injective(dispatched'[k])
                          /\ \A i \in DOMAIN dispatched'[k] : GroupOf[dispatched'[k][i]] = k
                          /\ (Running(dispatched[k]))'
                          /\ sinks'[k] \subseteq Elements(dispatched'[k])
                          /\ Disjoint(dispatched'[k], handling')
                          /\ \A l \in Thread : Disjoint(dispatched'[k], BatchOf(l)')
                          /\ \A c \in handlers' : Disjoint(dispatched'[k], c)
        OBVIOUS
      <3>1. CASE k = g
        BY <1>7, <3>1, DisjointFacts, EmptyList DEF Running
      <3>2. CASE k # g
        <4>1. dispatched'[k] = dispatched[k] /\ sinks'[k] = sinks[k]
          BY <1>7, <3>2
        <4>2. \A l \in Thread : Disjoint(dispatched'[k], BatchOf(l)')
          <5> SUFFICES ASSUME NEW l \in Thread
                       PROVE  Disjoint(dispatched'[k], BatchOf(l)')
            OBVIOUS
          <5>1. CASE l = h
            BY <2>2, <2>5, <3>2, <4>1, <5>1
          <5>2. CASE l # h
            <6>1. Disjoint(dispatched[k], BatchOf(l))
              BY DEF BaseInv, PlacesInv
            <6>2. BatchOf(l)' = BatchOf(l)
              BY <2>2, <5>2
            <6>3. QED
              BY <4>1, <6>1, <6>2
          <5>3. QED
            BY <5>1, <5>2
        <4>3. (Running(dispatched[k]))'
          BY <1>2, <4>1 DEF BaseInv, PlacesInv, Running
        <4>4. QED
          BY <1>2, <4>1, <4>2, <4>3 DEF BaseInv, PlacesInv
      <3>3. QED
        BY <3>1, <3>2
    <2>7. \A l \in Thread :
            /\ GoodList(BatchOf(l)')
            /\ (Running(BatchOf(l)))'
            /\ Disjoint(BatchOf(l)', handling')
            /\ \A k \in Thread : l # k => Disjoint(BatchOf(l)', BatchOf(k)')
            /\ \A c \in handlers' : Disjoint(BatchOf(l)', c)
      <3>1. \A l \in Thread : (Running(BatchOf(l)))'
        BY <1>2, <2>2, <2>3 DEF Running, BaseInv, PlacesInv
      <3>2. \A l \in Thread : /\ GoodList(BatchOf(l)')
                              /\ Disjoint(BatchOf(l)', handling')
                              /\ \A c \in handlers' : Disjoint(BatchOf(l)', c)
        BY <1>2, <2>2, <2>3, <2>4 DEF BaseInv, PlacesInv
      <3>3. \A l, k \in Thread : l # k => Disjoint(BatchOf(l)', BatchOf(k)')
        BY <2>2, <2>3, DisjointFacts DEF BaseInv, PlacesInv
      <3>4. QED
        BY <3>1, <3>2, <3>3
    <2>8. /\ \A c \in handlers' :
               /\ GoodList(c)
               /\ Running(c)'
               /\ Disjoint(c, handling')
               /\ \A d \in handlers' : c # d => Disjoint(c, d)
          /\ Injective(handling')
          /\ \A i \in DOMAIN handling' : state'[handling'[i]] \in READY..EXECUTED
      BY <1>2 DEF BaseInv, PlacesInv, Running
    <2>9. QED
      BY <2>6, <2>7, <2>8 DEF PlacesInv
  <1>12. QED
    BY <1>8, <1>9, <1>10, <1>11 DEF BaseInv

LEMMA StoreIdentityBase ==
  ASSUME BaseInv, NEW h \in Thread, StoreIdentity(h)
  PROVE  BaseInv'
  <1>1. /\ thread[h].at = "store" /\ Goto(h, "barrier")
        /\ overlapped' = (overlapped \/ InFlight) /\ identity' = 1
        /\ UNCHANGED <<taskVars, listVars, deviceVars, handlers, handling>>
    BY DEF StoreIdentity, At
  <1>2. UNCHANGED <<state, prevOrdered, lastTask, signalOf, andPreds, freeSignals, created,
                    dispatched, sinks, flag, queue, awaited, published, finished,
                    signalValue, handlers, handling>>
    BY <1>1 DEF taskVars, listVars, deviceVars
  <1>3. Moves(h, "barrier") /\ ThreadType'
    BY <1>1, GotoMoves DEF BaseInv, TypeInv, ThreadType, Label, TryLabel
  <1>4. TypeInv'
    BY <1>1, <1>2, <1>3 DEF BaseInv, TypeInv, ThreadType
  <1>5. ThreadInv'
    BY <1>1, <1>2, <1>3, ThreadKept, HandlingKept
    DEF Moves, BaseInv, ThreadInv, Carrying, BatchOf
  <1>6. MakingInv' /\ CreatedInv' /\ TurnInv' /\ SignalInv'
    BY <1>1, <1>2, <1>3, RestKept DEF Moves
  <1>7. PlacesInv'
    <2>1. \A k \in Thread : BatchOf(k)' = BatchOf(k)
      BY <1>3 DEF BatchOf, Moves, Others
    <2>2. QED
      BY <1>2, <2>1, PlacesKept DEF BaseInv
  <1>8. QED
    BY <1>4, <1>5, <1>6, <1>7 DEF BaseInv

LEMMA PacketTypes ==
  /\ \A t \in Task : TaskPacket(t) \in PacketSet /\ DepsPacket(t) \in PacketSet
  /\ \A S \in SUBSET Task : SinksPacket(S) \in PacketSet
  BY DEF PacketSet, TaskPacket, DepsPacket, SinksPacket

LEMMA EnqueueBarrierBase ==
  ASSUME BaseInv, NEW h \in Thread, EnqueueBarrier(h)
  PROVE  BaseInv'
  <1> DEFINE S == thread[h].batch.sinks
  <1>1. /\ thread[h].at = "barrier" /\ Goto(h, "register")
        /\ UNCHANGED <<taskVars, listVars, awaited, published, finished, signalValue,
                       batchVars, handling>>
    BY DEF EnqueueBarrier, At
  <1>2. UNCHANGED <<state, prevOrdered, lastTask, signalOf, andPreds, freeSignals, created,
                    dispatched, sinks, flag, awaited, published, finished,
                    signalValue, identity, handlers, overlapped, handling>>
    BY <1>1 DEF taskVars, listVars, batchVars
  <1>3. Moves(h, "register") /\ ThreadType'
    BY <1>1, GotoMoves DEF BaseInv, TypeInv, ThreadType, Label, TryLabel
  <1>4. TypeInv'
    <2>1. S \in SUBSET Task
      BY DEF BaseInv, TypeInv
    <2>2. PICK t \in S : queue' = [queue EXCEPT ![QueueOf[t]] = Append(@, SinksPacket(S))]
      BY DEF EnqueueBarrier
    <2>3. QueueOf[t] \in Queue
      BY <2>1, Constants
    <2>4. queue \in [Queue -> Seq(PacketSet)] /\ SinksPacket(S) \in PacketSet
      BY <2>1, PacketTypes DEF BaseInv, TypeInv
    <2>5. Append(queue[QueueOf[t]], SinksPacket(S)) \in Seq(PacketSet)
      BY <2>3, <2>4
    <2>6. queue' \in [Queue -> Seq(PacketSet)]
      BY <2>2, <2>4, <2>5
    <2>7. QED
      BY <1>2, <1>3, <2>6 DEF BaseInv, TypeInv, ThreadType
  <1>5. ThreadInv'
    BY <1>1, <1>2, <1>3, ThreadKept, HandlingKept
    DEF Moves, BaseInv, ThreadInv, Carrying, BatchOf
  <1>6. MakingInv' /\ CreatedInv' /\ TurnInv' /\ SignalInv'
    BY <1>1, <1>2, <1>3, RestKept DEF Moves
  <1>7. PlacesInv'
    <2>1. \A k \in Thread : BatchOf(k)' = BatchOf(k)
      BY <1>3 DEF BatchOf, Moves, Others
    <2>2. QED
      BY <1>2, <2>1, PlacesKept DEF BaseInv
  <1>8. QED
    BY <1>4, <1>5, <1>6, <1>7 DEF BaseInv

LEMMA RegisterHandlerBase ==
  ASSUME BaseInv, NEW h \in Thread, RegisterHandler(h)
  PROVE  BaseInv'
  <1> DEFINE b == BatchOf(h)
  <1>1. /\ thread[h].at = "register" /\ handlers' = handlers \cup {b}
        /\ IF thread[h].via = "wait"
           THEN thread' = [thread EXCEPT ![h] = [@ EXCEPT !.at = "waiting", !.batch = Nothing]]
           ELSE Rest(h)
        /\ UNCHANGED <<taskVars, listVars, deviceVars, identity, overlapped, handling>>
    BY DEF RegisterHandler, At, BatchOf
  <1>2. UNCHANGED <<state, prevOrdered, lastTask, signalOf, andPreds, freeSignals, created,
                    dispatched, sinks, flag, queue, awaited, published, finished,
                    signalValue, identity, overlapped, handling>>
    BY <1>1 DEF taskVars, listVars, deviceVars
  <1>3. /\ thread[h].task \in Task /\ thread[h].group = GroupOf[thread[h].task]
        /\ h = Callback => thread[h].via = "progress"
        /\ b \in Seq(Task) /\ b # <<>>
    <2>1. b \in Seq(Task) /\ Elements(b) # {}
      BY <1>1, ListsTyped DEF BaseInv, ThreadInv, Carrying
    <2>2. QED
      BY <1>1, <2>1, EmptyList DEF BaseInv, ThreadInv, Carrying
  <1>4. /\ ThreadType' /\ Others(h) /\ thread'[h].batch = Nothing
        /\ thread'[h].at \in {"idle", "waiting"}
        /\ thread'[h].at # "idle" =>
             /\ h \in App
             /\ thread'[h].task = thread[h].task /\ thread'[h].group = thread[h].group
    <2>1. CASE thread[h].via = "wait"
      <3>1. ThreadType /\ "waiting" \in Label
        BY DEF BaseInv, TypeInv, ThreadType, Label
      <3>2. thread' = [thread EXCEPT ![h] = [@ EXCEPT !.at = "waiting", !.batch = Nothing]]
        BY <1>1, <2>1
      <3>3. /\ ThreadType' /\ Others(h) /\ thread'[h].batch = Nothing
            /\ thread'[h].at = "waiting"
            /\ thread'[h].task = thread[h].task /\ thread'[h].group = thread[h].group
        BY <3>1, <3>2, NothingTyped DEF Others, ThreadType
      <3>4. h \in App
        BY <1>3, <2>1, Constants
      <3>5. QED
        BY <3>3, <3>4
    <2>2. CASE thread[h].via # "wait"
      BY <1>1, <2>2, RestRests DEF Rests, Idle, Frame, BaseInv, TypeInv, ThreadType
    <2>3. QED
      BY <2>1, <2>2
  <1>5. TypeInv'
    BY <1>1, <1>2, <1>3, <1>4 DEF BaseInv, TypeInv, ThreadType
  <1>6. ThreadInv'
    BY <1>1, <1>2, <1>3, <1>4, Constants, ThreadKept, HandlingKept DEF BaseInv
  <1>7. MakingInv' /\ CreatedInv' /\ TurnInv' /\ SignalInv'
    BY <1>1, <1>2, <1>4, RestKept
  <1>8. PlacesInv'
    <2>1. /\ BatchOf(h)' = <<>>
          /\ \A k \in Thread : k # h => BatchOf(k)' = BatchOf(k)
      BY <1>4 DEF BatchOf, Others, Nothing
    <2>2. /\ GoodList(b) /\ Running(b) /\ Disjoint(b, handling)
          /\ \A k \in Thread : k # h => Disjoint(b, BatchOf(k)) /\ Disjoint(BatchOf(k), b)
          /\ \A c \in handlers : Disjoint(b, c) /\ Disjoint(c, b)
      BY DisjointFacts DEF BaseInv, PlacesInv
    <2>3. \A k \in Group :
            /\ Injective(dispatched'[k])
            /\ \A i \in DOMAIN dispatched'[k] : GroupOf[dispatched'[k][i]] = k
            /\ (Running(dispatched[k]))'
            /\ sinks'[k] \subseteq Elements(dispatched'[k])
            /\ Disjoint(dispatched'[k], handling')
            /\ \A l \in Thread : Disjoint(dispatched'[k], BatchOf(l)')
            /\ \A c \in handlers' : Disjoint(dispatched'[k], c)
      BY <1>1, <1>2, <2>1, DisjointFacts DEF BaseInv, PlacesInv, Running
    <2>4. \A l \in Thread :
            /\ GoodList(BatchOf(l)')
            /\ (Running(BatchOf(l)))'
            /\ Disjoint(BatchOf(l)', handling')
            /\ \A k \in Thread : l # k => Disjoint(BatchOf(l)', BatchOf(k)')
            /\ \A c \in handlers' : Disjoint(BatchOf(l)', c)
      <3>1. \A l \in Thread : (Running(BatchOf(l)))'
        BY <1>2, <2>1, EmptyList DEF Running, BaseInv, PlacesInv
      <3>2. QED
        BY <1>1, <1>2, <2>1, <2>2, <3>1, DisjointFacts DEF BaseInv, PlacesInv
    <2>5. \A c \in handlers' :
               /\ GoodList(c)
               /\ Running(c)'
               /\ Disjoint(c, handling')
               /\ \A d \in handlers' : c # d => Disjoint(c, d)
      <3>1. \A c \in handlers' : Running(c)'
        BY <1>1, <1>2, <2>2 DEF Running, BaseInv, PlacesInv
      <3>2. QED
        BY <1>1, <1>2, <2>2, <3>1 DEF BaseInv, PlacesInv
    <2>6. /\ Injective(handling')
          /\ \A i \in DOMAIN handling' : state'[handling'[i]] \in READY..EXECUTED
      BY <1>2 DEF BaseInv, PlacesInv
    <2>7. QED
      BY <2>3, <2>4, <2>5, <2>6 DEF PlacesInv
  <1>9. QED
    BY <1>5, <1>6, <1>7, <1>8 DEF BaseInv

-----------------------------------------------------------------------------
(* handle_signal_barrier_pkt.                                                *)

LEMMA HandleSignalBase ==
  ASSUME BaseInv, NEW b \in handlers, HandleSignal(b)
  PROVE  BaseInv'
  <1> DEFINE h == Callback
             t == b[1]
  <1>1. /\ thread[h].at = "idle" /\ handlers' = handlers \ {b} /\ handling' = b
        /\ thread' = [thread EXCEPT ![h] = Frame("execute", t, GroupOf[t], "progress")]
        /\ UNCHANGED <<taskVars, listVars, deviceVars, identity, overlapped>>
    BY DEF HandleSignal, At
  <1>2. UNCHANGED <<state, prevOrdered, lastTask, signalOf, andPreds, freeSignals, created,
                    dispatched, sinks, flag, queue, awaited, published, finished,
                    signalValue, identity, overlapped>>
    BY <1>1 DEF taskVars, listVars, deviceVars
  <1>3. b \in Seq(Task) /\ b # <<>> /\ t \in Task /\ h \in Thread /\ h \notin App
    <2>1. b \in Seq(Task) /\ b # <<>>
      BY ListsTyped DEF BaseInv
    <2>2. QED
      BY <2>1, Constants, TailFacts
  <1>4. Begins(h, "execute", t, "progress") /\ ThreadType'
    BY <1>1, <1>3, FrameBegins DEF BaseInv, TypeInv, ThreadType, Label
  <1>5. TypeInv'
    BY <1>1, <1>2, <1>3, <1>4 DEF BaseInv, TypeInv, ThreadType
  <1>6. thread[h].batch = Nothing /\ handling = <<>>
    BY <1>1, <1>3 DEF BaseInv, ThreadInv, Carrying
  <1>7. ThreadInv'
    BY <1>1, <1>3, <1>4, ThreadKept DEF Begins, BaseInv
  <1>8. MakingInv' /\ CreatedInv' /\ TurnInv' /\ SignalInv'
    BY <1>1, <1>2, <1>3, <1>4, RestKept DEF Begins
  <1>9. PlacesInv'
    <2>1. \A k \in Thread : BatchOf(k)' = BatchOf(k)
      BY <1>4, <1>6 DEF Begins, Others, BatchOf
    <2>2. /\ Injective(b) /\ Running(b)
          /\ \A c \in handlers' : Disjoint(c, b)
      BY <1>1, DisjointFacts DEF BaseInv, PlacesInv, GoodList
    <2>3. \A i \in DOMAIN b : state[b[i]] \in READY..EXECUTED
      BY <2>2 DEF Running, READY, DISPATCHED, EXECUTED
    <2>4. \A k \in Group :
            /\ Injective(dispatched'[k])
            /\ \A i \in DOMAIN dispatched'[k] : GroupOf[dispatched'[k][i]] = k
            /\ (Running(dispatched[k]))'
            /\ sinks'[k] \subseteq Elements(dispatched'[k])
            /\ Disjoint(dispatched'[k], handling')
            /\ \A l \in Thread : Disjoint(dispatched'[k], BatchOf(l)')
            /\ \A c \in handlers' : Disjoint(dispatched'[k], c)
      BY <1>1, <1>2, <2>1 DEF BaseInv, PlacesInv, Running
    <2>5. \A l \in Thread :
            /\ GoodList(BatchOf(l)')
            /\ (Running(BatchOf(l)))'
            /\ Disjoint(BatchOf(l)', handling')
            /\ \A k \in Thread : l # k => Disjoint(BatchOf(l)', BatchOf(k)')
            /\ \A c \in handlers' : Disjoint(BatchOf(l)', c)
      BY <1>1, <1>2, <2>1 DEF BaseInv, PlacesInv, Running
    <2>6. \A c \in handlers' :
            /\ GoodList(c)
            /\ Running(c)'
            /\ Disjoint(c, handling')
            /\ \A d \in handlers' : c # d => Disjoint(c, d)
      BY <1>1, <1>2, <2>2 DEF BaseInv, PlacesInv, Running
    <2>7. QED
      BY <1>1, <1>2, <2>2, <2>3, <2>4, <2>5, <2>6 DEF PlacesInv
  <1>10. QED
    BY <1>5, <1>7, <1>8, <1>9 DEF BaseInv

\* handle_signal treats the first of its tasks.
LEMMA PlacesOfHandling ==
  ASSUME TypeInv, PlacesInv, UNCHANGED <<dispatched, sinks, handlers>>,
         \A h \in Thread : BatchOf(h)' = BatchOf(h),
         handling # <<>>,
         \A u \in Task : u # Head(handling) => state'[u] = state[u],
         \/ handling' = handling /\ state'[Head(handling)] \in READY..EXECUTED
         \/ handling' = Tail(handling)
  PROVE  PlacesInv'
  <1> DEFINE t == Head(handling)
  <1>1. /\ handling \in Seq(Task) /\ t \in Task /\ t \in Elements(handling)
        /\ Elements(handling) = {t} \cup Elements(Tail(handling))
        /\ Injective(handling) => Injective(Tail(handling))
                                  /\ t \notin Elements(Tail(handling))
        /\ Tail(handling) \in Seq(Task)
    BY ListsTyped, TailFacts
  <1>2. \A q : Disjoint(q, handling) => Disjoint(q, handling') /\ t \notin Elements(q)
    BY <1>1 DEF Disjoint
  <1>3. ASSUME NEW q \in Seq(Task), Running(q), Disjoint(q, handling)
        PROVE  (Running(q))'
    <2>1. \A i \in DOMAIN q : q[i] \in Task /\ q[i] # t
      BY <1>2, <1>3, InElements
    <2>2. QED
      BY <1>3, <2>1 DEF Running
  <1>4. /\ \A g \in Group : (Running(dispatched[g]))' /\ Disjoint(dispatched[g], handling')
        /\ \A h \in Thread : (Running(BatchOf(h)))' /\ Disjoint(BatchOf(h), handling')
        /\ \A b \in handlers : (Running(b))' /\ Disjoint(b, handling')
    <2>1. \A g \in Group : (Running(dispatched[g]))' /\ Disjoint(dispatched[g], handling')
      <3> SUFFICES ASSUME NEW g \in Group
                   PROVE  (Running(dispatched[g]))' /\ Disjoint(dispatched[g], handling')
        OBVIOUS
      <3>1. PICK q \in Seq(Task) : q = dispatched[g]
        BY ListsTyped
      <3>2. Running(q) /\ Disjoint(q, handling)
        BY <3>1 DEF PlacesInv
      <3>3. Running(q)' /\ Disjoint(q, handling')
        BY <1>2, <1>3, <3>2
      <3>4. QED
        BY <3>1, <3>3 DEF Running
    <2>2. \A h \in Thread : (Running(BatchOf(h)))' /\ Disjoint(BatchOf(h), handling')
      <3> SUFFICES ASSUME NEW h \in Thread
                   PROVE  (Running(BatchOf(h)))' /\ Disjoint(BatchOf(h), handling')
        OBVIOUS
      <3>1. PICK q \in Seq(Task) : q = BatchOf(h)
        BY ListsTyped
      <3>2. Running(q) /\ Disjoint(q, handling)
        BY <3>1 DEF PlacesInv
      <3>3. Running(q)' /\ Disjoint(q, handling')
        BY <1>2, <1>3, <3>2
      <3>4. QED
        BY <3>1, <3>3 DEF Running
    <2>3. \A b \in handlers : (Running(b))' /\ Disjoint(b, handling')
      BY <1>2, <1>3, ListsTyped DEF PlacesInv
    <2>4. QED
      BY <2>1, <2>2, <2>3
  <1>5. /\ Injective(handling')
        /\ \A i \in DOMAIN handling' : state'[handling'[i]] \in READY..EXECUTED
    <2>1. /\ Injective(handling)
          /\ \A u \in Elements(handling) : state[u] \in READY..EXECUTED
      BY DEF PlacesInv, Elements
    <2>2. Injective(handling') /\ handling' \in Seq(Task)
      BY <1>1, <2>1
    <2>3. \A u \in Elements(handling') : u \in Task /\ state'[u] \in READY..EXECUTED
      <3>1. Elements(handling) \subseteq Task
        BY <1>1, InElements
      <3>2. QED
        BY <1>1, <2>1, <3>1
    <2>4. QED
      BY <2>2, <2>3, InElements
  <1>6. QED
    BY <1>4, <1>5 DEF PlacesInv

\* What MarkExecuted and ReleaseSignal do to the state of their task.
LEMMA HandledKept ==
  ASSUME BaseInv, NEW t \in Task, t = Head(handling), handling # <<>>,
         NEW s \in {EXECUTED, COMPLETED}, state' = [state EXCEPT ![t] = s],
         UNCHANGED <<prevOrdered, lastTask, signalOf, created, awaited, published, finished,
                     signalValue>>,
         Others(Callback),
         thread[Callback].at \in {"execute", "release"},
         thread'[Callback].at \in {"execute", "release", "progress"}
  PROVE  MakingInv' /\ CreatedInv' /\ TurnInv' /\ SignalInv'
  <1>1. state[t] >= 1 /\ state[t] \in Int
    <2>1. 1 \in DOMAIN handling /\ t = handling[1]
      BY ListsTyped, TailFacts DEF BaseInv
    <2>2. state[t] \in READY..EXECUTED
      BY <2>1 DEF BaseInv, PlacesInv
    <2>3. QED
      BY <2>2 DEF READY, EXECUTED
  <1>2. /\ s \in Int /\ s >= 3 /\ state'[t] = s
        /\ \A u \in Task : u # t => state'[u] = state[u]
    BY DEF EXECUTED, COMPLETED, BaseInv, TypeInv
  <1>3. \A u \in Task : Acquired(u) <=> Acquired(u)'
    BY <1>1, <1>2 DEF Acquired, READY
  <1>4. Callback \in Thread /\ Callback \notin App
    BY Constants
  <1>5. \A k \in Thread :
          /\ thread'[k].at \in {"push", "try", "mark", "publish"} =>
               thread[k].at = thread'[k].at /\ thread'[k].task = thread[k].task
          /\ thread[k].at \in {"push", "try", "mark", "publish"} =>
               thread[k].at = thread'[k].at
    BY DEF Others
  <1>6. MakingInv'
    <2>1. \A u \in Task : Exists(u) <=> Exists(u)'
      BY <1>1, <1>2 DEF Exists, UNINITIALIZED
    <2>2. \A a \in App : /\ At(a, "push") <=> At(a, "push")'
                         /\ At(a, "push") => thread'[a].task = thread[a].task
      BY <1>5, Constants DEF At
    <2>3. QED
      BY <2>1, <2>2, MakingKept DEF BaseInv
  <1>7. CreatedInv'
    <2>1. ASSUME NEW k \in Group, NEW i \in DOMAIN created[k]
          PROVE  state'[created[k][i]] < READY
      <3>1. created[k][i] \in Task /\ state[created[k][i]] < READY
        BY ListsTyped, InElements DEF BaseInv, CreatedInv, CreatedExact
      <3>2. QED
        BY <1>1, <1>2, <3>1 DEF READY
    <2>2. \A u \in Task : state'[u] = INITIALIZED => u \in Elements(created[GroupOf[u]])
      BY <1>2 DEF INITIALIZED, BaseInv, CreatedInv, CreatedExact
    <2>3. \A k \in Thread : thread[k].at = "try" /\ state'[thread[k].task] < READY =>
            state[thread[k].task] < READY
      <3> SUFFICES ASSUME NEW k \in Thread, thread[k].at = "try"
                   PROVE  state'[thread[k].task] < READY => state[thread[k].task] < READY
        OBVIOUS
      <3>1. thread[k].task \in Task
        BY DEF BaseInv, ThreadInv
      <3>2. QED
        BY <1>2, <3>1 DEF READY
    <2>4. QED
      BY <1>5, <2>1, <2>2, <2>3, CreatedKept DEF BaseInv
  <1>8. TurnInv'
    BY <1>3, <1>5, TurnKept DEF BaseInv
  <1>9. SignalInv'
    <2>1. \A u \in Task : state[u] >= DISPATCHED => state'[u] >= DISPATCHED
      BY <1>2 DEF DISPATCHED
    <2>2. QED
      BY <1>3, <2>1, SignalKept DEF BaseInv
  <1>10. QED
    BY <1>6, <1>7, <1>8, <1>9

LEMMA MarkExecutedBase ==
  ASSUME BaseInv, MarkExecuted
  PROVE  BaseInv'
  <1> DEFINE t == Head(handling)
             h == Callback
  <1>1. /\ thread[h].at = "execute" /\ Goto(h, "release")
        /\ state' = [state EXCEPT ![t] = EXECUTED]
        /\ UNCHANGED <<prevOrdered, lastTask, signalOf, andPreds, freeSignals, listVars,
                       deviceVars, batchVars, handling>>
    BY DEF MarkExecuted, At
  <1>2. UNCHANGED <<prevOrdered, lastTask, signalOf, andPreds, freeSignals, created,
                    dispatched, sinks, flag, queue, awaited, published, finished,
                    signalValue, identity, handlers, overlapped, handling>>
    BY <1>1 DEF listVars, deviceVars, batchVars
  <1>3. /\ h \in Thread /\ h \notin App /\ thread[h].batch = Nothing
        /\ thread[h].task \in Task /\ thread[h].group = GroupOf[thread[h].task]
        /\ thread[h].via = "progress" /\ handling # <<>>
    BY <1>1, Constants DEF BaseInv, ThreadInv, Carrying
  <1>4. t \in Task
    BY <1>3, ListsTyped, TailFacts DEF BaseInv
  <1>5. Moves(h, "release") /\ ThreadType'
    BY <1>1, <1>3, GotoMoves DEF BaseInv, TypeInv, ThreadType, Label
  <1>6. /\ state' \in [Task -> UNINITIALIZED..COMPLETED] /\ state'[t] = EXECUTED
        /\ \A u \in Task : u # t => state'[u] = state[u]
        /\ EXECUTED \in READY..EXECUTED
    <2>1. EXECUTED \in UNINITIALIZED..COMPLETED /\ EXECUTED \in READY..EXECUTED
      BY DEF EXECUTED, UNINITIALIZED, COMPLETED, READY
    <2>2. QED
      BY <1>1, <1>4, <2>1 DEF BaseInv, TypeInv
  <1>7. TypeInv'
    BY <1>2, <1>5, <1>6 DEF BaseInv, TypeInv, ThreadType
  <1>8. ThreadInv'
    BY <1>2, <1>3, <1>5, ThreadKept DEF Moves, BaseInv
  <1>9. MakingInv' /\ CreatedInv' /\ TurnInv' /\ SignalInv'
    BY <1>1, <1>2, <1>3, <1>4, <1>5, HandledKept DEF Moves
  <1>10. PlacesInv'
    <2>1. \A k \in Thread : BatchOf(k)' = BatchOf(k)
      BY <1>5 DEF BatchOf, Moves, Others
    <2>2. QED
      BY <1>2, <1>3, <1>6, <2>1, PlacesOfHandling DEF BaseInv
  <1>11. QED
    BY <1>7, <1>8, <1>9, <1>10 DEF BaseInv

LEMMA ReleaseSignalBase ==
  ASSUME BaseInv, ReleaseSignal
  PROVE  BaseInv'
  <1> DEFINE t == Head(handling)
             h == Callback
  <1>1. /\ thread[h].at = "release"
        /\ Goto(h, IF Len(handling) = 1 THEN "progress" ELSE "execute")
        /\ state' = [state EXCEPT ![t] = COMPLETED]
        /\ freeSignals' = Append(freeSignals, signalOf[t])
        /\ handling' = Tail(handling)
        /\ UNCHANGED <<prevOrdered, lastTask, signalOf, andPreds, listVars, deviceVars, batchVars>>
    BY DEF ReleaseSignal, At
  <1>2. UNCHANGED <<prevOrdered, lastTask, signalOf, andPreds, created,
                    dispatched, sinks, flag, queue, awaited, published, finished,
                    signalValue, identity, handlers, overlapped>>
    BY <1>1 DEF listVars, deviceVars, batchVars
  <1>3. /\ h \in Thread /\ h \notin App /\ thread[h].batch = Nothing
        /\ thread[h].task \in Task /\ thread[h].group = GroupOf[thread[h].task]
        /\ thread[h].via = "progress" /\ handling # <<>>
    BY <1>1, Constants DEF BaseInv, ThreadInv, Carrying
  <1>4. /\ t \in Task /\ Tail(handling) \in Seq(Task)
        /\ Tail(handling) = <<>> <=> Len(handling) = 1
        /\ 1 \in DOMAIN handling /\ t = handling[1]
    BY <1>3, ListsTyped, TailFacts DEF BaseInv
  <1>5. PICK label \in {"progress", "execute"} :
          /\ Moves(h, label) /\ ThreadType'
          /\ label = "execute" <=> Tail(handling) # <<>>
    <2>1. PICK label \in {"progress", "execute"} :
            /\ Goto(h, label) /\ label \in Label
            /\ label = "execute" <=> Tail(handling) # <<>>
      BY <1>1, <1>4 DEF Label
    <2>2. QED
      BY <1>3, <2>1, GotoMoves DEF BaseInv, TypeInv, ThreadType
  <1>6. /\ state' \in [Task -> UNINITIALIZED..COMPLETED] /\ state'[t] = COMPLETED
        /\ \A u \in Task : u # t => state'[u] = state[u]
    <2>1. COMPLETED \in UNINITIALIZED..COMPLETED
      BY DEF UNINITIALIZED, COMPLETED
    <2>2. QED
      BY <1>1, <1>4, <2>1 DEF BaseInv, TypeInv
  <1>7. freeSignals' \in Seq(Signal)
    <2>1. state[t] \in READY..EXECUTED
      BY <1>4 DEF BaseInv, PlacesInv
    <2>2. Acquired(t)
      BY <2>1 DEF Acquired, READY, EXECUTED
    <2>3. signalOf[t] \in Signal
      BY <1>4, <2>2 DEF BaseInv, SignalInv, TypeInv
    <2>4. freeSignals \in Seq(Signal)
      BY DEF BaseInv, TypeInv
    <2>5. QED
      BY <1>1, <2>3, <2>4, AppendFacts
  <1>8. TypeInv'
    BY <1>1, <1>2, <1>4, <1>5, <1>6, <1>7 DEF BaseInv, TypeInv, ThreadType
  <1>9. ThreadInv'
    <2>1. thread'[Callback].at \in {"execute", "release"} <=> handling' # <<>>
      BY <1>1, <1>5 DEF Moves
    <2>2. QED
      BY <1>2, <1>3, <1>5, <2>1, ThreadKept DEF Moves, BaseInv
  <1>10. MakingInv' /\ CreatedInv' /\ TurnInv' /\ SignalInv'
    BY <1>1, <1>2, <1>3, <1>4, <1>5, HandledKept DEF Moves
  <1>11. PlacesInv'
    <2>1. \A k \in Thread : BatchOf(k)' = BatchOf(k)
      BY <1>5 DEF BatchOf, Moves, Others
    <2>2. QED
      BY <1>1, <1>2, <1>3, <1>6, <2>1, PlacesOfHandling DEF BaseInv
  <1>12. QED
    BY <1>8, <1>9, <1>10, <1>11 DEF BaseInv

-----------------------------------------------------------------------------
(* A task gets its resources.                                                *)

LEMMA PacketsTyped ==
  ASSUME NEW t \in Task
  PROVE  Packets(t) \in Seq(PacketSet)
  <1>1. TaskPacket(t) \in PacketSet /\ DepsPacket(t) \in PacketSet
    BY PacketTypes
  <1>2. <<>> \in Seq(PacketSet) /\ <<TaskPacket(t)>> \in Seq(PacketSet)
        /\ <<DepsPacket(t), TaskPacket(t)>> \in Seq(PacketSet)
    BY <1>1
  <1>3. QED
    BY <1>2 DEF Packets

\* One more task has the signal.
LEMMA UsersGrow ==
  ASSUME SignalInv, NEW t \in Task, NEW s \in Signal,
         signalOf \in [Task -> Signal \cup {0}], signalValue \in [Signal -> Int],
         signalOf[t] = 0, t \notin finished, finished' = finished,
         signalOf' = [signalOf EXCEPT ![t] = s],
         signalValue' = [signalValue EXCEPT ![s] = @ + 1]
  PROVE  \A r \in Signal : signalValue'[r] = Cardinality(Users(r)')
  <1> SUFFICES ASSUME NEW r \in Signal
               PROVE  signalValue'[r] = Cardinality(Users(r)')
    OBVIOUS
  <1>1. s # 0 /\ r # 0
    BY Constants
  <1>2. signalValue[r] = Cardinality(Users(r))
    BY DEF SignalInv
  <1>3. CASE r = s
    <2>1. Users(r)' = Users(r) \cup {t} /\ t \notin Users(r)
      BY <1>1, <1>3 DEF Users
    <2>2. IsFiniteSet(Users(r))
      BY BarrierAssumption, FS_Subset DEF Users
    <2>3. Cardinality(Users(r) \cup {t}) = Cardinality(Users(r)) + 1
      BY <2>1, <2>2, FS_AddElement
    <2>4. signalValue'[r] = signalValue[r] + 1
      BY <1>3
    <2>5. QED
      BY <1>2, <2>1, <2>3, <2>4
  <1>4. CASE r # s
    <2>1. Users(r)' = Users(r)
      BY <1>1, <1>4 DEF Users
    <2>2. signalValue'[r] = signalValue[r]
      BY <1>4
    <2>3. QED
      BY <1>2, <2>1, <2>2
  <1>5. QED
    BY <1>3, <1>4

\* What the attempt does to its task.
LEMMA AcquiresFacts ==
  ASSUME BaseInv, NEW h \in Thread, TryAcquires(h)
  PROVE  LET t == thread[h].task
             g == GroupOf[t]
             s == Head(freeSignals)
         IN
         /\ t \in Task /\ g \in Group /\ s \in Signal /\ QueueOf[t] \in Queue
         /\ thread[h].at = "try" /\ state[t] \in Int /\ state[t] < 1
         /\ state'[t] = 1 /\ state' \in [Task -> UNINITIALIZED..COMPLETED]
         /\ \A u \in Task : u # t => state'[u] = state[u]
         /\ created[g] # <<>> /\ Head(created[g]) = t /\ created[g] \in Seq(Task)
         /\ created' \in [Group -> Seq(Task)] /\ created'[g] = Tail(created[g])
         /\ \A k \in Group : k # g => created'[k] = created[k]
         /\ dispatched[g] \in Seq(Task)
         /\ dispatched' \in [Group -> Seq(Task)]
         /\ dispatched'[g] = Append(dispatched[g], t)
         /\ \A k \in Group : k # g => dispatched'[k] = dispatched[k]
         /\ sinks' \in [Group -> SUBSET Task] /\ sinks'[g] = SinksWith(t)
         /\ \A k \in Group : k # g => sinks'[k] = sinks[k]
         /\ freeSignals' \in Seq(Signal) /\ freeSignals # <<>> /\ freeSignals \in Seq(Signal)
         /\ freeSignals' = Tail(freeSignals)
         /\ signalOf' = [signalOf EXCEPT ![t] = s]
         /\ signalOf' \in [Task -> Signal \cup {0}] /\ signalOf'[t] = s
         /\ \A u \in Task : u # t => signalOf'[u] = signalOf[u]
         /\ signalValue' = [signalValue EXCEPT ![s] = @ + 1]
         /\ signalValue' \in [Signal -> Int]
         /\ AndPredecessors(t) \in SUBSET Task
         /\ andPreds' \in [Task -> SUBSET Task]
         /\ awaited' \in [Task -> SUBSET Task] /\ awaited'[t] = AndPredecessors(t)
         /\ \A u \in Task : u # t => awaited'[u] = awaited[u]
         /\ queue' \in [Queue -> Seq(PacketSet)]
         /\ queue'[QueueOf[t]] = queue[QueueOf[t]] \o Packets(t)
         /\ \A q \in Queue : q # QueueOf[t] => queue'[q] = queue[q]
         /\ UNCHANGED <<prevOrdered, lastTask, flag, published, finished, identity,
                        handlers, overlapped, handling>>
         /\ Moves(h, "mark") /\ ThreadType'
         /\ thread[h].batch = Nothing /\ thread[h].group = g
         /\ h = Callback => thread[h].via = "progress"
         /\ ~Undispatched(t) /\ ~Acquired(t)
  <1> DEFINE t == thread[h].task
             g == GroupOf[t]
             s == Head(freeSignals)
  <1>1. /\ thread[h].at = "try" /\ state[t] < READY /\ freeSignals # <<>> /\ ~Undispatched(t)
        /\ freeSignals' = Tail(freeSignals)
        /\ signalOf' = [signalOf EXCEPT ![t] = s]
        /\ signalValue' = [signalValue EXCEPT ![s] = @ + 1]
        /\ andPreds' = [andPreds EXCEPT ![t] = AndPredecessors(t)]
        /\ awaited' = [awaited EXCEPT ![t] = AndPredecessors(t)]
        /\ dispatched' = [dispatched EXCEPT ![g] = Append(@, t)]
        /\ created' = [created EXCEPT ![g] = Tail(@)]
        /\ sinks' = [sinks EXCEPT ![g] = SinksWith(t)]
        /\ queue' = [queue EXCEPT ![QueueOf[t]] = @ \o Packets(t)]
        /\ state' = [state EXCEPT ![t] = READY]
        /\ Goto(h, "mark")
        /\ UNCHANGED <<prevOrdered, lastTask, flag, published, finished, batchVars, handling>>
    BY DEF TryAcquires, TakeSignal, RaiseSignal, At
  <1>2. UNCHANGED <<prevOrdered, lastTask, flag, published, finished, identity,
                    handlers, overlapped, handling>>
    BY <1>1 DEF batchVars
  <1>3. /\ t \in Task /\ g \in Group /\ QueueOf[t] \in Queue
        /\ thread[h].batch = Nothing /\ thread[h].group = g
        /\ h = Callback => thread[h].via = "progress"
    BY <1>1, Constants DEF BaseInv, ThreadInv, Carrying
  <1>4. /\ freeSignals \in Seq(Signal) /\ s \in Signal /\ Tail(freeSignals) \in Seq(Signal)
    BY <1>1, TailFacts DEF BaseInv, TypeInv
  <1>5. /\ state[t] \in Int /\ state[t] < 1 /\ state'[t] = 1
        /\ state' \in [Task -> UNINITIALIZED..COMPLETED]
        /\ \A u \in Task : u # t => state'[u] = state[u]
    <2>1. 1 \in UNINITIALIZED..COMPLETED
      BY DEF UNINITIALIZED, COMPLETED
    <2>2. state[t] \in Int /\ READY = 1 /\ state \in [Task -> UNINITIALIZED..COMPLETED]
      BY <1>3, StateNumbers DEF BaseInv, TypeInv
    <2>3. state' = [state EXCEPT ![t] = 1] /\ state[t] < 1
      BY <1>1, <2>2
    <2>4. QED
      BY <1>3, <2>1, <2>2, <2>3
  <1>6. /\ created[g] # <<>> /\ Head(created[g]) = t /\ created[g] \in Seq(Task)
        /\ created' \in [Group -> Seq(Task)] /\ created'[g] = Tail(created[g])
        /\ \A k \in Group : k # g => created'[k] = created[k]
    <2>1. created[g] # <<>> /\ Head(created[g]) = t
      BY <1>1 DEF BaseInv, CreatedInv, CreatedExact, At
    <2>2. created \in [Group -> Seq(Task)] /\ Tail(created[g]) \in Seq(Task)
      BY <1>3, <2>1, TailFacts DEF BaseInv, TypeInv
    <2>3. QED
      BY <1>1, <1>3, <2>1, <2>2
  <1>7. /\ dispatched[g] \in Seq(Task)
        /\ dispatched' \in [Group -> Seq(Task)]
        /\ dispatched'[g] = Append(dispatched[g], t)
        /\ \A k \in Group : k # g => dispatched'[k] = dispatched[k]
    <2>1. dispatched \in [Group -> Seq(Task)]
      BY DEF BaseInv, TypeInv
    <2>2. Append(dispatched[g], t) \in Seq(Task)
      BY <1>3, <2>1
    <2>3. QED
      BY <1>1, <1>3, <2>1, <2>2
  <1>8. AndPredecessors(t) \in SUBSET Task
    BY <1>3, Constants DEF AndPredecessors, BaseInv, TypeInv
  <1>9. /\ sinks' \in [Group -> SUBSET Task] /\ sinks'[g] = SinksWith(t)
        /\ \A k \in Group : k # g => sinks'[k] = sinks[k]
    <2>1. sinks \in [Group -> SUBSET Task]
      BY DEF BaseInv, TypeInv
    <2>2. SinksWith(t) \in SUBSET Task
      BY <1>3, <2>1 DEF SinksWith
    <2>3. QED
      BY <1>1, <1>3, <2>1, <2>2
  <1>10. /\ signalOf' \in [Task -> Signal \cup {0}] /\ signalOf'[t] = s
         /\ \A u \in Task : u # t => signalOf'[u] = signalOf[u]
         /\ signalValue' \in [Signal -> Int]
    <2>1. /\ signalOf \in [Task -> Signal \cup {0}] /\ s \in Signal
          /\ signalValue \in [Signal -> Int]
      BY <1>4 DEF BaseInv, TypeInv
    <2>2. signalOf' = [signalOf EXCEPT ![t] = s] /\ t \in Task
      BY <1>1, <1>3
    <2>3. /\ signalOf' \in [Task -> Signal \cup {0}] /\ signalOf'[t] = s
          /\ \A u \in Task : u # t => signalOf'[u] = signalOf[u]
      BY <2>1, <2>2
    <2>4. signalValue' = [signalValue EXCEPT ![s] = @ + 1]
      BY <1>1
    <2>5. signalValue' \in [Signal -> Int]
      BY <2>1, <2>4
    <2>6. QED
      BY <2>3, <2>5
  <1>11. /\ andPreds' \in [Task -> SUBSET Task]
         /\ awaited' \in [Task -> SUBSET Task] /\ awaited'[t] = AndPredecessors(t)
         /\ \A u \in Task : u # t => awaited'[u] = awaited[u]
    BY <1>1, <1>3, <1>8 DEF BaseInv, TypeInv
  <1>12. /\ queue' \in [Queue -> Seq(PacketSet)]
         /\ queue'[QueueOf[t]] = queue[QueueOf[t]] \o Packets(t)
         /\ \A q \in Queue : q # QueueOf[t] => queue'[q] = queue[q]
    <2>1. queue \in [Queue -> Seq(PacketSet)]
      BY DEF BaseInv, TypeInv
    <2>2. queue[QueueOf[t]] \o Packets(t) \in Seq(PacketSet)
      BY <1>3, <2>1, PacketsTyped
    <2>3. QED
      BY <1>1, <1>3, <2>1, <2>2
  <1>13. Moves(h, "mark") /\ ThreadType'
    BY <1>1, GotoMoves DEF BaseInv, TypeInv, ThreadType, Label, TryLabel
  <1>14. ~Acquired(t)
    BY <1>3, <1>5, StateNumbers DEF BaseInv
  <1>15. QED
    BY <1>1, <1>2, <1>3, <1>4, <1>5, <1>6, <1>7, <1>8, <1>9, <1>10, <1>11, <1>12, <1>13,
       <1>14

LEMMA AcquiresMoves ==
  ASSUME BaseInv, NEW h \in Thread, TryAcquires(h)
  PROVE  /\ thread[h].at = "try" /\ Moves(h, "mark") /\ UNCHANGED handling
         /\ thread[h].batch = Nothing /\ thread[h].group = GroupOf[thread[h].task]
         /\ h = Callback => thread[h].via = "progress"
  BY AcquiresFacts

LEMMA AcquiresMaking ==
  ASSUME BaseInv, NEW h \in Thread, TryAcquires(h)
  PROVE  MakingInv' /\ TurnInv'
  <1>1. PICK t \in Task : t = thread[h].task
    BY AcquiresFacts
  <1>2. /\ state'[t] = 1 /\ ~Acquired(t)
        /\ \A u \in Task : u # t => state'[u] = state[u]
        /\ thread[h].at = "try" /\ thread'[h].at = "mark" /\ thread'[h].task = t
        /\ \A k \in Thread : k # h => thread'[k] = thread[k]
        /\ UNCHANGED <<prevOrdered, lastTask, published>>
    BY <1>1, AcquiresFacts, ZenonT(60) DEF Moves, Others
  <1>3. \A u \in Task : Acquired(u)' <=> (Acquired(u) \/ u = t)
    BY <1>2 DEF Acquired, READY
  <1>4. MakingInv'
    <2>1. \A u \in Task : u \in Elements(created'[GroupOf[u]])
                          <=> (u \in Elements(created[GroupOf[u]]) /\ u # t)
      <3>1. PICK c \in Seq(Task) : c = created[GroupOf[t]] /\ c # <<>> /\ Head(c) = t
        BY <1>1, AcquiresFacts
      <3>2. /\ created'[GroupOf[t]] = Tail(c)
            /\ \A k \in Group : k # GroupOf[t] => created'[k] = created[k]
        BY <1>1, <3>1, AcquiresFacts
      <3>3. Injective(c)
        BY <3>1, Constants DEF BaseInv, CreatedInv, CreatedExact, Injective
      <3>4. Elements(c) = {t} \cup Elements(Tail(c)) /\ t \notin Elements(Tail(c))
        BY <3>1, <3>3, TailFacts
      <3>5. \A k \in Group : k # GroupOf[t] => t \notin Elements(created[k])
        BY DEF BaseInv, CreatedInv, Elements
      <3>6. QED
        BY <3>1, <3>2, <3>4, <3>5, Constants
    <2>2. \A u \in Task : Exists(u) <=> Exists(u)'
      <3>1. t \in Elements(created[GroupOf[t]])
        <4>1. PICK c \in Seq(Task) : c = created[GroupOf[t]] /\ c # <<>> /\ Head(c) = t
          BY <1>1, AcquiresFacts
        <4>2. QED
          BY <4>1, TailFacts
      <3>2. QED
        BY <1>2, <2>1, <3>1 DEF Exists, UNINITIALIZED
    <2>3. \A a \in App : /\ At(a, "push") <=> At(a, "push")'
                         /\ At(a, "push") => thread'[a].task = thread[a].task
      BY <1>2, Constants DEF At
    <2>4. QED
      BY <1>2, <2>2, <2>3, MakingKept DEF BaseInv
  <1>5. TurnInv'
    <2>1. t \notin published
      BY <1>2 DEF BaseInv, TurnInv
    <2>2. ASSUME NEW k \in Thread, k # h, thread'[k].at \in {"mark", "publish"}
          PROVE  /\ thread[k].at \in {"mark", "publish"} /\ thread'[k].task = thread[k].task
                 /\ thread[k].task \in Task /\ Acquired(thread[k].task)
                 /\ thread[k].task # t /\ thread[k].task \notin published
      BY <1>2, <2>2 DEF BaseInv, TurnInv, ThreadInv
    <2>3. \A k \in Thread : thread'[k].at \in {"mark", "publish"} =>
            Acquired(thread[k].task)' /\ thread'[k].task \notin published'
      <3> SUFFICES ASSUME NEW k \in Thread, thread'[k].at \in {"mark", "publish"}
                   PROVE  Acquired(thread[k].task)' /\ thread'[k].task \notin published'
        OBVIOUS
      <3>1. CASE k = h
        BY <1>2, <1>3, <2>1, <3>1 DEF Acquired
      <3>2. CASE k # h
        <4>1. PICK u \in Task : /\ u = thread[k].task /\ thread'[k].task = u
                                /\ Acquired(u) /\ u \notin published
          BY <2>2, <3>2
        <4>2. QED
          BY <1>2, <1>3, <4>1 DEF Acquired
      <3>3. QED
        BY <3>1, <3>2
    <2>4. \A k, l \in Thread :
            /\ k # l
            /\ thread'[k].at \in {"mark", "publish"} /\ thread'[l].at \in {"mark", "publish"}
            => thread'[k].task # thread'[l].task
      <3> SUFFICES ASSUME NEW k \in Thread, NEW l \in Thread, k # l,
                          thread'[k].at \in {"mark", "publish"},
                          thread'[l].at \in {"mark", "publish"}
                   PROVE  thread'[k].task # thread'[l].task
        OBVIOUS
      <3>1. CASE k # h /\ l # h
        BY <2>2, <3>1 DEF BaseInv, TurnInv
      <3>2. CASE k = h \/ l = h
        BY <1>2, <2>2, <3>2
      <3>3. QED
        BY <3>1, <3>2
    <2>5. \A u \in published' : Acquired(u)'
      <3>1. \A u \in published : Acquired(u) /\ u \in Task
        BY DEF BaseInv, TurnInv, TypeInv
      <3>2. QED
        BY <1>2, <1>3, <3>1
    <2>6. QED
      BY <2>3, <2>4, <2>5 DEF TurnInv
  <1>6. QED
    BY <1>4, <1>5

LEMMA AcquiresCreated ==
  ASSUME BaseInv, NEW h \in Thread, TryAcquires(h)
  PROVE  CreatedInv'
  <1>1. PICK t \in Task : t = thread[h].task
    BY AcquiresFacts
  <1>2. PICK g \in Group : g = GroupOf[t]
    BY Constants
  <1>3. PICK c \in Seq(Task) : c = created[g] /\ c # <<>> /\ Head(c) = t
    BY <1>1, <1>2, AcquiresFacts
  <1>4. /\ created'[g] = Tail(c) /\ \A k \in Group : k # g => created'[k] = created[k]
        /\ state'[t] = 1 /\ \A u \in Task : u # t => state'[u] = state[u]
        /\ thread[h].at = "try" /\ thread'[h].at = "mark" /\ thread'[h].task = t
        /\ \A k \in Thread : k # h => thread'[k] = thread[k]
    BY <1>1, <1>2, <1>3, AcquiresFacts, ZenonT(60) DEF Moves, Others
  <1>5. /\ \A i \in DOMAIN c : state[c[i]] < READY /\ GroupOf[c[i]] = g
        /\ Injective(c)
    BY <1>3 DEF BaseInv, CreatedInv, CreatedExact, Injective
  <1>6. /\ Tail(c) \in Seq(Task)
        /\ \A i \in DOMAIN Tail(c) : i + 1 \in DOMAIN c /\ Tail(c)[i] = c[i + 1]
        /\ Injective(Tail(c)) /\ t \notin Elements(Tail(c))
        /\ Elements(c) = {t} \cup Elements(Tail(c))
    BY <1>3, <1>5, TailFacts
  <1>7. ASSUME NEW k \in Group, NEW i \in DOMAIN created'[k]
        PROVE  /\ state'[created'[k][i]] < READY
               /\ GroupOf[created'[k][i]] = k
               /\ \A j \in DOMAIN created'[k] : created'[k][i] = created'[k][j] => i = j
    <2>1. CASE k = g
      <3>1. PICK u \in Task : u = Tail(c)[i] /\ u # t /\ state[u] < READY /\ GroupOf[u] = g
        <4>1. i \in DOMAIN Tail(c)
          BY <1>4, <1>7, <2>1
        <4>2. Tail(c)[i] \in Elements(Tail(c)) /\ Tail(c)[i] \in Task
          BY <1>6, <4>1, InElements
        <4>3. QED
          BY <1>5, <1>6, <4>1, <4>2
      <3>2. \A j \in DOMAIN created'[k] : created'[k][i] = created'[k][j] => i = j
        BY <1>4, <1>6, <1>7, <2>1 DEF Injective
      <3>3. QED
        BY <1>4, <2>1, <3>1, <3>2
    <2>2. CASE k # g
      <3>1. created'[k] = created[k]
        BY <1>4, <2>2
      <3>2. PICK u \in Task : u = created[k][i]
        BY <1>7, <3>1, ListsTyped, InElements DEF BaseInv
      <3>3. /\ state[u] < READY /\ GroupOf[u] = k
            /\ \A j \in DOMAIN created[k] : created[k][i] = created[k][j] => i = j
        BY <1>7, <3>1, <3>2 DEF BaseInv, CreatedInv, CreatedExact
      <3>4. u # t
        BY <1>2, <2>2, <3>3
      <3>5. QED
        BY <1>4, <3>1, <3>2, <3>3, <3>4
    <2>3. QED
      BY <2>1, <2>2
  <1>8. \A u \in Task : state'[u] = INITIALIZED => u \in Elements(created'[GroupOf[u]])
    <2> SUFFICES ASSUME NEW u \in Task, state'[u] = 0
                 PROVE  u \in Elements(created'[GroupOf[u]])
      BY DEF INITIALIZED
    <2>1. u # t /\ state[u] = 0
      BY <1>4
    <2>2. u \in Elements(created[GroupOf[u]])
      BY <2>1 DEF BaseInv, CreatedInv, CreatedExact, INITIALIZED
    <2>3. QED
      BY <1>3, <1>4, <1>6, <2>1, <2>2, Constants
  <1>9. ASSUME NEW k \in Thread, thread'[k].at = "try", state'[thread'[k].task] < READY
        PROVE  /\ created'[GroupOf[thread'[k].task]] # <<>>
               /\ Head(created'[GroupOf[thread'[k].task]]) = thread'[k].task
    <2>1. k # h /\ thread[k].at = "try"
      BY <1>4, <1>9
    <2>2. PICK u \in Task : u = thread[k].task /\ thread'[k].task = u
      BY <1>4, <2>1 DEF BaseInv, ThreadInv
    <2>3. u # t /\ state[u] < READY
      BY <1>4, <1>9, <2>2 DEF READY
    <2>4. created[GroupOf[u]] # <<>> /\ Head(created[GroupOf[u]]) = u
      BY <2>1, <2>2, <2>3 DEF BaseInv, CreatedInv, CreatedExact, At
    <2>5. GroupOf[u] # g
      BY <1>3, <2>3, <2>4
    <2>6. created'[GroupOf[u]] = created[GroupOf[u]]
      BY <1>4, <2>5, Constants
    <2>7. QED
      BY <2>2, <2>4, <2>6
  <1>10. QED
    BY <1>7, <1>8, <1>9 DEF CreatedInv, CreatedExact, At

LEMMA AcquiresPlaces ==
  ASSUME BaseInv, NEW h \in Thread, TryAcquires(h)
  PROVE  PlacesInv'
  <1>1. PICK t \in Task : t = thread[h].task
    BY AcquiresFacts
  <1>2. PICK g \in Group : g = GroupOf[t]
    BY Constants
  <1>3. PICK d \in Seq(Task) : d = dispatched[g]
    BY ListsTyped DEF BaseInv
  <1>4. /\ dispatched'[g] = Append(d, t)
        /\ \A k \in Group : k # g => dispatched'[k] = dispatched[k]
        /\ sinks'[g] = SinksWith(t) /\ \A k \in Group : k # g => sinks'[k] = sinks[k]
        /\ state'[t] = 1 /\ ~Acquired(t) /\ \A u \in Task : u # t => state'[u] = state[u]
        /\ UNCHANGED <<handlers, handling>>
        /\ \A k \in Thread : BatchOf(k)' = BatchOf(k)
    BY <1>1, <1>2, <1>3, AcquiresFacts, ZenonT(60) DEF Moves, Others, BatchOf
  <1>5. ASSUME NEW q \in Seq(Task), Running(q)
        PROVE  (Running(q))' /\ t \notin Elements(q)
    <2>1. \A i \in DOMAIN q : q[i] \in Task /\ q[i] # t
      BY <1>4, <1>5, InElements DEF Running, Acquired, READY, DISPATCHED
    <2>2. QED
      BY <1>4, <1>5, <2>1 DEF Running, Elements
  <1>6. /\ \A i \in DOMAIN handling : state'[handling[i]] \in READY..EXECUTED
        /\ t \notin Elements(handling)
    <2>1. ASSUME NEW i \in DOMAIN handling
          PROVE  handling[i] \in Task /\ handling[i] # t
      <3>1. PICK u \in Task : u = handling[i]
        BY ListsTyped, InElements DEF BaseInv
      <3>2. state[u] \in READY..EXECUTED
        BY <3>1 DEF BaseInv, PlacesInv
      <3>3. Acquired(u)
        BY <3>2 DEF Acquired, READY, EXECUTED
      <3>4. QED
        BY <1>4, <3>1, <3>3
    <2>2. QED
      BY <1>4, <2>1 DEF BaseInv, PlacesInv, Elements
  <1>7. /\ \A k \in Thread : (Running(BatchOf(k)))' /\ t \notin Elements(BatchOf(k))
        /\ \A b \in handlers : (Running(b))' /\ t \notin Elements(b)
    <2>1. ASSUME NEW k \in Thread
          PROVE  (Running(BatchOf(k)))' /\ t \notin Elements(BatchOf(k))
      <3>1. PICK q \in Seq(Task) : q = BatchOf(k) /\ Running(q)
        BY ListsTyped DEF BaseInv, PlacesInv
      <3>2. (Running(q))' /\ t \notin Elements(q)
        BY <1>5, <3>1
      <3>3. QED
        BY <1>4, <3>1, <3>2 DEF Running
    <2>2. \A b \in handlers : (Running(b))' /\ t \notin Elements(b)
      BY <1>5, ListsTyped DEF BaseInv, PlacesInv
    <2>3. QED
      BY <2>1, <2>2
  <1>8. /\ Injective(d) /\ \A i \in DOMAIN d : GroupOf[d[i]] = g
        /\ Running(d) /\ sinks[g] \subseteq Elements(d)
        /\ Disjoint(d, handling)
        /\ \A k \in Thread : Disjoint(d, BatchOf(k))
        /\ \A b \in handlers : Disjoint(d, b)
    BY <1>3 DEF BaseInv, PlacesInv
  <1>9. /\ DOMAIN d = 1..Len(d) /\ DOMAIN Append(d, t) = 1..Len(d) + 1
        /\ \A i \in DOMAIN d : Append(d, t)[i] = d[i]
        /\ Append(d, t)[Len(d) + 1] = t
        /\ Elements(Append(d, t)) = Elements(d) \cup {t}
        /\ Len(d) \in Nat /\ Append(d, t) \in Seq(Task)
    BY AppendFacts, InElements
  <1>10. \A i \in DOMAIN Append(d, t) : i \in DOMAIN d \/ i = Len(d) + 1
    BY <1>9
  <1>11. t \notin Elements(d)
    BY <1>5, <1>8
  <1>12. Injective(Append(d, t))
    BY <1>8, <1>9, <1>10, <1>11, InElements DEF Injective
  <1>13. \A i \in DOMAIN Append(d, t) : GroupOf[Append(d, t)[i]] = g
    BY <1>2, <1>8, <1>9, <1>10
  <1>14. (Running(Append(d, t)))'
    <2>1. 1 \in {READY, DISPATCHED} /\ (Running(d))'
      BY <1>5, <1>8 DEF READY
    <2>2. QED
      BY <1>4, <1>9, <1>10, <2>1 DEF Running
  <1>15. \A k \in Group :
           /\ Injective(dispatched'[k])
           /\ \A i \in DOMAIN dispatched'[k] : GroupOf[dispatched'[k][i]] = k
           /\ Running(dispatched[k])'
           /\ sinks'[k] \subseteq Elements(dispatched'[k])
           /\ Disjoint(dispatched'[k], handling')
           /\ \A l \in Thread : Disjoint(dispatched'[k], BatchOf(l)')
           /\ \A b \in handlers' : Disjoint(dispatched'[k], b)
    <2> SUFFICES ASSUME NEW k \in Group
                 PROVE  /\ Injective(dispatched'[k])
                        /\ \A i \in DOMAIN dispatched'[k] : GroupOf[dispatched'[k][i]] = k
                        /\ Running(dispatched[k])'
                        /\ sinks'[k] \subseteq Elements(dispatched'[k])
                        /\ Disjoint(dispatched'[k], handling')
                        /\ \A l \in Thread : Disjoint(dispatched'[k], BatchOf(l)')
                        /\ \A b \in handlers' : Disjoint(dispatched'[k], b)
      OBVIOUS
    <2>1. CASE k = g
      <3>1. sinks'[k] \subseteq Elements(dispatched'[k])
        BY <1>2, <1>4, <1>8, <1>9, <2>1 DEF SinksWith
      <3>2. /\ Disjoint(dispatched'[k], handling')
            /\ \A l \in Thread : Disjoint(dispatched'[k], BatchOf(l)')
            /\ \A b \in handlers' : Disjoint(dispatched'[k], b)
        <4>1. \A q : Disjoint(d, q) /\ t \notin Elements(q) => Disjoint(Append(d, t), q)
          BY <1>9 DEF Disjoint
        <4>2. QED
          BY <1>4, <1>6, <1>7, <1>8, <2>1, <4>1
      <3>3. Running(dispatched[k])'
        BY <1>4, <1>14, <2>1 DEF Running
      <3>4. QED
        BY <1>4, <1>12, <1>13, <2>1, <3>1, <3>2, <3>3
    <2>2. CASE k # g
      <3>1. PICK q \in Seq(Task) : q = dispatched[k] /\ Running(q)
        BY ListsTyped DEF BaseInv, PlacesInv
      <3>2. (Running(q))'
        BY <1>5, <3>1
      <3>3. Running(dispatched[k])'
        BY <1>4, <2>2, <3>1, <3>2 DEF Running
      <3>4. QED
        BY <1>4, <2>2, <3>3 DEF BaseInv, PlacesInv
    <2>3. QED
      BY <2>1, <2>2
  <1>16. QED
    BY <1>4, <1>6, <1>7, <1>15 DEF BaseInv, PlacesInv

LEMMA AcquiresSignal ==
  ASSUME BaseInv, NEW h \in Thread, TryAcquires(h)
  PROVE  SignalInv'
  <1>1. PICK t \in Task : t = thread[h].task
    BY AcquiresFacts
  <1>2. PICK s \in Signal : s = Head(freeSignals)
    BY AcquiresFacts
  <1>3. /\ state'[t] = 1 /\ ~Acquired(t) /\ \A u \in Task : u # t => state'[u] = state[u]
        /\ signalOf' = [signalOf EXCEPT ![t] = s] /\ signalOf'[t] = s
        /\ \A u \in Task : u # t => signalOf'[u] = signalOf[u]
        /\ signalValue' = [signalValue EXCEPT ![s] = @ + 1]
        /\ awaited'[t] = AndPredecessors(t) /\ AndPredecessors(t) \in SUBSET Task
        /\ \A u \in Task : u # t => awaited'[u] = awaited[u]
        /\ finished' = finished /\ ~Undispatched(t)
    BY <1>1, <1>2, AcquiresFacts, ZenonT(60)
  <1>4. \A u \in Task : Acquired(u)' <=> (Acquired(u) \/ u = t)
    BY <1>3 DEF Acquired, READY
  <1>5. \A u \in Task : signalOf'[u] # 0 <=> Acquired(u)'
    BY <1>3, <1>4, Constants DEF BaseInv, SignalInv
  <1>6. \A r \in Signal : signalValue'[r] = Cardinality(Users(r)')
    <2>1. signalOf[t] = 0 /\ t \notin finished
      BY <1>3 DEF BaseInv, SignalInv, TurnInv, TypeInv
    <2>2. SignalInv /\ signalOf \in [Task -> Signal \cup {0}] /\ signalValue \in [Signal -> Int]
      BY DEF BaseInv, TypeInv
    <2>3. QED
      BY <1>3, <2>1, <2>2, UsersGrow
  <1>7. \A u \in Task : ~Acquired(u)' => awaited'[u] = {}
    BY <1>3, <1>4 DEF BaseInv, SignalInv
  <1>8. \A u \in Task : \A p \in awaited'[u] : state'[p] >= DISPATCHED
    <2> SUFFICES ASSUME NEW u \in Task, NEW p \in awaited'[u]
                 PROVE  state'[p] >= DISPATCHED
      OBVIOUS
    <2>1. p \in Task /\ state[p] >= DISPATCHED
      <3>1. CASE u = t
        <4>1. p \in Task /\ p \in AndPredecessors(t)
          BY <1>3, <3>1
        <4>2. ~(state[p] < DISPATCHED)
          BY <1>3, <4>1 DEF AndPredecessors, Undispatched
        <4>3. state[p] \in Int /\ DISPATCHED = 2
          BY <4>1, StateNumbers DEF BaseInv
        <4>4. QED
          BY <4>1, <4>2, <4>3
      <3>2. CASE u # t
        BY <1>3, <3>2 DEF BaseInv, SignalInv, TypeInv
      <3>3. QED
        BY <3>1, <3>2
    <2>2. p # t
      <3>1. state[p] \in Int /\ DISPATCHED = 2 /\ (Acquired(p) <=> state[p] >= 1)
        BY <2>1, StateNumbers DEF BaseInv
      <3>2. Acquired(p)
        BY <2>1, <3>1
      <3>3. QED
        BY <1>3, <3>2
    <2>3. QED
      BY <1>3, <2>1, <2>2
  <1>9. QED
    BY <1>5, <1>6, <1>7, <1>8 DEF SignalInv

LEMMA TryAcquiresBase ==
  ASSUME BaseInv, NEW h \in Thread, TryAcquires(h)
  PROVE  BaseInv'
  <1>1. TypeInv'
    BY AcquiresFacts DEF BaseInv, TypeInv, ThreadType
  <1>2. ThreadInv'
    <2>1. PICK t \in Task : t = thread[h].task
      BY AcquiresFacts
    <2>2. /\ thread[h].at = "try" /\ thread'[h].at = "mark" /\ thread'[h].task = t
          /\ thread'[h].batch = Nothing /\ thread'[h].group = GroupOf[t]
          /\ h = Callback => thread'[h].via = "progress"
          /\ Others(h) /\ handling' = handling
      BY <2>1, AcquiresMoves DEF Moves
    <2>3. QED
      BY <2>2, ThreadKept, HandlingKept DEF BaseInv
  <1>3. QED
    BY <1>1, <1>2, AcquiresMaking, AcquiresCreated, AcquiresPlaces, AcquiresSignal
    DEF BaseInv

-----------------------------------------------------------------------------
(* Steps of the devices.                                                     *)

LEMMA DeviceKept ==
  ASSUME BaseInv,
         UNCHANGED <<state, prevOrdered, lastTask, created, dispatched, sinks, published,
                     handlers, handling, thread>>
  PROVE  ThreadInv' /\ MakingInv' /\ CreatedInv' /\ TurnInv' /\ PlacesInv'
  <1>1. \A t \in Task : (Exists(t) <=> Exists(t)') /\ (Acquired(t) <=> Acquired(t)')
    BY DEF Exists, Acquired
  <1>2. ThreadInv'
    BY DEF BaseInv, ThreadInv, Carrying, BatchOf
  <1>3. MakingInv'
    BY <1>1, MakingKept DEF BaseInv, At
  <1>4. CreatedInv'
    BY DEF BaseInv, CreatedInv, CreatedExact, At
  <1>5. TurnInv'
    BY <1>1, TurnKept DEF BaseInv
  <1>6. PlacesInv'
    BY PlacesKept DEF BaseInv, BatchOf
  <1>7. QED
    BY <1>2, <1>3, <1>4, <1>5, <1>6

LEMMA SeePredecessorBase ==
  ASSUME BaseInv, NEW t \in Task, NEW p \in Task, SeePredecessor(t, p)
  PROVE  BaseInv'
  <1>1. /\ awaited' = [awaited EXCEPT ![t] = @ \ {p}]
        /\ UNCHANGED <<taskVars, listVars, queue, published, finished, signalValue, batchVars,
                       handling, thread>>
    BY DEF SeePredecessor
  <1>2. UNCHANGED <<state, prevOrdered, lastTask, signalOf, andPreds, freeSignals, created,
                    dispatched, sinks, flag, queue, published, finished, signalValue,
                    identity, handlers, overlapped, handling, thread>>
    BY <1>1 DEF taskVars, listVars, batchVars
  <1>3. /\ awaited' \in [Task -> SUBSET Task]
        /\ \A u \in Task : awaited'[u] \subseteq awaited[u]
    BY <1>1 DEF BaseInv, TypeInv
  <1>4. TypeInv'
    BY <1>2, <1>3 DEF BaseInv, TypeInv
  <1>5. SignalInv'
    BY <1>2, <1>3, SignalKept DEF BaseInv, Acquired
  <1>6. QED
    BY <1>2, <1>4, <1>5, DeviceKept DEF BaseInv

\* A packet that names a sink is a barrier packet of a batch.
LEMMA SinksTyped ==
  ASSUME NEW p \in PacketSet, NEW u, NEW S, S = p.sinks \ {u}, p.sinks # {}
  PROVE  /\ [p EXCEPT !.sinks = S] \in PacketSet
         /\ p.type = "sinks" /\ p = SinksPacket(p.sinks)
         /\ [p EXCEPT !.sinks = S] = SinksPacket(S)
  <1>1. p \in [type : {"sinks"}, task : {NoTask}, sinks : SUBSET Task]
    BY DEF PacketSet
  <1>2. [p EXCEPT !.sinks = S] \in [type : {"sinks"}, task : {NoTask}, sinks : SUBSET Task]
    BY <1>1
  <1>3. p.type = "sinks" /\ p = SinksPacket(p.sinks)
    BY <1>1 DEF SinksPacket
  <1>4. [p EXCEPT !.sinks = S] = SinksPacket(S)
    BY <1>1 DEF SinksPacket
  <1>5. QED
    BY <1>2, <1>3, <1>4 DEF PacketSet

\* What the device does to a packet that waits for sinks.
LEMMA SeeSinkFacts ==
  ASSUME TypeInv, NEW q \in Queue, NEW p \in Task, SeeSink(q, p)
  PROVE  \E i \in DOMAIN queue[q] :
           /\ p \in queue[q][i].sinks /\ AtZero(p)
           /\ queue[q][i].type = "sinks"
           /\ queue' \in [Queue -> Seq(PacketSet)]
           /\ \A r \in Queue : r # q => queue'[r] = queue[r]
           /\ DOMAIN queue'[q] = DOMAIN queue[q] /\ Len(queue'[q]) = Len(queue[q])
           /\ \A j \in DOMAIN queue[q] : j # i => queue'[q][j] = queue[q][j]
           /\ queue'[q][i] = SinksPacket(queue[q][i].sinks \ {p})
  <1>1. PICK i \in DOMAIN queue[q] :
          /\ p \in queue[q][i].sinks /\ AtZero(p)
          /\ queue' = [queue EXCEPT ![q][i].sinks = @ \ {p}]
    BY DEF SeeSink
  <1>2. queue \in [Queue -> Seq(PacketSet)]
    BY DEF TypeInv
  <1>3. PICK c \in Seq(PacketSet) : c = queue[q]
    BY <1>2
  <1>4. PICK x \in PacketSet : x = c[i] /\ p \in x.sinks
    BY <1>1, <1>3
  <1>5. PICK S : S = x.sinks \ {p}
    OBVIOUS
  <1>6. PICK y \in PacketSet : y = [x EXCEPT !.sinks = S] /\ y = SinksPacket(S) /\ x.type = "sinks"
    <2>1. x.sinks # {}
      BY <1>4
    <2>2. /\ [x EXCEPT !.sinks = S] \in PacketSet
          /\ [x EXCEPT !.sinks = S] = SinksPacket(S) /\ x.type = "sinks"
      BY <1>5, <2>1, SinksTyped
    <2>3. QED
      BY <2>2
  <1>7. queue' = [queue EXCEPT ![q] = [c EXCEPT ![i] = y]]
    BY <1>1, <1>2, <1>3, <1>4, <1>5, <1>6
  <1>8. PICK d \in Seq(PacketSet) :
          /\ d = [c EXCEPT ![i] = y]
          /\ DOMAIN d = DOMAIN c /\ Len(d) = Len(c)
          /\ \A j \in DOMAIN c : j # i => d[j] = c[j]
          /\ d[i] = y
    <2>1. DOMAIN c = 1..Len(c) /\ Len(c) \in Nat /\ i \in 1..Len(c)
      BY <1>1, <1>3
    <2>2. [c EXCEPT ![i] = y] \in Seq(PacketSet) /\ Len([c EXCEPT ![i] = y]) = Len(c)
      BY <2>1, ExceptSeq
    <2>3. DOMAIN [c EXCEPT ![i] = y] = DOMAIN c
      OBVIOUS
    <2>4. /\ \A j \in DOMAIN c : j # i => [c EXCEPT ![i] = y][j] = c[j]
          /\ [c EXCEPT ![i] = y][i] = y
      BY <2>1
    <2>5. QED
      BY <2>2, <2>3, <2>4
  <1>9. /\ queue' \in [Queue -> Seq(PacketSet)] /\ queue'[q] = d
        /\ \A r \in Queue : r # q => queue'[r] = queue[r]
    BY <1>2, <1>7, <1>8
  <1>10. QED
    BY <1>1, <1>3, <1>4, <1>5, <1>6, <1>8, <1>9

LEMMA SeeSinkBase ==
  ASSUME BaseInv, NEW q \in Queue, NEW p \in Task, SeeSink(q, p)
  PROVE  BaseInv'
  <1>1. UNCHANGED <<taskVars, listVars, awaited, published, finished, signalValue, batchVars,
                    handling, thread>>
    BY DEF SeeSink
  <1>2. UNCHANGED <<state, prevOrdered, lastTask, signalOf, andPreds, freeSignals, created,
                    dispatched, sinks, flag, awaited, published, finished, signalValue,
                    identity, handlers, overlapped, handling, thread>>
    BY <1>1 DEF taskVars, listVars, batchVars
  <1>3. TypeInv'
    BY <1>2, SeeSinkFacts DEF BaseInv, TypeInv
  <1>4. SignalInv'
    BY <1>2, SignalKept DEF BaseInv, Acquired
  <1>5. QED
    BY <1>2, <1>3, <1>4, DeviceKept DEF BaseInv

\* A barrier packet at the front of its queue is done.
LEMMA PassBarrierFacts ==
  ASSUME TypeInv, NEW q \in Queue, PassBarrier(q)
  PROVE  /\ queue[q] \in Seq(PacketSet) /\ queue[q] # <<>>
         /\ queue' \in [Queue -> Seq(PacketSet)]
         /\ queue'[q] = Tail(queue[q])
         /\ \A r \in Queue : r # q => queue'[r] = queue[r]
         /\ LET p == queue[q][1] IN
            \/ p.type = "deps" /\ awaited[p.task] = {} /\ identity' = identity
            \/ p.type = "sinks" /\ p.sinks = {} /\ identity' = identity - 1
         /\ identity' \in Int
  <1>1. /\ queue[q] # <<>>
        /\ queue' = [queue EXCEPT ![q] = Tail(@)]
        /\ LET p == Head(queue[q]) IN
           \/ p.type = "deps" /\ awaited[p.task] = {} /\ identity' = identity
           \/ p.type = "sinks" /\ p.sinks = {} /\ identity' = identity - 1
    BY DEF PassBarrier
  <1>2. queue \in [Queue -> Seq(PacketSet)] /\ identity \in Int
    BY DEF TypeInv
  <1>3. Head(queue[q]) = queue[q][1] /\ Tail(queue[q]) \in Seq(PacketSet)
    BY <1>1, <1>2, TailFacts
  <1>4. QED
    BY <1>1, <1>2, <1>3

LEMMA PassBarrierBase ==
  ASSUME BaseInv, NEW q \in Queue, PassBarrier(q)
  PROVE  BaseInv'
  <1>1. UNCHANGED <<taskVars, listVars, awaited, published, finished, signalValue, handlers,
                    overlapped, handling, thread>>
    BY DEF PassBarrier
  <1>2. UNCHANGED <<state, prevOrdered, lastTask, signalOf, andPreds, freeSignals, created,
                    dispatched, sinks, flag, awaited, published, finished, signalValue,
                    handlers, overlapped, handling, thread>>
    BY <1>1 DEF taskVars, listVars
  <1>3. TypeInv'
    BY <1>2, PassBarrierFacts DEF BaseInv, TypeInv
  <1>4. SignalInv'
    BY <1>2, SignalKept DEF BaseInv, Acquired
  <1>5. QED
    BY <1>2, <1>3, <1>4, DeviceKept DEF BaseInv

LEMMA RemoveAtFacts ==
  ASSUME NEW S, NEW q \in Seq(S), NEW i \in DOMAIN q
  PROVE  /\ RemoveAt(q, i) \in Seq(S)
         /\ Len(q) \in Nat \ {0} /\ DOMAIN q = 1..Len(q) /\ i \in 1..Len(q)
         /\ DOMAIN RemoveAt(q, i) = 1..Len(q) - 1
         /\ \A j \in 1..Len(q) - 1 :
              RemoveAt(q, i)[j] = IF j < i THEN q[j] ELSE q[j + 1]
  <1>1. Len(q) \in Nat \ {0} /\ DOMAIN q = 1..Len(q) /\ i \in 1..Len(q)
    OBVIOUS
  <1>2. PICK a \in Seq(S) :
          /\ a = SubSeq(q, 1, i - 1) /\ Len(a) = i - 1
          /\ \A j \in 1..i - 1 : a[j] = q[j]
    <2>1. 1 \in Int /\ i - 1 \in Int /\ \A j \in 1..i - 1 : q[j] \in S
      BY <1>1
    <2>2. /\ SubSeq(q, 1, i - 1) \in Seq(S)
          /\ Len(SubSeq(q, 1, i - 1)) = IF 1 <= i - 1 THEN (i - 1) - 1 + 1 ELSE 0
          /\ \A j \in 1..(i - 1) - 1 + 1 : SubSeq(q, 1, i - 1)[j] = q[1 + j - 1]
      BY <2>1, SubSeqProperties
    <2>3. /\ (i - 1) - 1 + 1 = i - 1
          /\ (IF 1 <= i - 1 THEN (i - 1) - 1 + 1 ELSE 0) = i - 1
          /\ \A j \in 1..i - 1 : 1 + j - 1 = j
      BY <1>1
    <2>4. \A j \in 1..i - 1 : SubSeq(q, 1, i - 1)[j] = q[j]
      BY <2>2, <2>3
    <2>5. QED
      BY <2>2, <2>3, <2>4
  <1>3. PICK b \in Seq(S) :
          /\ b = SubSeq(q, i + 1, Len(q)) /\ Len(b) = Len(q) - i
          /\ \A j \in 1..Len(q) - i : b[j] = q[j + i]
    <2>1. i + 1 \in Int /\ Len(q) \in Int /\ \A j \in i + 1..Len(q) : q[j] \in S
      BY <1>1
    <2>2. /\ SubSeq(q, i + 1, Len(q)) \in Seq(S)
          /\ Len(SubSeq(q, i + 1, Len(q)))
               = IF i + 1 <= Len(q) THEN Len(q) - (i + 1) + 1 ELSE 0
          /\ \A j \in 1..Len(q) - (i + 1) + 1 :
               SubSeq(q, i + 1, Len(q))[j] = q[(i + 1) + j - 1]
      BY <2>1, SubSeqProperties
    <2>3. /\ Len(q) - (i + 1) + 1 = Len(q) - i
          /\ (IF i + 1 <= Len(q) THEN Len(q) - (i + 1) + 1 ELSE 0) = Len(q) - i
          /\ \A j \in 1..Len(q) - i : (i + 1) + j - 1 = j + i
      BY <1>1
    <2>4. \A j \in 1..Len(q) - i : SubSeq(q, i + 1, Len(q))[j] = q[j + i]
      BY <2>2, <2>3
    <2>5. QED
      BY <2>2, <2>3, <2>4
  <1>4. RemoveAt(q, i) = a \o b
    BY <1>2, <1>3 DEF RemoveAt
  <1>5. /\ a \o b \in Seq(S) /\ Len(a \o b) = Len(q) - 1
        /\ \A j \in 1..Len(q) - 1 :
             (a \o b)[j] = IF j <= i - 1 THEN a[j] ELSE b[j - (i - 1)]
    <2>1. Len(a) + Len(b) = Len(q) - 1
      <3>1. i \in Int /\ Len(q) \in Int /\ Len(a) = i - 1 /\ Len(b) = Len(q) - i
        BY <1>1, <1>2, <1>3
      <3>2. QED
        BY <3>1
    <2>2. /\ a \o b \in Seq(S) /\ Len(a \o b) = Len(a) + Len(b)
          /\ \A j \in 1..Len(a) + Len(b) :
               (a \o b)[j] = IF j <= Len(a) THEN a[j] ELSE b[j - Len(a)]
      BY ConcatProperties
    <2>3. QED
      BY <1>2, <2>1, <2>2
  <1>6. \A j \in 1..Len(q) - 1 :
          (a \o b)[j] = IF j < i THEN q[j] ELSE q[j + 1]
    <2> SUFFICES ASSUME NEW j \in 1..Len(q) - 1
                 PROVE  (a \o b)[j] = IF j < i THEN q[j] ELSE q[j + 1]
      OBVIOUS
    <2>1. CASE j < i
      <3>1. j <= i - 1 /\ j \in 1..i - 1
        BY <1>1, <2>1
      <3>2. QED
        BY <1>2, <1>5, <2>1, <3>1
    <2>2. CASE ~(j < i)
      <3>1. /\ j - (i - 1) \in 1..Len(q) - i /\ (j - (i - 1)) + i = j + 1
            /\ ~(j <= i - 1)
        BY <1>1, <2>2
      <3>2. QED
        BY <1>3, <1>5, <2>2, <3>1
    <2>3. QED
      BY <2>1, <2>2
  <1>7. DOMAIN (a \o b) = 1..Len(q) - 1
    BY <1>5
  <1>8. QED
    BY <1>1, <1>4, <1>5, <1>6, <1>7

\* What the end of a task does to its signal and to the queue of its kernel.
LEMMA FinishTaskFacts ==
  ASSUME BaseInv, NEW t \in Task, FinishTask(t)
  PROVE  /\ t \in published /\ t \notin finished /\ awaited[t] = {}
         /\ finished' = finished \cup {t}
         /\ signalOf[t] \in Signal
         /\ signalValue' = [signalValue EXCEPT ![signalOf[t]] = @ - 1]
         /\ signalValue' \in [Signal -> Int]
         /\ queue' \in [Queue -> Seq(PacketSet)]
         /\ \/ KindOf[t] = "data" /\ queue' = queue
            \/ /\ KindOf[t] = "gpu"
               /\ \A r \in Queue : r # QueueOf[t] => queue'[r] = queue[r]
               /\ \E i \in DOMAIN queue[QueueOf[t]] :
                    /\ RunnableAt(t, i)
                    /\ queue'[QueueOf[t]] = RemoveAt(queue[QueueOf[t]], i)
         /\ UNCHANGED <<state, prevOrdered, lastTask, signalOf, andPreds, freeSignals, created,
                        dispatched, sinks, flag, awaited, published,
                        identity, handlers, overlapped, handling, thread>>
  <1>1. /\ t \in published /\ t \notin finished /\ awaited[t] = {}
        /\ finished' = finished \cup {t}
        /\ signalValue' = [signalValue EXCEPT ![signalOf[t]] = @ - 1]
        /\ UNCHANGED <<taskVars, listVars, awaited, published, batchVars, handling, thread>>
    BY DEF FinishTask, Runnable
  <1>2. UNCHANGED <<state, prevOrdered, lastTask, signalOf, andPreds, freeSignals, created,
                    dispatched, sinks, flag, awaited, published,
                    identity, handlers, overlapped, handling, thread>>
    BY <1>1 DEF taskVars, listVars, batchVars
  <1>3. signalOf[t] \in Signal
    BY <1>1 DEF BaseInv, TurnInv, SignalInv, TypeInv
  <1>4. signalValue' \in [Signal -> Int]
    BY <1>1, <1>3 DEF BaseInv, TypeInv
  <1>5. queue \in [Queue -> Seq(PacketSet)] /\ QueueOf[t] \in Queue
    BY Constants DEF BaseInv, TypeInv
  <1>6. CASE KindOf[t] = "data"
    BY <1>1, <1>2, <1>3, <1>4, <1>5, <1>6 DEF FinishTask
  <1>7. CASE KindOf[t] # "data"
    <2>1. PICK i \in DOMAIN queue[QueueOf[t]] :
            /\ RunnableAt(t, i)
            /\ queue' = [queue EXCEPT ![QueueOf[t]] = RemoveAt(@, i)]
      BY <1>7 DEF FinishTask
    <2>2. RemoveAt(queue[QueueOf[t]], i) \in Seq(PacketSet)
      BY <1>5, <2>1, RemoveAtFacts
    <2>3. /\ queue' \in [Queue -> Seq(PacketSet)]
          /\ queue'[QueueOf[t]] = RemoveAt(queue[QueueOf[t]], i)
          /\ \A r \in Queue : r # QueueOf[t] => queue'[r] = queue[r]
      BY <1>5, <2>1, <2>2
    <2>4. KindOf[t] = "gpu"
      BY <1>7, Constants
    <2>5. QED
      BY <1>1, <1>2, <1>3, <1>4, <2>1, <2>3, <2>4
  <1>8. QED
    BY <1>6, <1>7

LEMMA FinishTaskBase ==
  ASSUME BaseInv, NEW t \in Task, FinishTask(t)
  PROVE  BaseInv'
  <1>1. /\ t \in published /\ t \notin finished
        /\ finished' = finished \cup {t}
        /\ signalOf[t] \in Signal
        /\ signalValue' = [signalValue EXCEPT ![signalOf[t]] = @ - 1]
        /\ UNCHANGED <<state, prevOrdered, lastTask, signalOf, andPreds, freeSignals, created,
                       dispatched, sinks, flag, awaited, published,
                       identity, handlers, overlapped, handling, thread>>
    BY FinishTaskFacts
  <1>2. TypeInv'
    BY <1>1, FinishTaskFacts DEF BaseInv, TypeInv
  <1>3. ASSUME NEW r \in Signal
        PROVE  signalValue'[r] = Cardinality(Users(r)')
    <2>1. signalValue[r] = Cardinality(Users(r)) /\ signalValue \in [Signal -> Int]
      BY DEF BaseInv, SignalInv, TypeInv
    <2>2. CASE r = signalOf[t]
      <3>1. Users(r)' = Users(r) \ {t} /\ t \in Users(r)
        BY <1>1, <2>2 DEF Users
      <3>2. IsFiniteSet(Users(r))
        BY BarrierAssumption, FS_Subset DEF Users
      <3>3. Cardinality(Users(r) \ {t}) = Cardinality(Users(r)) - 1
        BY <3>1, <3>2, FS_RemoveElement
      <3>4. signalValue'[r] = signalValue[r] - 1
        BY <1>1, <2>1, <2>2
      <3>5. QED
        BY <2>1, <3>1, <3>3, <3>4
    <2>3. CASE r # signalOf[t]
      <3>1. Users(r)' = Users(r)
        BY <1>1, <2>3 DEF Users
      <3>2. signalValue'[r] = signalValue[r]
        BY <1>1, <2>1, <2>3
      <3>3. QED
        BY <2>1, <3>1, <3>2
    <2>4. QED
      BY <2>2, <2>3
  <1>4. SignalInv'
    <2>1. \A u \in Task : Acquired(u) <=> Acquired(u)'
      BY <1>1 DEF Acquired
    <2>2. QED
      BY <1>1, <1>3, <2>1 DEF BaseInv, SignalInv
  <1>5. QED
    BY <1>1, <1>2, <1>4, DeviceKept DEF BaseInv

-----------------------------------------------------------------------------
(* Init, and every step.                                                     *)

LEMMA InitBase ==
  ASSUME Init
  PROVE  BaseInv
  <1>1. /\ \A t \in Task : ~Acquired(t)
        /\ \A t \in Task : state[t] \in UNINITIALIZED..COMPLETED /\ state[t] # INITIALIZED
    BY DEF Init, Acquired, UNINITIALIZED, INITIALIZED, READY, COMPLETED
  <1>2. /\ \A h \in Thread : thread[h] = Idle /\ thread[h].at = "idle"
                             /\ thread[h].batch = Nothing
        /\ Idle \in [at : Label, task : Task \cup {NoTask}, group : Group \cup {NoGroup},
                     via : {"launch", "activate", "wait", "progress"},
                     batch : [sinks : SUBSET Task, tasks : Seq(Task)]]
    BY NothingTyped DEF Init, Idle, Frame, Label
  <1>3. TypeInv
    <2>1. Pool \in Seq(Signal)
      BY BarrierAssumption
    <2>2. /\ state \in [Task -> UNINITIALIZED..COMPLETED]
          /\ thread \in [Thread -> [at : Label,
                                    task : Task \cup {NoTask},
                                    group : Group \cup {NoGroup},
                                    via : {"launch", "activate", "wait", "progress"},
                                    batch : [sinks : SUBSET Task, tasks : Seq(Task)]]]
      BY <1>1, <1>2 DEF Init
    <2>3. \A S : <<>> \in Seq(S)
      BY EmptyList
    <2>4. /\ prevOrdered \in [Task -> Task \cup {NoTask}]
          /\ lastTask \in [Group -> Task \cup {NoTask}]
          /\ signalOf \in [Task -> Signal \cup {0}]
          /\ andPreds \in [Task -> SUBSET Task]
          /\ awaited \in [Task -> SUBSET Task]
          /\ freeSignals \in Seq(Signal)
          /\ created \in [Group -> Seq(Task)]
          /\ dispatched \in [Group -> Seq(Task)]
          /\ sinks \in [Group -> SUBSET Task]
          /\ flag \in [Group -> BOOLEAN]
          /\ queue \in [Queue -> Seq(PacketSet)]
          /\ signalValue \in [Signal -> Int]
      BY <2>1, <2>3 DEF Init
    <2>5. /\ published \subseteq Task /\ finished \subseteq published
          /\ handlers \subseteq Seq(Task) \ {<<>>}
          /\ handling \in Seq(Task)
      BY <2>3 DEF Init
    <2>6. identity \in Int /\ overlapped \in BOOLEAN
      <3>1. identity = 0
        BY DEF Init
      <3>2. overlapped \in BOOLEAN
        BY Zenon DEF Init
      <3>3. QED
        BY <3>1, <3>2
    <2>7. QED
      BY <2>2, <2>4, <2>5, <2>6 DEF TypeInv
  <1>4. ThreadInv
    BY <1>2, Constants DEF Init, ThreadInv, Carrying
  <1>5. MakingInv
    BY <1>2, Constants DEF Init, MakingInv, At
  <1>6. CreatedInv
    BY <1>1, <1>2, EmptyList DEF Init, CreatedInv, CreatedExact, At
  <1>7. TurnInv
    BY <1>2 DEF Init, TurnInv
  <1>8. PlacesInv
    <2>1. \A h \in Thread : BatchOf(h) = <<>>
      BY <1>2 DEF BatchOf, Nothing
    <2>2. QED
      BY <2>1, EmptyList, DisjointFacts DEF Init, PlacesInv
  <1>9. SignalInv
    <2>1. \A s \in Signal : Users(s) = {}
      BY Constants DEF Init, Users
    <2>2. Cardinality({}) = 0
      BY FS_EmptySet
    <2>3. QED
      BY <1>1, <2>1, <2>2 DEF Init, SignalInv
  <1>10. QED
    BY <1>3, <1>4, <1>5, <1>6, <1>7, <1>8, <1>9 DEF BaseInv

LEMMA WorkBase ==
  ASSUME BaseInv, Work
  PROVE  BaseInv'
  BY Constants, ConstructBase, PushCreatedBase, GivesUpBase, TryAcquiresBase,
     MarkDispatchedBase, PublishBase, TakesBase, StoreIdentityBase, EnqueueBarrierBase,
     RegisterHandlerBase, HandleSignalBase, MarkExecutedBase, ReleaseSignalBase
  DEF Work

LEMMA DeviceBase ==
  ASSUME BaseInv, Device
  PROVE  BaseInv'
  BY SeePredecessorBase, FinishTaskBase, PassBarrierBase, SeeSinkBase DEF Device

LEMMA StutterBase ==
  ASSUME BaseInv, UNCHANGED vars
  PROVE  BaseInv'
  <1>1. UNCHANGED <<state, prevOrdered, lastTask, signalOf, andPreds, freeSignals, created,
                    dispatched, sinks, flag, queue, awaited, published, finished, signalValue,
                    identity, handlers, overlapped, handling, thread>>
    BY DEF vars, taskVars, listVars, deviceVars, batchVars
  <1>2. TypeInv'
    BY <1>1 DEF BaseInv, TypeInv
  <1>3. SignalInv'
    BY <1>1, SignalKept DEF BaseInv, Acquired
  <1>4. QED
    BY <1>1, <1>2, <1>3, DeviceKept DEF BaseInv

LEMMA BaseStep ==
  ASSUME BaseInv, [Next]_vars
  PROVE  BaseInv'
  BY Steps, QuietBase, WorkBase, DeviceBase, StutterBase

\* The lists, the places and the signals, whether or not batches have overlapped.
THEOREM BaseAlways == Spec => []BaseInv
  BY InitBase, BaseStep, PTL DEF Spec

\* CreatedExact, for all programs: the front that tryDispatchBarrierPacket pops
\* is the task it dispatches, and no task is lost from the list or in it twice.
THEOREM CreatedListsAreExact == Spec => []CreatedExact
  <1>1. BaseInv => CreatedExact
    BY DEF BaseInv, CreatedInv
  <1>2. QED
    BY <1>1, BaseAlways, PTL

-----------------------------------------------------------------------------
(* One batch in flight.                                                      *)

\* A step that leaves the resources, the devices and the batches alone.
Calm ==
  /\ UNCHANGED <<signalOf, freeSignals, dispatched, sinks, queue, awaited, finished,
                 identity, handlers, overlapped, handling>>
  /\ \A k \in Thread : thread'[k].batch = thread[k].batch
  /\ \A k \in Thread, label \in {"mark", "store", "barrier", "register"} :
       thread'[k].at = label <=> thread[k].at = label
  /\ \A k \in Thread : thread[k].at = "mark" => thread'[k].task = thread[k].task
  /\ \A u \in Task : state[u] >= 1 => state'[u] = state[u]
  /\ \A u \in Task : state[u] < 1 => state'[u] < 1
  /\ \A g \in Group : CopiesAdjacent(g) => CopiesAdjacent(g)'

LEMMA AdjacentKept ==
  ASSUME prevOrdered' = prevOrdered
  PROVE  \A g \in Group : CopiesAdjacent(g) <=> CopiesAdjacent(g)'
  BY DEF CopiesAdjacent

LEMMA QuietCalm ==
  ASSUME BaseInv, NEW h \in Thread, MovesOnly(h)
  PROVE  Calm
  <1>1. UNCHANGED <<state, prevOrdered, signalOf, freeSignals, dispatched, sinks, queue,
                    awaited, finished, identity, handlers, overlapped, handling>>
    BY DEF MovesOnly, taskVars, deviceVars, batchVars
  <1>2. \A k \in Thread : k # h => thread'[k] = thread[k]
    BY DEF MovesOnly, Others
  <1>3. \A k \in Thread : thread'[k].batch = thread[k].batch
    BY <1>2 DEF MovesOnly
  <1>4. \A k \in Thread, label \in {"mark", "store", "barrier", "register"} :
          thread'[k].at = label <=> thread[k].at = label
    BY <1>2 DEF MovesOnly, Holding
  <1>5. \A k \in Thread : thread[k].at = "mark" => thread'[k].task = thread[k].task
    BY <1>2 DEF MovesOnly, Holding
  <1>6. QED
    BY <1>1, <1>3, <1>4, <1>5, AdjacentKept DEF Calm

LEMMA StutterCalm ==
  ASSUME UNCHANGED vars
  PROVE  Calm
  <1>1. UNCHANGED <<state, prevOrdered, signalOf, freeSignals, dispatched, sinks, queue,
                    awaited, finished, identity, handlers, overlapped, handling, thread>>
    BY DEF vars, taskVars, listVars, deviceVars, batchVars
  <1>2. QED
    BY <1>1, AdjacentKept DEF Calm

\* A thread that comes from, and goes to, a label at which it has no batch.
LEMMA CalmThread ==
  ASSUME NEW h \in Thread, Others(h), thread'[h].batch = thread[h].batch,
         thread[h].at \notin {"mark", "store", "barrier", "register"},
         thread'[h].at \notin {"mark", "store", "barrier", "register"}
  PROVE  /\ \A k \in Thread : thread'[k].batch = thread[k].batch
         /\ \A k \in Thread, label \in {"mark", "store", "barrier", "register"} :
              thread'[k].at = label <=> thread[k].at = label
         /\ \A k \in Thread : thread[k].at = "mark" => thread'[k].task = thread[k].task
  BY DEF Others

LEMMA ConstructCalm ==
  ASSUME BaseInv, NEW a \in App, NEW t \in Task, Construct(a, t)
  PROVE  Calm
  <1> DEFINE g == GroupOf[t]
  <1>1. /\ thread[a].at = "idle" /\ ~Exists(t) /\ t \in Elements(Program[a])
        /\ thread' = [thread EXCEPT ![a] = Frame("push", t, g, "launch")]
        /\ UNCHANGED <<state, signalOf, andPreds, freeSignals, listVars, deviceVars,
                       batchVars, handling>>
        /\ \/ prevOrdered' = prevOrdered
           \/ prevOrdered' = [prevOrdered EXCEPT ![t] = lastTask[g]]
    BY DEF Construct, NextMade, At, Elements
  <1>2. UNCHANGED <<state, signalOf, freeSignals, dispatched, sinks, queue,
                    awaited, finished, identity, handlers, overlapped, handling>>
    BY <1>1 DEF listVars, deviceVars, batchVars
  <1>3. a \in Thread
    BY Constants
  <1>4. Begins(a, "push", t, "launch")
    BY <1>1, <1>3, FrameBegins DEF BaseInv, TypeInv, ThreadType, Label
  <1>5. thread[a].batch = Nothing
    BY <1>1, <1>3 DEF BaseInv, ThreadInv, Carrying
  <1>6. prevOrdered[t] = NoTask
    <2> SUFFICES ASSUME prevOrdered[t] # NoTask PROVE FALSE
      OBVIOUS
    <2>1. PICK b \in App : thread[b].at = "push" /\ thread[b].task = t
      BY <1>1 DEF BaseInv, MakingInv, At
    <2>2. t \in Elements(Program[b])
      BY <2>1 DEF BaseInv, MakingInv, At
    <2>3. a = b
      BY <1>1, <2>2, BarrierAssumption DEF Elements
    <2>4. QED
      BY <1>1, <2>1, <2>3
  <1>7. \A u \in Task : prevOrdered[u] # NoTask => prevOrdered'[u] = prevOrdered[u]
    BY <1>1, <1>6 DEF BaseInv, TypeInv
  <1>8. \A k \in Group : CopiesAdjacent(k) => CopiesAdjacent(k)'
    BY <1>7 DEF CopiesAdjacent
  <1>9. /\ \A k \in Thread : thread'[k].batch = thread[k].batch
        /\ \A k \in Thread, label \in {"mark", "store", "barrier", "register"} :
             thread'[k].at = label <=> thread[k].at = label
        /\ \A k \in Thread : thread[k].at = "mark" => thread'[k].task = thread[k].task
    BY <1>1, <1>3, <1>4, <1>5, CalmThread DEF Begins
  <1>10. QED
    BY <1>2, <1>8, <1>9 DEF Calm

LEMMA PushCreatedCalm ==
  ASSUME BaseInv, NEW a \in App, PushCreated(a)
  PROVE  Calm
  <1> DEFINE t == thread[a].task
  <1>1. /\ thread[a].at = "push"
        /\ UNCHANGED <<prevOrdered, lastTask, signalOf, andPreds, freeSignals,
                       dispatched, sinks, flag, deviceVars, batchVars, handling>>
        /\ \/ state' = [state EXCEPT ![t] = INITIALIZED] /\ Rest(a)
           \/ state' = state /\ Goto(a, "gate")
    BY DEF PushCreated, At
  <1>2. UNCHANGED <<prevOrdered, signalOf, freeSignals, dispatched, sinks, queue,
                    awaited, finished, identity, handlers, overlapped, handling>>
    BY <1>1 DEF deviceVars, batchVars
  <1>3. a \in Thread /\ ThreadType /\ "gate" \in Label
    BY Constants DEF BaseInv, TypeInv, ThreadType, Label
  <1>4. t \in Task /\ thread[a].batch = Nothing /\ ~Exists(t)
    BY <1>1, <1>3 DEF BaseInv, ThreadInv, Carrying, MakingInv, At
  <1>5. state[t] = UNINITIALIZED
    BY <1>4 DEF Exists
  <1>6. Rests(a) \/ Moves(a, "gate")
    BY <1>1, <1>3, RestRests, GotoMoves
  <1>7. /\ \A k \in Thread : thread'[k].batch = thread[k].batch
        /\ \A k \in Thread, label \in {"mark", "store", "barrier", "register"} :
             thread'[k].at = label <=> thread[k].at = label
        /\ \A k \in Thread : thread[k].at = "mark" => thread'[k].task = thread[k].task
    BY <1>1, <1>3, <1>4, <1>6, CalmThread DEF Rests, Moves, Idle, Frame
  <1>8. /\ state[t] = -1 /\ state'[t] \in {-1, 0}
        /\ \A u \in Task : u # t => state'[u] = state[u]
    BY <1>1, <1>4, <1>5 DEF UNINITIALIZED, INITIALIZED, BaseInv, TypeInv
  <1>9. /\ \A u \in Task : state[u] >= 1 => state'[u] = state[u]
        /\ \A u \in Task : state[u] < 1 => state'[u] < 1
    BY <1>8
  <1>10. QED
    BY <1>2, <1>7, <1>9, AdjacentKept DEF Calm

LEMMA GivesUpCalm ==
  ASSUME BaseInv, NEW h \in Thread, GivesUp(h)
  PROVE  Calm
  <1> DEFINE t == thread[h].task
  <1>1. /\ thread[h].at = "try" /\ state[t] < READY
        /\ state' = [state EXCEPT ![t] = INITIALIZED]
        /\ Goto(h, "fail")
        /\ UNCHANGED <<prevOrdered, lastTask, signalOf, freeSignals, listVars, deviceVars,
                       batchVars, handling>>
    BY DEF GivesUp, TryWaits, TryLacksSignal, At
  <1>2. UNCHANGED <<prevOrdered, signalOf, freeSignals, dispatched, sinks, queue,
                    awaited, finished, identity, handlers, overlapped, handling>>
    BY <1>1 DEF listVars, deviceVars, batchVars
  <1>3. t \in Task
    BY <1>1 DEF BaseInv, ThreadInv
  <1>4. Moves(h, "fail")
    BY <1>1, GotoMoves DEF BaseInv, TypeInv, ThreadType, Label, TryLabel
  <1>5. /\ \A k \in Thread : thread'[k].batch = thread[k].batch
        /\ \A k \in Thread, label \in {"mark", "store", "barrier", "register"} :
             thread'[k].at = label <=> thread[k].at = label
        /\ \A k \in Thread : thread[k].at = "mark" => thread'[k].task = thread[k].task
    BY <1>1, <1>4, CalmThread DEF Moves
  <1>6. /\ state[t] < 1 /\ state'[t] = 0
        /\ \A u \in Task : u # t => state'[u] = state[u]
    BY <1>1, <1>3 DEF READY, INITIALIZED, BaseInv, TypeInv
  <1>7. /\ \A u \in Task : state[u] >= 1 => state'[u] = state[u]
        /\ \A u \in Task : state[u] < 1 => state'[u] < 1
    <2>1. state[t] \in Int
      BY <1>3, StateNumbers DEF BaseInv
    <2>2. ~(state[t] >= 1)
      BY <1>6, <2>1
    <2>3. QED
      BY <1>6, <2>2
  <1>8. QED
    BY <1>2, <1>5, <1>7, AdjacentKept DEF Calm

LEMMA PublishCalm ==
  ASSUME BaseInv, NEW h \in Thread, Publish(h)
  PROVE  Calm
  <1>1. /\ thread[h].at = "publish"
        /\ EndTry(h, TRUE)
        /\ UNCHANGED <<taskVars, listVars, queue, awaited, finished, signalValue, batchVars,
                       handling>>
    BY DEF Publish, At
  <1>2. UNCHANGED <<state, prevOrdered, signalOf, freeSignals, dispatched, sinks, queue,
                    awaited, finished, identity, handlers, overlapped, handling>>
    BY <1>1 DEF taskVars, listVars, batchVars
  <1>3. thread[h].batch = Nothing /\ thread[h].group = GroupOf[thread[h].task]
    BY <1>1 DEF BaseInv, ThreadInv, Carrying
  <1>4. Ends(h)
    BY <1>1, EndTryEnds DEF BaseInv, TypeInv, ThreadType
  <1>5. /\ \A k \in Thread : thread'[k].batch = thread[k].batch
        /\ \A k \in Thread, label \in {"mark", "store", "barrier", "register"} :
             thread'[k].at = label <=> thread[k].at = label
        /\ \A k \in Thread : thread[k].at = "mark" => thread'[k].task = thread[k].task
    BY <1>1, <1>3, <1>4, EndsWhere, CalmThread
  <1>6. QED
    BY <1>2, <1>5, AdjacentKept DEF Calm

\* The steps that are not calm.
Busy ==
  \/ \E h \in Thread :
       \/ TryAcquires(h) \/ MarkDispatched(h)
       \/ Takes(h) \/ StoreIdentity(h) \/ EnqueueBarrier(h) \/ RegisterHandler(h)
  \/ \E b \in handlers : HandleSignal(b)
  \/ MarkExecuted
  \/ ReleaseSignal
  \/ \E t, p \in Task : SeePredecessor(t, p)
  \/ \E t \in Task : FinishTask(t)
  \/ \E q \in Queue : PassBarrier(q)
  \/ \E q \in Queue, p \in Task : SeeSink(q, p)

LEMMA CalmOrBusy ==
  ASSUME BaseInv, [Next]_vars
  PROVE  Calm \/ Busy
  <1>1. CASE Work
    BY <1>1, ConstructCalm, PushCreatedCalm, GivesUpCalm, PublishCalm DEF Work, Busy
  <1>2. CASE Device
    BY <1>2 DEF Device, Busy
  <1>3. QED
    BY <1>1, <1>2, Steps, QuietCalm, StutterCalm

-----------------------------------------------------------------------------
(* The queues.                                                               *)

\* The packet at place i of queue q is gone.
Drops(q, i) ==
  /\ i \in DOMAIN queue[q]
  /\ DOMAIN queue'[q] = 1..Len(queue[q]) - 1
  /\ \A j \in 1..Len(queue[q]) - 1 :
       queue'[q][j] = IF j < i THEN queue[q][j] ELSE queue[q][j + 1]
  /\ \A r \in Queue : r # q => queue'[r] = queue[r]

\* The packets of a set are new, at the end of queue q.
Grows(q, S) ==
  /\ \A i \in DOMAIN queue[q] : i \in DOMAIN queue'[q] /\ queue'[q][i] = queue[q][i]
  /\ \A i \in DOMAIN queue'[q] : i \notin DOMAIN queue[q] =>
       /\ queue'[q][i] \in S
       /\ \A j \in DOMAIN queue[q] : j < i
  /\ \A p \in S : \E i \in DOMAIN queue'[q] : i \notin DOMAIN queue[q] /\ queue'[q][i] = p
  /\ \A i, j \in DOMAIN queue'[q] :
       i \notin DOMAIN queue[q] /\ j \notin DOMAIN queue[q] /\ queue'[q][i] = queue'[q][j] => i = j
  /\ \A r \in Queue : r # q => queue'[r] = queue[r]

OldPlace(i, j) == IF j < i THEN j ELSE j + 1
NewPlace(i, k) == IF k < i THEN k ELSE k - 1

LEMMA QueueList ==
  ASSUME TypeInv, NEW q \in Queue
  PROVE  /\ queue[q] \in Seq(PacketSet)
         /\ DOMAIN queue[q] = 1..Len(queue[q]) /\ Len(queue[q]) \in Nat
  <1>1. queue[q] \in Seq(PacketSet)
    BY DEF TypeInv
  <1>2. QED
    BY <1>1, InElements

LEMMA DropPlaces ==
  ASSUME TypeInv, NEW q \in Queue, NEW i, Drops(q, i)
  PROVE  /\ i \in Int
         /\ \A j \in DOMAIN queue'[q] :
              /\ j \in Int
              /\ OldPlace(i, j) \in DOMAIN queue[q] /\ OldPlace(i, j) # i
              /\ queue'[q][j] = queue[q][OldPlace(i, j)]
         /\ \A j, k \in DOMAIN queue'[q] :
              /\ OldPlace(i, j) = OldPlace(i, k) => j = k
              /\ OldPlace(i, j) < OldPlace(i, k) => j < k
         /\ \A k \in DOMAIN queue[q] : k # i =>
              /\ NewPlace(i, k) \in DOMAIN queue'[q]
              /\ queue'[q][NewPlace(i, k)] = queue[q][k]
         /\ \A j, k \in DOMAIN queue[q] : j # i /\ k # i /\ j < k =>
              NewPlace(i, j) < NewPlace(i, k)
  <1>1. PICK n \in Nat : n = Len(queue[q]) /\ DOMAIN queue[q] = 1..n
    BY QueueList
  <1>2. /\ i \in 1..n /\ DOMAIN queue'[q] = 1..n - 1
        /\ \A j \in 1..n - 1 : queue'[q][j] = IF j < i THEN queue[q][j] ELSE queue[q][j + 1]
    BY <1>1 DEF Drops
  <1>3. \A j \in 1..n - 1 :
          /\ j \in Int
          /\ OldPlace(i, j) \in 1..n /\ OldPlace(i, j) # i
          /\ queue'[q][j] = queue[q][OldPlace(i, j)]
    BY <1>2 DEF OldPlace
  <1>4. \A j, k \in 1..n - 1 :
          /\ OldPlace(i, j) = OldPlace(i, k) => j = k
          /\ OldPlace(i, j) < OldPlace(i, k) => j < k
    BY <1>2 DEF OldPlace
  <1>5. \A k \in 1..n : k # i =>
          /\ NewPlace(i, k) \in 1..n - 1
          /\ OldPlace(i, NewPlace(i, k)) = k
    BY <1>2 DEF OldPlace, NewPlace
  <1>6. \A k \in 1..n : k # i => queue'[q][NewPlace(i, k)] = queue[q][k]
    BY <1>3, <1>5
  <1>7. \A j, k \in 1..n : j # i /\ k # i /\ j < k => NewPlace(i, j) < NewPlace(i, k)
    BY <1>2 DEF NewPlace
  <1>8. i \in Int /\ DOMAIN queue[q] = 1..n /\ DOMAIN queue'[q] = 1..n - 1
    BY <1>1, <1>2
  <1>9. \A j \in DOMAIN queue'[q] :
          /\ j \in Int
          /\ OldPlace(i, j) \in DOMAIN queue[q] /\ OldPlace(i, j) # i
          /\ queue'[q][j] = queue[q][OldPlace(i, j)]
    BY <1>3, <1>8
  <1>10. \A j, k \in DOMAIN queue'[q] :
           /\ OldPlace(i, j) = OldPlace(i, k) => j = k
           /\ OldPlace(i, j) < OldPlace(i, k) => j < k
    BY <1>4, <1>8
  <1>11. \A k \in DOMAIN queue[q] : k # i =>
           /\ NewPlace(i, k) \in DOMAIN queue'[q]
           /\ queue'[q][NewPlace(i, k)] = queue[q][k]
    BY <1>5, <1>6, <1>8
  <1>12. \A j, k \in DOMAIN queue[q] : j # i /\ k # i /\ j < k =>
           NewPlace(i, j) < NewPlace(i, k)
    BY <1>7, <1>8
  <1>13. QED
    BY <1>8, <1>9, <1>10, <1>11, <1>12

LEMMA DropSinks ==
  ASSUME TypeInv, NEW q \in Queue, NEW i, Drops(q, i)
  PROVE  /\ NoSinksPacket => NoSinksPacket'
         /\ OneSinksPacket => OneSinksPacket'
         /\ OneSinksPacket /\ IsSinks(q, i) => NoSinksPacket'
         /\ (IsSinks(q, i) => queue[q][i].sinks = {}) =>
              \A t \in Task : WaitedFor(t) => WaitedFor(t)'
  <1> DEFINE old(r, j) == IF r = q THEN OldPlace(i, j) ELSE j
  <1>1. \A r \in Queue : \A j \in DOMAIN queue'[r] :
          /\ old(r, j) \in DOMAIN queue[r] /\ queue'[r][j] = queue[r][old(r, j)]
          /\ r = q => old(r, j) # i
    <2> SUFFICES ASSUME NEW r \in Queue, NEW j \in DOMAIN queue'[r]
                 PROVE  /\ old(r, j) \in DOMAIN queue[r]
                        /\ queue'[r][j] = queue[r][old(r, j)]
                        /\ r = q => old(r, j) # i
      OBVIOUS
    <2>1. CASE r = q
      BY <2>1, DropPlaces
    <2>2. CASE r # q
      BY <2>2 DEF Drops
    <2>3. QED
      BY <2>1, <2>2
  <1>2. \A r \in Queue : \A j, k \in DOMAIN queue'[r] : old(r, j) = old(r, k) => j = k
    BY DropPlaces
  <1>3. \A r \in Queue : \A j \in DOMAIN queue'[r] :
          IsSinks(r, j)' => IsSinks(r, old(r, j))
    BY <1>1 DEF IsSinks
  <1> HIDE DEF old
  <1>4. NoSinksPacket => NoSinksPacket'
    BY <1>1, <1>3 DEF NoSinksPacket
  <1>5. OneSinksPacket => OneSinksPacket'
    BY <1>1, <1>2, <1>3 DEF OneSinksPacket
  <1>6. OneSinksPacket /\ IsSinks(q, i) => NoSinksPacket'
    BY <1>1, <1>3 DEF OneSinksPacket, NoSinksPacket, Drops
  <1>7. ASSUME IsSinks(q, i) => queue[q][i].sinks = {}, NEW t \in Task, WaitedFor(t)
        PROVE  WaitedFor(t)'
    <2>1. PICK r \in Queue : \E k \in DOMAIN queue[r] : IsSinks(r, k) /\ t \in queue[r][k].sinks
      BY <1>7 DEF WaitedFor
    <2>2. PICK k \in DOMAIN queue[r] : IsSinks(r, k) /\ t \in queue[r][k].sinks
      BY <2>1
    <2>3. \E j \in DOMAIN queue'[r] : queue'[r][j] = queue[r][k]
      <3>1. CASE r = q
        <4>1. k # i
          BY <1>7, <2>2, <3>1
        <4>2. QED
          BY <2>2, <3>1, <4>1, DropPlaces
      <3>2. CASE r # q
        BY <2>2, <3>2 DEF Drops
      <3>3. QED
        BY <3>1, <3>2
    <2>4. QED
      BY <2>2, <2>3 DEF WaitedFor, IsSinks
  <1>8. QED
    BY <1>4, <1>5, <1>6, <1>7

LEMMA GrowSinks ==
  ASSUME TypeInv, NEW q \in Queue, NEW S, Grows(q, S)
  PROVE  /\ (\A p \in S : p.type # "sinks") =>
              (NoSinksPacket => NoSinksPacket') /\ (OneSinksPacket => OneSinksPacket')
         /\ \A t \in Task : WaitedFor(t) => WaitedFor(t)'
         /\ \A T \in SUBSET Task : SinksPacket(T) \in S => \A t \in T : WaitedFor(t)'
  <1>1. \A r \in Queue : \A i \in DOMAIN queue[r] :
          i \in DOMAIN queue'[r] /\ queue'[r][i] = queue[r][i]
    BY DEF Grows
  <1>2. \A t \in Task : WaitedFor(t) => WaitedFor(t)'
    BY <1>1 DEF WaitedFor, IsSinks
  <1>3. ASSUME \A p \in S : p.type # "sinks"
        PROVE  (NoSinksPacket => NoSinksPacket') /\ (OneSinksPacket => OneSinksPacket')
    <2>1. \A r \in Queue : \A i \in DOMAIN queue'[r] :
            IsSinks(r, i)' => i \in DOMAIN queue[r] /\ IsSinks(r, i)
      BY <1>3 DEF Grows, IsSinks
    <2>2. QED
      BY <2>1 DEF NoSinksPacket, OneSinksPacket
  <1>4. ASSUME NEW T \in SUBSET Task, SinksPacket(T) \in S, NEW t \in T
        PROVE  WaitedFor(t)'
    <2>1. PICK i \in DOMAIN queue'[q] : queue'[q][i] = SinksPacket(T)
      BY <1>4 DEF Grows
    <2>2. QED
      BY <1>4, <2>1 DEF WaitedFor, IsSinks, SinksPacket
  <1>5. QED
    BY <1>2, <1>3, <1>4

\* The tasks of a packet whose sinks the device sees.
LEMMA SeeSinkSinks ==
  ASSUME TypeInv, NEW q \in Queue, NEW p \in Task, SeeSink(q, p)
  PROVE  /\ \A r \in Queue : /\ DOMAIN queue'[r] = DOMAIN queue[r]
                             /\ \A j \in DOMAIN queue[r] :
                                  \/ queue'[r][j] = queue[r][j]
                                  \/ IsSinks(r, j) /\ IsSinks(r, j)'
         /\ NoSinksPacket <=> NoSinksPacket'
         /\ OneSinksPacket => OneSinksPacket'
         /\ \A t \in Task : t # p /\ WaitedFor(t) => WaitedFor(t)'
         /\ AtZero(p)
  <1>1. PICK i \in DOMAIN queue[q] :
          /\ p \in queue[q][i].sinks /\ AtZero(p)
          /\ queue[q][i].type = "sinks"
          /\ \A r \in Queue : r # q => queue'[r] = queue[r]
          /\ DOMAIN queue'[q] = DOMAIN queue[q]
          /\ \A j \in DOMAIN queue[q] : j # i => queue'[q][j] = queue[q][j]
          /\ queue'[q][i] = SinksPacket(queue[q][i].sinks \ {p})
    BY SeeSinkFacts
  <1>2. \A r \in Queue : DOMAIN queue'[r] = DOMAIN queue[r]
    BY <1>1
  <1>3. IsSinks(q, i) /\ IsSinks(q, i)' /\ queue'[q][i].sinks = queue[q][i].sinks \ {p}
    BY <1>1 DEF IsSinks, SinksPacket
  <1>4. \A r \in Queue : \A j \in DOMAIN queue[r] :
          \/ queue'[r][j] = queue[r][j]
          \/ r = q /\ j = i
    BY <1>1
  <1>5. \A r \in Queue : \A j \in DOMAIN queue[r] : IsSinks(r, j) <=> IsSinks(r, j)'
    BY <1>2, <1>3, <1>4 DEF IsSinks
  <1>6. (NoSinksPacket <=> NoSinksPacket') /\ (OneSinksPacket => OneSinksPacket')
    BY <1>2, <1>5 DEF NoSinksPacket, OneSinksPacket
  <1>7. ASSUME NEW t \in Task, t # p, WaitedFor(t)
        PROVE  WaitedFor(t)'
    <2>1. PICK r \in Queue : \E k \in DOMAIN queue[r] : IsSinks(r, k) /\ t \in queue[r][k].sinks
      BY <1>7 DEF WaitedFor
    <2>2. PICK k \in DOMAIN queue[r] : IsSinks(r, k) /\ t \in queue[r][k].sinks
      BY <2>1
    <2>3. IsSinks(r, k)' /\ t \in queue'[r][k].sinks /\ k \in DOMAIN queue'[r]
      BY <1>2, <1>3, <1>4, <1>5, <1>7, <2>2
    <2>4. QED
      BY <2>3 DEF WaitedFor
  <1>8. QED
    BY <1>1, <1>2, <1>3, <1>4, <1>6, <1>7

\* How each step of a device, or of a thread, changes the queues.
LEMMA PassBarrierDrops ==
  ASSUME TypeInv, NEW q \in Queue, PassBarrier(q)
  PROVE  Drops(q, 1)
  <1>1. /\ queue[q] \in Seq(PacketSet) /\ queue[q] # <<>>
        /\ queue'[q] = Tail(queue[q])
        /\ \A r \in Queue : r # q => queue'[r] = queue[r]
    BY PassBarrierFacts
  <1>2. PICK c \in Seq(PacketSet) : c = queue[q] /\ c # <<>>
    BY <1>1
  <1>3. /\ DOMAIN c = 1..Len(c) /\ DOMAIN Tail(c) = 1..Len(c) - 1 /\ 1 \in DOMAIN c
        /\ \A j \in DOMAIN Tail(c) : Tail(c)[j] = c[j + 1]
    BY <1>2, TailFacts
  <1>4. \A j \in 1..Len(c) - 1 : Tail(c)[j] = IF j < 1 THEN c[j] ELSE c[j + 1]
    <2>1. \A j \in 1..Len(c) - 1 : ~(j < 1)
      BY <1>2
    <2>2. QED
      BY <1>3, <2>1
  <1>5. QED
    BY <1>1, <1>2, <1>3, <1>4 DEF Drops

LEMMA FinishTaskDrops ==
  ASSUME BaseInv, NEW t \in Task, FinishTask(t), KindOf[t] = "gpu"
  PROVE  \E i \in DOMAIN queue[QueueOf[t]] : RunnableAt(t, i) /\ Drops(QueueOf[t], i)
  <1>1. PICK q \in Queue : q = QueueOf[t]
    BY Constants
  <1>2. PICK i \in DOMAIN queue[q] :
          /\ RunnableAt(t, i)
          /\ queue'[q] = RemoveAt(queue[q], i)
          /\ \A r \in Queue : r # q => queue'[r] = queue[r]
    BY <1>1, FinishTaskFacts
  <1>3. queue[q] \in Seq(PacketSet)
    BY QueueList DEF BaseInv
  <1>4. /\ DOMAIN RemoveAt(queue[q], i) = 1..Len(queue[q]) - 1
        /\ \A j \in 1..Len(queue[q]) - 1 :
             RemoveAt(queue[q], i)[j] = IF j < i THEN queue[q][j] ELSE queue[q][j + 1]
    BY <1>3, RemoveAtFacts
  <1>5. Drops(q, i)
    BY <1>2, <1>4 DEF Drops
  <1>6. QED
    BY <1>1, <1>2, <1>5

\* The packets of a new task.
NewPackets(t) ==
  IF KindOf[t] = "data" THEN {}
  ELSE IF AndPredecessors(t) = {} THEN {TaskPacket(t)}
  ELSE {DepsPacket(t), TaskPacket(t)}

LEMMA AcquiresGrows ==
  ASSUME BaseInv, NEW h \in Thread, TryAcquires(h)
  PROVE  Grows(QueueOf[thread[h].task], NewPackets(thread[h].task))
  <1>1. PICK t \in Task : t = thread[h].task
    BY AcquiresFacts
  <1>2. PICK q \in Queue : q = QueueOf[t]
    BY Constants
  <1>3. PICK c \in Seq(PacketSet) : c = queue[q]
    BY QueueList DEF BaseInv
  <1>4. PICK d \in Seq(PacketSet) : d = Packets(t)
    BY PacketsTyped
  <1>5. queue'[q] = c \o d /\ \A r \in Queue : r # q => queue'[r] = queue[r]
    BY <1>1, <1>2, <1>3, <1>4, AcquiresFacts
  <1>6. /\ DOMAIN c = 1..Len(c) /\ Len(c) \in Nat
        /\ DOMAIN d = 1..Len(d) /\ Len(d) \in Nat
    BY InElements
  <1>7. /\ c \o d \in Seq(PacketSet)
        /\ DOMAIN (c \o d) = 1..Len(c) + Len(d)
        /\ \A i \in 1..Len(c) + Len(d) :
             (c \o d)[i] = IF i <= Len(c) THEN c[i] ELSE d[i - Len(c)]
    BY <1>6, ConcatProperties
  <1>8. /\ \A i \in DOMAIN d : d[i] \in NewPackets(t)
        /\ \A p \in NewPackets(t) : \E i \in DOMAIN d : d[i] = p
        /\ Injective(d)
    <2>1. CASE KindOf[t] = "data"
      BY <1>4, <2>1, EmptyList DEF Packets, NewPackets, Injective
    <2>2. CASE KindOf[t] # "data" /\ AndPredecessors(t) = {}
      <3>1. d = <<TaskPacket(t)>> /\ NewPackets(t) = {TaskPacket(t)}
        BY <1>4, <2>2 DEF Packets, NewPackets
      <3>2. DOMAIN d = {1} /\ d[1] = TaskPacket(t)
        BY <3>1
      <3>3. QED
        BY <3>1, <3>2 DEF Injective
    <2>3. CASE KindOf[t] # "data" /\ AndPredecessors(t) # {}
      <3>1. d = <<DepsPacket(t), TaskPacket(t)>>
            /\ NewPackets(t) = {DepsPacket(t), TaskPacket(t)}
        BY <1>4, <2>3 DEF Packets, NewPackets
      <3>2. DOMAIN d = {1, 2} /\ d[1] = DepsPacket(t) /\ d[2] = TaskPacket(t)
        BY <3>1
      <3>3. DepsPacket(t) # TaskPacket(t)
        BY DEF DepsPacket, TaskPacket
      <3>4. QED
        BY <3>1, <3>2, <3>3 DEF Injective
    <2>4. QED
      BY <2>1, <2>2, <2>3
  <1>9. \A i \in DOMAIN c : i \in DOMAIN (c \o d) /\ (c \o d)[i] = c[i]
    BY <1>6, <1>7
  <1>10. ASSUME NEW i \in DOMAIN (c \o d), i \notin DOMAIN c
         PROVE  /\ (c \o d)[i] \in NewPackets(t)
                /\ \A j \in DOMAIN c : j < i
    <2>1. i - Len(c) \in DOMAIN d /\ ~(i <= Len(c)) /\ i \in Int
      BY <1>6, <1>7, <1>10
    <2>2. QED
      BY <1>6, <1>7, <1>8, <1>10, <2>1
  <1>11. ASSUME NEW p \in NewPackets(t)
         PROVE  \E i \in DOMAIN (c \o d) : i \notin DOMAIN c /\ (c \o d)[i] = p
    <2>1. PICK i \in DOMAIN d : d[i] = p
      BY <1>8
    <2>2. /\ i + Len(c) \in DOMAIN (c \o d) /\ ~(i + Len(c) <= Len(c))
          /\ i + Len(c) - Len(c) = i /\ i + Len(c) \notin DOMAIN c
      BY <1>6, <1>7
    <2>3. (c \o d)[i + Len(c)] = d[i]
      BY <1>7, <2>2
    <2>4. QED
      BY <2>1, <2>2, <2>3
  <1>12. ASSUME NEW i \in DOMAIN (c \o d), NEW j \in DOMAIN (c \o d),
                i \notin DOMAIN c, j \notin DOMAIN c, (c \o d)[i] = (c \o d)[j]
         PROVE  i = j
    <2>1. /\ i - Len(c) \in DOMAIN d /\ ~(i <= Len(c)) /\ i \in Int
          /\ j - Len(c) \in DOMAIN d /\ ~(j <= Len(c)) /\ j \in Int
      BY <1>6, <1>7, <1>12
    <2>2. d[i - Len(c)] = d[j - Len(c)]
      BY <1>7, <1>12, <2>1
    <2>3. i - Len(c) = j - Len(c)
      BY <1>8, <2>1, <2>2 DEF Injective
    <2>4. QED
      BY <1>6, <2>1, <2>3
  <1> DEFINE n == c \o d
             S == NewPackets(t)
  <1>13. /\ \A i \in DOMAIN c : i \in DOMAIN n /\ n[i] = c[i]
         /\ \A i \in DOMAIN n : i \notin DOMAIN c =>
              n[i] \in S /\ \A j \in DOMAIN c : j < i
         /\ \A p \in S : \E i \in DOMAIN n : i \notin DOMAIN c /\ n[i] = p
         /\ \A i, j \in DOMAIN n :
              i \notin DOMAIN c /\ j \notin DOMAIN c /\ n[i] = n[j] => i = j
    BY <1>9, <1>10, <1>11, <1>12
  <1> HIDE DEF n, S
  <1>14. queue[q] = c /\ queue'[q] = n /\ \A r \in Queue : r # q => queue'[r] = queue[r]
    BY <1>3, <1>5 DEF n
  <1>15. Grows(q, S)
    BY <1>13, <1>14 DEF Grows
  <1>16. QED
    BY <1>1, <1>2, <1>15 DEF S

LEMMA EnqueueGrows ==
  ASSUME BaseInv, NEW h \in Thread, EnqueueBarrier(h)
  PROVE  \E q \in Queue : /\ Grows(q, {SinksPacket(thread[h].batch.sinks)})
                          /\ NoSinksPacket => OneSinksPacket'
  <1> DEFINE S == thread[h].batch.sinks
  <1>1. S \in SUBSET Task
    BY DEF BaseInv, TypeInv
  <1>2. PICK t \in S : queue' = [queue EXCEPT ![QueueOf[t]] = Append(@, SinksPacket(S))]
    BY DEF EnqueueBarrier
  <1>3. PICK q \in Queue : q = QueueOf[t]
    BY <1>1, Constants
  <1>4. PICK c \in Seq(PacketSet) : c = queue[q]
    BY QueueList DEF BaseInv
  <1>5. PICK p \in PacketSet : p = SinksPacket(S)
    BY <1>1, PacketTypes
  <1>6. queue'[q] = Append(c, p) /\ \A r \in Queue : r # q => queue'[r] = queue[r]
    BY <1>2, <1>3, <1>4, <1>5 DEF BaseInv, TypeInv
  <1>7. /\ DOMAIN c = 1..Len(c) /\ Len(c) \in Nat /\ DOMAIN Append(c, p) = 1..Len(c) + 1
        /\ \A i \in DOMAIN c : Append(c, p)[i] = c[i]
        /\ Append(c, p)[Len(c) + 1] = p
    BY AppendFacts, InElements
  <1>8. /\ \A i \in DOMAIN Append(c, p) : i \in DOMAIN c \/ i = Len(c) + 1
        /\ \A j \in DOMAIN c : j < Len(c) + 1 /\ j \in DOMAIN Append(c, p)
        /\ Len(c) + 1 \in DOMAIN Append(c, p) /\ Len(c) + 1 \notin DOMAIN c
    BY <1>7
  <1>9. Grows(q, {p})
    BY <1>4, <1>6, <1>7, <1>8 DEF Grows
  <1>10. NoSinksPacket => OneSinksPacket'
    <2> SUFFICES ASSUME NoSinksPacket PROVE OneSinksPacket'
      OBVIOUS
    <2>1. \A r \in Queue : \A i \in DOMAIN queue'[r] : IsSinks(r, i)' => r = q /\ i = Len(c) + 1
      BY <1>4, <1>6, <1>7, <1>8 DEF NoSinksPacket, IsSinks
    <2>2. QED
      BY <2>1 DEF OneSinksPacket
  <1>11. QED
    BY <1>5, <1>9, <1>10

-----------------------------------------------------------------------------
(* What each of the steps that are not calm does.                            *)

LEMMA MarkDispatchedFacts ==
  ASSUME BaseInv, NEW h \in Thread, MarkDispatched(h)
  PROVE  \E t \in Task :
           /\ thread[h].at = "mark" /\ thread[h].task = t /\ thread'[h].at = "publish"
           /\ thread'[h].batch = thread[h].batch /\ Others(h)
           /\ state'[t] = 2 /\ \A u \in Task : u # t => state'[u] = state[u]
           /\ UNCHANGED <<prevOrdered, signalOf, freeSignals, dispatched, sinks, queue, awaited,
                          finished, identity, handlers, overlapped, handling>>
  <1> DEFINE t == thread[h].task
  <1>1. /\ thread[h].at = "mark"
        /\ state' = [state EXCEPT ![t] = DISPATCHED]
        /\ Goto(h, "publish")
        /\ UNCHANGED <<prevOrdered, lastTask, signalOf, andPreds, freeSignals, listVars,
                       deviceVars, batchVars, handling>>
    BY DEF MarkDispatched, At
  <1>2. UNCHANGED <<prevOrdered, signalOf, freeSignals, dispatched, sinks, queue, awaited,
                    finished, identity, handlers, overlapped, handling>>
    BY <1>1 DEF listVars, deviceVars, batchVars
  <1>3. t \in Task
    BY <1>1 DEF BaseInv, ThreadInv
  <1>4. Moves(h, "publish")
    BY <1>1, GotoMoves DEF BaseInv, TypeInv, ThreadType, Label, TryLabel
  <1>5. state'[t] = 2 /\ \A u \in Task : u # t => state'[u] = state[u]
    BY <1>1, <1>3 DEF DISPATCHED, BaseInv, TypeInv
  <1>6. QED
    BY <1>1, <1>2, <1>3, <1>4, <1>5 DEF Moves

LEMMA TakesFacts ==
  ASSUME BaseInv, NEW h \in Thread, Takes(h)
  PROVE  \E g \in Group :
           /\ thread[h].at = "take" /\ thread'[h].at = "store" /\ Others(h)
           /\ thread[h].batch = Nothing
           /\ thread'[h].batch = [sinks |-> sinks[g], tasks |-> dispatched[g]]
           /\ sinks'[g] = {} /\ dispatched'[g] = <<>>
           /\ \A k \in Group : k # g => sinks'[k] = sinks[k] /\ dispatched'[k] = dispatched[k]
           /\ UNCHANGED <<state, prevOrdered, signalOf, freeSignals, queue, awaited,
                          finished, identity, handlers, overlapped, handling>>
  <1> DEFINE g == thread[h].group
             b == [sinks |-> sinks[g], tasks |-> dispatched[g]]
  <1>1. /\ thread[h].at = "take"
        /\ thread' = [thread EXCEPT ![h] = [@ EXCEPT !.at = "store", !.batch = b]]
        /\ sinks' = [sinks EXCEPT ![g] = {}]
        /\ dispatched' = [dispatched EXCEPT ![g] = <<>>]
        /\ UNCHANGED <<taskVars, created, flag, deviceVars, batchVars, handling>>
    BY DEF Takes, TakeSinks, At
  <1>2. UNCHANGED <<state, prevOrdered, signalOf, freeSignals, queue, awaited,
                    finished, identity, handlers, overlapped, handling>>
    BY <1>1 DEF taskVars, deviceVars, batchVars
  <1>3. g \in Group /\ thread[h].batch = Nothing
    BY <1>1, Constants DEF BaseInv, ThreadInv, Carrying
  <1>4. /\ thread'[h].at = "store" /\ Others(h) /\ thread'[h].batch = b
    BY <1>1 DEF Others, BaseInv, TypeInv
  <1>5. /\ sinks'[g] = {} /\ dispatched'[g] = <<>>
        /\ \A k \in Group : k # g => sinks'[k] = sinks[k] /\ dispatched'[k] = dispatched[k]
    BY <1>1, <1>3 DEF BaseInv, TypeInv
  <1>6. QED
    BY <1>1, <1>2, <1>3, <1>4, <1>5

LEMMA StoreIdentityFacts ==
  ASSUME BaseInv, NEW h \in Thread, StoreIdentity(h)
  PROVE  /\ thread[h].at = "store" /\ thread'[h].at = "barrier"
         /\ thread'[h].batch = thread[h].batch /\ Others(h)
         /\ ~overlapped' => ~overlapped /\ ~InFlight
         /\ identity' = 1
         /\ UNCHANGED <<state, prevOrdered, signalOf, freeSignals, dispatched, sinks, queue,
                        awaited, finished, handlers, handling>>
  <1>1. /\ thread[h].at = "store" /\ Goto(h, "barrier")
        /\ overlapped' = (overlapped \/ InFlight) /\ identity' = 1
        /\ UNCHANGED <<taskVars, listVars, deviceVars, handlers, handling>>
    BY DEF StoreIdentity, At
  <1>2. UNCHANGED <<state, prevOrdered, signalOf, freeSignals, dispatched, sinks, queue,
                    awaited, finished, handlers, handling>>
    BY <1>1 DEF taskVars, listVars, deviceVars
  <1>3. Moves(h, "barrier")
    BY <1>1, GotoMoves DEF BaseInv, TypeInv, ThreadType, Label, TryLabel
  <1>4. QED
    BY <1>1, <1>2, <1>3 DEF Moves

LEMMA EnqueueBarrierFacts ==
  ASSUME BaseInv, NEW h \in Thread, EnqueueBarrier(h)
  PROVE  /\ thread[h].at = "barrier" /\ thread'[h].at = "register"
         /\ thread'[h].batch = thread[h].batch /\ Others(h)
         /\ UNCHANGED <<state, prevOrdered, signalOf, freeSignals, dispatched, sinks,
                        awaited, finished, identity, handlers, overlapped, handling>>
  <1>1. /\ thread[h].at = "barrier" /\ Goto(h, "register")
        /\ UNCHANGED <<taskVars, listVars, awaited, published, finished, signalValue,
                       batchVars, handling>>
    BY DEF EnqueueBarrier, At
  <1>2. UNCHANGED <<state, prevOrdered, signalOf, freeSignals, dispatched, sinks,
                    awaited, finished, identity, handlers, overlapped, handling>>
    BY <1>1 DEF taskVars, listVars, batchVars
  <1>3. Moves(h, "register")
    BY <1>1, GotoMoves DEF BaseInv, TypeInv, ThreadType, Label, TryLabel
  <1>4. QED
    BY <1>1, <1>2, <1>3 DEF Moves

LEMMA RegisterHandlerFacts ==
  ASSUME BaseInv, NEW h \in Thread, RegisterHandler(h)
  PROVE  /\ thread[h].at = "register" /\ thread'[h].at \in {"idle", "waiting"}
         /\ thread'[h].batch = Nothing /\ Others(h)
         /\ handlers' = handlers \cup {BatchOf(h)}
         /\ UNCHANGED <<state, prevOrdered, signalOf, freeSignals, dispatched, sinks, queue,
                        awaited, finished, identity, overlapped, handling>>
  <1>1. /\ thread[h].at = "register" /\ handlers' = handlers \cup {BatchOf(h)}
        /\ \/ thread' = [thread EXCEPT ![h] = [@ EXCEPT !.at = "waiting", !.batch = Nothing]]
           \/ Rest(h)
        /\ UNCHANGED <<taskVars, listVars, deviceVars, identity, overlapped, handling>>
    BY DEF RegisterHandler, At, BatchOf
  <1>2. UNCHANGED <<state, prevOrdered, signalOf, freeSignals, dispatched, sinks, queue,
                    awaited, finished, identity, overlapped, handling>>
    BY <1>1 DEF taskVars, listVars, deviceVars
  <1>3. thread'[h].at \in {"idle", "waiting"} /\ thread'[h].batch = Nothing /\ Others(h)
    <2>1. CASE Rest(h)
      BY <2>1, RestRests DEF Rests, Idle, Frame, BaseInv, TypeInv, ThreadType
    <2>2. CASE thread' = [thread EXCEPT ![h] = [@ EXCEPT !.at = "waiting", !.batch = Nothing]]
      BY <2>2 DEF Others, BaseInv, TypeInv
    <2>3. QED
      BY <1>1, <2>1, <2>2
  <1>4. QED
    BY <1>1, <1>2, <1>3

LEMMA HandleSignalFacts ==
  ASSUME BaseInv, NEW b \in handlers, HandleSignal(b)
  PROVE  /\ thread[Callback].at = "idle" /\ thread'[Callback].at = "execute"
         /\ thread'[Callback].batch = thread[Callback].batch /\ Others(Callback)
         /\ identity = 0 /\ handlers' = handlers \ {b} /\ handling' = b
         /\ UNCHANGED <<state, prevOrdered, signalOf, freeSignals, dispatched, sinks, queue,
                        awaited, finished, identity, overlapped>>
  <1> DEFINE h == Callback
             t == b[1]
  <1>1. /\ thread[h].at = "idle" /\ handlers' = handlers \ {b} /\ handling' = b /\ identity = 0
        /\ thread' = [thread EXCEPT ![h] = Frame("execute", t, GroupOf[t], "progress")]
        /\ UNCHANGED <<taskVars, listVars, deviceVars, identity, overlapped>>
    BY DEF HandleSignal, At
  <1>2. UNCHANGED <<state, prevOrdered, signalOf, freeSignals, dispatched, sinks, queue,
                    awaited, finished, identity, overlapped>>
    BY <1>1 DEF taskVars, listVars, deviceVars
  <1>3. t \in Task /\ h \in Thread
    <2>1. b \in Seq(Task) /\ b # <<>>
      BY ListsTyped DEF BaseInv
    <2>2. QED
      BY <2>1, Constants, TailFacts
  <1>4. Begins(h, "execute", t, "progress")
    BY <1>1, <1>3, FrameBegins DEF BaseInv, TypeInv, ThreadType, Label
  <1>5. thread[h].batch = Nothing
    BY <1>1, <1>3 DEF BaseInv, ThreadInv, Carrying
  <1>6. QED
    BY <1>1, <1>2, <1>4, <1>5 DEF Begins

\* MarkExecuted and ReleaseSignal.
LEMMA HandledFacts ==
  ASSUME BaseInv, MarkExecuted \/ ReleaseSignal
  PROVE  \E t \in Task :
           /\ handling # <<>> /\ t = Head(handling) /\ t \in Elements(handling)
           /\ state[t] \in 1..3
           /\ \A u \in Task : u # t => state'[u] = state[u]
           /\ \/ MarkExecuted /\ state'[t] = 3 /\ handling' = handling
                 /\ freeSignals' = freeSignals
              \/ ReleaseSignal /\ state'[t] = 4 /\ handling' = Tail(handling)
                 /\ freeSignals' = Append(freeSignals, signalOf[t])
           /\ Elements(handling') \subseteq Elements(handling)
           /\ thread[Callback].at \in {"execute", "release"}
           /\ thread'[Callback].at \in {"execute", "release", "progress"}
           /\ thread'[Callback].batch = thread[Callback].batch /\ Others(Callback)
           /\ UNCHANGED <<prevOrdered, signalOf, dispatched, sinks, queue, awaited,
                          finished, identity, handlers, overlapped>>
  <1> DEFINE t == Head(handling)
             h == Callback
  <1>1. /\ thread[h].at \in {"execute", "release"}
        /\ \/ MarkExecuted /\ state' = [state EXCEPT ![t] = 3] /\ handling' = handling
              /\ freeSignals' = freeSignals
           \/ ReleaseSignal /\ state' = [state EXCEPT ![t] = 4] /\ handling' = Tail(handling)
              /\ freeSignals' = Append(freeSignals, signalOf[t])
        /\ \E label \in {"execute", "release", "progress"} : Goto(h, label)
        /\ UNCHANGED <<prevOrdered, lastTask, signalOf, andPreds, listVars,
                       deviceVars, batchVars>>
    BY DEF MarkExecuted, ReleaseSignal, At, EXECUTED, COMPLETED
  <1>2. UNCHANGED <<prevOrdered, signalOf, dispatched, sinks, queue, awaited,
                    finished, identity, handlers, overlapped>>
    BY <1>1 DEF listVars, deviceVars, batchVars
  <1>3. h \in Thread /\ handling # <<>>
    BY <1>1, Constants DEF BaseInv, ThreadInv
  <1>4. /\ t \in Task /\ 1 \in DOMAIN handling /\ t = handling[1] /\ t \in Elements(handling)
        /\ Elements(Tail(handling)) \subseteq Elements(handling)
    BY <1>3, ListsTyped, TailFacts DEF BaseInv
  <1>5. state[t] \in 1..3
    BY <1>4 DEF BaseInv, PlacesInv, READY, EXECUTED
  <1>6. PICK label \in {"execute", "release", "progress"} : Moves(h, label)
    BY <1>1, <1>3, GotoMoves DEF BaseInv, TypeInv, ThreadType, Label
  <1>7. /\ \A u \in Task : u # t => state'[u] = state[u]
        /\ \/ MarkExecuted /\ state'[t] = 3 /\ handling' = handling
              /\ freeSignals' = freeSignals
           \/ ReleaseSignal /\ state'[t] = 4 /\ handling' = Tail(handling)
              /\ freeSignals' = Append(freeSignals, signalOf[t])
    <2>1. state \in [Task -> UNINITIALIZED..COMPLETED]
      BY DEF BaseInv, TypeInv
    <2>2. CASE /\ MarkExecuted /\ state' = [state EXCEPT ![t] = 3] /\ handling' = handling
               /\ freeSignals' = freeSignals
      BY <1>4, <2>1, <2>2
    <2>3. CASE /\ ReleaseSignal /\ state' = [state EXCEPT ![t] = 4]
               /\ handling' = Tail(handling)
               /\ freeSignals' = Append(freeSignals, signalOf[t])
      BY <1>4, <2>1, <2>3
    <2>4. QED
      BY <1>1, <2>2, <2>3
  <1>8. Elements(handling') \subseteq Elements(handling)
    BY <1>4, <1>7
  <1>9. QED
    BY <1>1, <1>2, <1>3, <1>4, <1>5, <1>6, <1>7, <1>8 DEF Moves

-----------------------------------------------------------------------------
(* FlightInv.                                                                *)

LEMMA SinksKept ==
  ASSUME queue' = queue
  PROVE  /\ NoSinksPacket <=> NoSinksPacket'
         /\ OneSinksPacket <=> OneSinksPacket'
         /\ \A t \in Task : WaitedFor(t) <=> WaitedFor(t)'
  BY DEF NoSinksPacket, OneSinksPacket, WaitedFor, IsSinks

LEMMA NoneIsOne ==
  ASSUME NoSinksPacket
  PROVE  OneSinksPacket
  BY DEF NoSinksPacket, OneSinksPacket

LEMMA FlightKept ==
  ASSUME FlightInv, UNCHANGED <<identity, handlers, overlapped>>,
         \A k \in Thread, label \in {"barrier", "register"} :
           thread'[k].at = label <=> thread[k].at = label,
         NoSinksPacket => NoSinksPacket',
         OneSinksPacket => OneSinksPacket'
  PROVE  FlightInv'
  <1>1. /\ \A h \in Thread : InSync(h) <=> InSync(h)'
        /\ \A h \in Thread : At(h, "barrier") <=> At(h, "barrier")'
        /\ InFlight <=> InFlight'
    BY DEF InSync, At, InFlight
  <1>2. QED
    BY <1>1 DEF FlightInv

LEMMA CalmFlight ==
  ASSUME FlightInv, Calm
  PROVE  FlightInv'
  <1>1. UNCHANGED <<identity, handlers, overlapped, queue>>
    BY DEF Calm
  <1>2. \A k \in Thread, label \in {"barrier", "register"} :
          thread'[k].at = label <=> thread[k].at = label
    BY DEF Calm
  <1>3. QED
    BY <1>1, <1>2, SinksKept, FlightKept

LEMMA TryAcquiresFlight ==
  ASSUME BaseInv, FlightInv, NEW h \in Thread, TryAcquires(h)
  PROVE  FlightInv'
  <1> DEFINE t == thread[h].task
  <1>1. /\ t \in Task /\ QueueOf[t] \in Queue /\ thread[h].at = "try"
        /\ UNCHANGED <<identity, handlers, overlapped>> /\ Moves(h, "mark")
    BY AcquiresFacts
  <1>2. Grows(QueueOf[t], NewPackets(t)) /\ \A p \in NewPackets(t) : p.type # "sinks"
    <2>1. Grows(QueueOf[t], NewPackets(t))
      BY AcquiresGrows
    <2>2. TaskPacket(t).type = "task" /\ DepsPacket(t).type = "deps"
      BY DEF TaskPacket, DepsPacket
    <2>3. \A p \in NewPackets(t) : p = TaskPacket(t) \/ p = DepsPacket(t)
      BY DEF NewPackets
    <2>4. QED
      BY <2>1, <2>2, <2>3
  <1>3. (NoSinksPacket => NoSinksPacket') /\ (OneSinksPacket => OneSinksPacket')
    BY <1>1, <1>2, GrowSinks DEF BaseInv
  <1>4. \A k \in Thread, label \in {"barrier", "register"} :
          thread'[k].at = label <=> thread[k].at = label
    BY <1>1 DEF Moves, Others
  <1>5. QED
    BY <1>1, <1>3, <1>4, FlightKept

LEMMA MarkDispatchedFlight ==
  ASSUME BaseInv, FlightInv, NEW h \in Thread, MarkDispatched(h)
  PROVE  FlightInv'
  <1>1. /\ thread[h].at = "mark" /\ thread'[h].at = "publish" /\ Others(h)
        /\ UNCHANGED <<identity, handlers, overlapped, queue>>
    BY MarkDispatchedFacts
  <1>2. \A k \in Thread, label \in {"barrier", "register"} :
          thread'[k].at = label <=> thread[k].at = label
    BY <1>1 DEF Others
  <1>3. QED
    BY <1>1, <1>2, SinksKept, FlightKept

LEMMA TakesFlight ==
  ASSUME BaseInv, FlightInv, NEW h \in Thread, Takes(h)
  PROVE  FlightInv'
  <1>1. /\ thread[h].at = "take" /\ thread'[h].at = "store" /\ Others(h)
        /\ UNCHANGED <<identity, handlers, overlapped, queue>>
    BY TakesFacts
  <1>2. \A k \in Thread, label \in {"barrier", "register"} :
          thread'[k].at = label <=> thread[k].at = label
    BY <1>1 DEF Others
  <1>3. QED
    BY <1>1, <1>2, SinksKept, FlightKept

LEMMA HandledFlight ==
  ASSUME BaseInv, FlightInv, MarkExecuted \/ ReleaseSignal
  PROVE  FlightInv'
  <1>1. /\ thread[Callback].at \in {"execute", "release"} /\ Others(Callback)
        /\ thread'[Callback].at \in {"execute", "release", "progress"}
        /\ UNCHANGED <<identity, handlers, overlapped, queue>>
    BY HandledFacts
  <1>2. \A k \in Thread, label \in {"barrier", "register"} :
          thread'[k].at = label <=> thread[k].at = label
    BY <1>1 DEF Others
  <1>3. QED
    BY <1>1, <1>2, SinksKept, FlightKept

\* The batch is the only one: its packet has passed.
LEMMA HandleSignalFlight ==
  ASSUME BaseInv, FlightInv, NEW b \in handlers, HandleSignal(b)
  PROVE  FlightInv'
  <1> SUFFICES ASSUME ~overlapped' PROVE FlightInv'
    BY DEF FlightInv
  <1>1. /\ thread[Callback].at = "idle" /\ thread'[Callback].at = "execute"
        /\ Others(Callback) /\ identity = 0 /\ handlers' = handlers \ {b}
        /\ UNCHANGED <<identity, overlapped, queue>>
    BY HandleSignalFacts
  <1>2. \A k \in Thread, label \in {"barrier", "register"} :
          thread'[k].at = label <=> thread[k].at = label
    BY <1>1 DEF Others
  <1>3. NoSinksPacket /\ \A k \in Thread : ~At(k, "barrier")
    BY <1>1 DEF FlightInv
  <1>4. NoSinksPacket' /\ OneSinksPacket' /\ \A k \in Thread : ~At(k, "barrier")'
    BY <1>1, <1>2, <1>3, SinksKept, NoneIsOne DEF At
  <1>5. \A k \in Thread : InSync(k) <=> InSync(k)'
    BY <1>2 DEF InSync
  <1>6. QED
    BY <1>1, <1>4, <1>5 DEF FlightInv

LEMMA StoreIdentityFlight ==
  ASSUME BaseInv, FlightInv, NEW h \in Thread, StoreIdentity(h)
  PROVE  FlightInv'
  <1> SUFFICES ASSUME ~overlapped' PROVE FlightInv'
    BY DEF FlightInv
  <1>1. /\ thread[h].at = "store" /\ thread'[h].at = "barrier" /\ Others(h)
        /\ ~overlapped /\ ~InFlight /\ identity' = 1
        /\ UNCHANGED <<queue, handlers>>
    BY StoreIdentityFacts
  <1>2. handlers' = {} /\ NoSinksPacket /\ \A k \in Thread : ~InSync(k)
    BY <1>1 DEF FlightInv, InFlight, InSync
  <1>3. NoSinksPacket' /\ OneSinksPacket'
    BY <1>1, <1>2, SinksKept, NoneIsOne
  <1>4. \A k \in Thread : InSync(k)' => k = h
    BY <1>1, <1>2 DEF InSync, Others
  <1>5. QED
    BY <1>1, <1>2, <1>3, <1>4 DEF FlightInv, InFlight, InSync, At

LEMMA EnqueueBarrierFlight ==
  ASSUME BaseInv, FlightInv, NEW h \in Thread, EnqueueBarrier(h)
  PROVE  FlightInv'
  <1> SUFFICES ASSUME ~overlapped' PROVE FlightInv'
    BY DEF FlightInv
  <1>1. /\ thread[h].at = "barrier" /\ thread'[h].at = "register" /\ Others(h)
        /\ UNCHANGED <<identity, handlers, overlapped>>
    BY EnqueueBarrierFacts
  <1>2. At(h, "barrier") /\ InSync(h)
    BY <1>1 DEF At, InSync
  <1>3. /\ NoSinksPacket /\ identity' = 1 /\ handlers' = {}
        /\ \A k \in Thread : InSync(k) => k = h
    BY <1>1, <1>2 DEF FlightInv
  <1>4. OneSinksPacket'
    BY <1>3, EnqueueGrows
  <1>5. \A k \in Thread : InSync(k)' => k = h
    BY <1>1, <1>3 DEF InSync, Others
  <1>6. \A k \in Thread : ~At(k, "barrier")'
    BY <1>1, <1>5 DEF InSync, At
  <1>7. InFlight'
    BY <1>1 DEF InFlight
  <1>8. QED
    BY <1>3, <1>4, <1>5, <1>6, <1>7 DEF FlightInv

LEMMA RegisterHandlerFlight ==
  ASSUME BaseInv, FlightInv, NEW h \in Thread, RegisterHandler(h)
  PROVE  FlightInv'
  <1> SUFFICES ASSUME ~overlapped' PROVE FlightInv'
    BY DEF FlightInv
  <1>1. /\ thread[h].at = "register" /\ thread'[h].at \in {"idle", "waiting"} /\ Others(h)
        /\ handlers' = handlers \cup {BatchOf(h)}
        /\ UNCHANGED <<identity, overlapped, queue>>
    BY RegisterHandlerFacts
  <1>2. InSync(h)
    BY <1>1 DEF InSync
  <1>3. /\ handlers' = {BatchOf(h)}
        /\ \A k \in Thread : InSync(k) => k = h
    BY <1>1, <1>2 DEF FlightInv
  <1>4. \A k \in Thread : ~InSync(k)' /\ ~At(k, "barrier")'
    BY <1>1, <1>3 DEF InSync, At, Others
  <1>5. InFlight'
    BY <1>3 DEF InFlight
  <1>6. (~NoSinksPacket' => identity' = 1) /\ OneSinksPacket' /\ identity' \in {0, 1}
    BY <1>1, SinksKept DEF FlightInv
  <1>7. QED
    BY <1>3, <1>4, <1>5, <1>6 DEF FlightInv

LEMMA PassBarrierFlight ==
  ASSUME BaseInv, FlightInv, NEW q \in Queue, PassBarrier(q)
  PROVE  FlightInv'
  <1> SUFFICES ASSUME ~overlapped' PROVE FlightInv'
    BY DEF FlightInv
  <1>1. UNCHANGED <<handlers, overlapped, thread>>
    BY DEF PassBarrier
  <1>2. Drops(q, 1) /\ 1 \in DOMAIN queue[q]
    BY PassBarrierDrops DEF BaseInv, Drops
  <1>3. /\ NoSinksPacket => NoSinksPacket'
        /\ OneSinksPacket => OneSinksPacket'
        /\ OneSinksPacket /\ IsSinks(q, 1) => NoSinksPacket'
    BY <1>2, DropSinks DEF BaseInv
  <1>4. \/ identity' = identity
        \/ IsSinks(q, 1) /\ identity' = identity - 1
    BY <1>2, PassBarrierFacts DEF BaseInv, IsSinks
  <1>5. CASE identity' = identity
    BY <1>1, <1>3, <1>5, FlightKept
  <1>6. CASE IsSinks(q, 1) /\ identity' = identity - 1
    <2>1. ~NoSinksPacket
      BY <1>2, <1>6 DEF NoSinksPacket
    <2>2. identity = 1 /\ OneSinksPacket /\ \A h \in Thread : ~At(h, "barrier")
      BY <1>1, <2>1 DEF FlightInv
    <2>3. identity' = 0
      BY <1>6, <2>2
    <2>4. NoSinksPacket' /\ OneSinksPacket'
      BY <1>3, <1>6, <2>2
    <2>5. /\ \A h \in Thread : InSync(h) <=> InSync(h)'
          /\ \A h \in Thread : At(h, "barrier") <=> At(h, "barrier")'
      BY <1>1 DEF InSync, At
    <2>6. QED
      BY <1>1, <2>2, <2>3, <2>4, <2>5 DEF FlightInv
  <1>7. QED
    BY <1>4, <1>5, <1>6

LEMMA DeviceFlight ==
  ASSUME BaseInv, FlightInv,
         \/ \E t, p \in Task : SeePredecessor(t, p)
         \/ \E t \in Task : FinishTask(t)
         \/ \E q \in Queue, p \in Task : SeeSink(q, p)
  PROVE  FlightInv'
  <1>1. ASSUME NEW t \in Task, NEW p \in Task, SeePredecessor(t, p)
        PROVE  FlightInv'
    <2>1. UNCHANGED <<identity, handlers, overlapped, thread, queue>>
      BY <1>1 DEF SeePredecessor, batchVars
    <2>2. QED
      BY <2>1, SinksKept, FlightKept
  <1>2. ASSUME NEW t \in Task, FinishTask(t)
        PROVE  FlightInv'
    <2>1. UNCHANGED <<identity, handlers, overlapped, thread>>
      BY <1>2, FinishTaskFacts
    <2>2. CASE KindOf[t] = "gpu"
      <3>1. PICK i \in DOMAIN queue[QueueOf[t]] : Drops(QueueOf[t], i)
        BY <1>2, <2>2, FinishTaskDrops
      <3>2. (NoSinksPacket => NoSinksPacket') /\ (OneSinksPacket => OneSinksPacket')
        BY <3>1, DropSinks, Constants DEF BaseInv
      <3>3. QED
        BY <2>1, <3>2, FlightKept
    <2>3. CASE KindOf[t] # "gpu"
      <3>1. queue' = queue
        BY <1>2, <2>3, FinishTaskFacts
      <3>2. QED
        BY <2>1, <3>1, SinksKept, FlightKept
    <2>4. QED
      BY <2>2, <2>3
  <1>3. ASSUME NEW q \in Queue, NEW p \in Task, SeeSink(q, p)
        PROVE  FlightInv'
    <2>1. UNCHANGED <<identity, handlers, overlapped, thread>>
      BY <1>3 DEF SeeSink, batchVars
    <2>2. (NoSinksPacket => NoSinksPacket') /\ (OneSinksPacket => OneSinksPacket')
      BY <1>3, SeeSinkSinks DEF BaseInv
    <2>3. QED
      BY <2>1, <2>2, FlightKept
  <1>4. QED
    BY <1>1, <1>2, <1>3

LEMMA FlightStep ==
  ASSUME BaseInv, FlightInv, [Next]_vars
  PROVE  FlightInv'
  <1>1. CASE Calm
    BY <1>1, CalmFlight
  <1>2. CASE Busy
    BY <1>2, TryAcquiresFlight, MarkDispatchedFlight, TakesFlight, StoreIdentityFlight,
       EnqueueBarrierFlight, RegisterHandlerFlight, HandleSignalFlight, HandledFlight,
       PassBarrierFlight, DeviceFlight
    DEF Busy
  <1>3. QED
    BY <1>1, <1>2, CalmOrBusy

LEMMA InitFlight ==
  ASSUME Init
  PROVE  FlightInv
  <1>1. /\ \A h \in Thread : thread[h].at = "idle"
        /\ handlers = {} /\ identity = 0
        /\ \A q \in Queue : queue[q] = <<>>
    BY DEF Init, Idle, Frame
  <1>2. NoSinksPacket
    BY <1>1, EmptyList DEF NoSinksPacket
  <1>3. QED
    BY <1>1, <1>2, NoneIsOne DEF FlightInv, InSync, At

\* Until batches overlap, one is in flight at a time, and IdentityANDSignal is 1
\* until the barrier packet behind its sinks has passed.
THEOREM FlightAlways == Spec => [](BaseInv /\ FlightInv)
  <1>1. Init => BaseInv /\ FlightInv
    BY InitBase, InitFlight
  <1>2. BaseInv /\ FlightInv /\ [Next]_vars => (BaseInv /\ FlightInv)'
    BY BaseStep, FlightStep
  <1>3. QED
    BY <1>1, <1>2, PTL DEF Spec

\* TypeOK, for all programs.  The value of a signal is the number of the
\* unfinished tasks that have had it; IdentityANDSignal is 1 from the store to
\* the end of the barrier packet and 0 otherwise, unless batches have overlapped.
THEOREM BarrierTypeCorrect == Spec => []TypeOK
  <1>1. ASSUME BaseInv, FlightInv
        PROVE  TypeOK
    <2>1. TypeInv
      BY <1>1 DEF BaseInv
    <2>2. signalValue \in [Signal -> 0..Cardinality(Task)]
      <3>1. signalValue \in [Signal -> Int]
        BY <2>1 DEF TypeInv
      <3>2. ASSUME NEW s \in Signal
            PROVE  signalValue[s] \in 0..Cardinality(Task)
        <4>1. signalValue[s] = Cardinality(Users(s))
          BY <1>1 DEF BaseInv, SignalInv
        <4>2. Users(s) \subseteq Task /\ IsFiniteSet(Task)
          BY BarrierAssumption DEF Users
        <4>3. IsFiniteSet(Users(s)) /\ Cardinality(Users(s)) <= Cardinality(Task)
          BY <4>2, FS_Subset
        <4>4. Cardinality(Users(s)) \in Nat /\ Cardinality(Task) \in Nat
          BY <4>2, <4>3, FS_CardinalityType
        <4>5. QED
          BY <4>1, <4>3, <4>4
      <3>3. QED
        BY <3>1, <3>2
    <2>3. /\ Elements(freeSignals) \subseteq Signal
          /\ Elements(handling) \subseteq Task
          /\ \A g \in Group : Elements(created[g]) \cup Elements(dispatched[g]) \subseteq Task
          /\ \A q \in Queue : Elements(queue[q]) \subseteq PacketSet
      BY <2>1, InElements DEF TypeInv
    <2>4. identity \in Int /\ (identity \in {0, 1} \/ overlapped)
      BY <1>1, <2>1 DEF FlightInv, TypeInv
    <2>5. overlapped \in BOOLEAN /\ \A g \in Group : flag[g] \in BOOLEAN
      BY <2>1 DEF TypeInv
    <2>6. \A g \in Group : sinks[g] \subseteq Task
      BY <2>1 DEF TypeInv
    <2>7. finished \subseteq published /\ published \subseteq Task
      BY <2>1 DEF TypeInv
    <2>8. QED
      BY <2>1, <2>2, <2>3, <2>4, <2>5, <2>6, <2>7 DEF TypeOK, TypeInv
  <1>2. QED
    BY <1>1, FlightAlways, PTL

-----------------------------------------------------------------------------
(* MarkInv.                                                                  *)

LEMMA MarkKept ==
  ASSUME ~overlapped, MarkInv,
         \A k \in Thread : At(k, "mark")' =>
           At(k, "mark") /\ thread'[k].task = thread[k].task,
         \A k \in Thread, t \in Task :
           At(k, "mark") /\ thread[k].task = t /\ HeldBack(t) => HeldBack(t)',
         ThreadInv
  PROVE  MarkInv'
  <1> SUFFICES ASSUME NEW k \in Thread, At(k, "mark")'
               PROVE  HeldBack(thread[k].task)'
    BY DEF MarkInv
  <1>1. At(k, "mark") /\ thread'[k].task = thread[k].task
    OBVIOUS
  <1>2. PICK t \in Task : t = thread[k].task
    BY <1>1 DEF ThreadInv, At
  <1>3. HeldBack(t)
    BY <1>1, <1>2 DEF MarkInv
  <1>4. HeldBack(t)'
    BY <1>1, <1>2, <1>3
  <1>5. QED
    BY <1>1, <1>2, <1>4

LEMMA HeldKept ==
  ASSUME NEW t \in Task, HeldBack(t), state'[t] = state[t],
         UNCHANGED <<dispatched, sinks, handlers>>,
         Elements(handling') \subseteq Elements(handling),
         \A k \in Thread : thread'[k].batch = thread[k].batch,
         \A k \in Thread : thread'[k].at = "register" <=> thread[k].at = "register",
         WaitedFor(t) => WaitedFor(t)'
  PROVE  HeldBack(t)'
  <1>1. \A k \in Thread : BatchOf(k)' = BatchOf(k)
    BY DEF BatchOf
  <1>2. QED
    BY <1>1 DEF HeldBack

LEMMA CalmMark ==
  ASSUME BaseInv, MarkInv, Calm, ~overlapped
  PROVE  MarkInv'
  <1>1. \A k \in Thread : At(k, "mark")' =>
          At(k, "mark") /\ thread'[k].task = thread[k].task
    BY DEF Calm, At
  <1>2. ASSUME NEW t \in Task, HeldBack(t)
        PROVE  HeldBack(t)'
    <2>1. UNCHANGED <<dispatched, sinks, handlers, handling, queue>>
      BY DEF Calm
    <2>2. state'[t] = state[t]
      BY <1>2 DEF HeldBack, READY, Calm
    <2>3. /\ \A k \in Thread : thread'[k].batch = thread[k].batch
          /\ \A k \in Thread : thread'[k].at = "register" <=> thread[k].at = "register"
      BY DEF Calm
    <2>4. QED
      BY <1>2, <2>1, <2>2, <2>3, SinksKept, HeldKept
  <1>3. QED
    BY <1>1, <1>2, MarkKept DEF BaseInv

\* A task with less than READY is in no list.
LEMMA NowhereYet ==
  ASSUME BaseInv, NEW t \in Task, ~Acquired(t)
  PROVE  /\ \A g \in Group : t \notin Elements(dispatched[g])
         /\ \A h \in Thread : t \notin Elements(BatchOf(h))
         /\ \A b \in handlers : t \notin Elements(b)
         /\ t \notin Elements(handling)
  <1>1. state[t] \notin {READY, DISPATCHED} /\ state[t] \notin READY..EXECUTED
    BY StateNumbers DEF BaseInv, Acquired
  <1>2. QED
    BY <1>1 DEF BaseInv, PlacesInv, Running, Elements

LEMMA TryAcquiresMark ==
  ASSUME BaseInv, MarkInv, NEW h \in Thread, TryAcquires(h), ~overlapped
  PROVE  MarkInv'
  <1>1. PICK t \in Task : t = thread[h].task
    BY AcquiresFacts
  <1>2. PICK g \in Group : g = GroupOf[t]
    BY Constants
  <1>3. /\ state'[t] = 1 /\ \A u \in Task : u # t => state'[u] = state[u]
        /\ dispatched[g] \in Seq(Task) /\ dispatched'[g] = Append(dispatched[g], t)
        /\ \A k \in Group : k # g => dispatched'[k] = dispatched[k]
        /\ sinks'[g] = SinksWith(t)
        /\ \A k \in Group : k # g => sinks'[k] = sinks[k]
        /\ UNCHANGED <<handlers, handling>> /\ Moves(h, "mark")
        /\ thread[h].at = "try" /\ ~Undispatched(t) /\ ~Acquired(t)
        /\ state[t] \in Int /\ state[t] < 1
    BY <1>1, <1>2, AcquiresFacts, ZenonT(60)
  <1>4. /\ \A k \in Thread : BatchOf(k)' = BatchOf(k)
        /\ \A k \in Thread : thread'[k].batch = thread[k].batch
        /\ \A k \in Thread : thread'[k].at = "register" <=> thread[k].at = "register"
    BY <1>3 DEF Moves, Others, BatchOf
  <1>5. \A u \in Task : WaitedFor(u) => WaitedFor(u)'
    BY <1>1, AcquiresGrows, GrowSinks, Constants DEF BaseInv
  <1>6. \A u \in Task : u \in AndPredecessors(t) \cup {prevOrdered[t]} => state[u] >= 2
    <2>1. SUFFICES ASSUME NEW u \in Task, u \in Requires[t] \cup ({prevOrdered[t]} \ {NoTask})
                   PROVE  state[u] >= 2
      BY Constants DEF AndPredecessors
    <2>2. ~(state[u] < 2)
      BY <1>3, <2>1 DEF Undispatched, DISPATCHED
    <2>3. state[u] \in Int
      BY StateNumbers DEF BaseInv
    <2>4. QED
      BY <2>2, <2>3
  <1>7. \A u \in Task : state[u] < 2 /\ (u \in sinks[g] \/ u = t) => u \in sinks'[g]
    <2> SUFFICES ASSUME NEW u \in Task, state[u] < 2, u \in sinks[g] \/ u = t
                 PROVE  u \in sinks'[g]
      OBVIOUS
    <2>1. state[u] \in Int
      BY StateNumbers DEF BaseInv
    <2>2. ~(state[u] >= 2)
      BY <2>1
    <2>3. QED
      BY <1>2, <1>3, <1>6, <2>2 DEF SinksWith
  <1>8. Elements(dispatched'[g]) = Elements(dispatched[g]) \cup {t}
    BY <1>3, AppendFacts
  <1>9. /\ \A k \in Group : t \notin Elements(dispatched[k])
        /\ \A k \in Thread : t \notin Elements(BatchOf(k))
        /\ \A b \in handlers : t \notin Elements(b)
        /\ t \notin Elements(handling)
    BY <1>3, NowhereYet
  <1>10. HeldBack(t)'
    <2>1. \A k \in Group : t \in Elements(dispatched'[k]) => t \in sinks'[k]
      <3>1. state[t] < 2
        BY <1>3
      <3>2. t \in sinks'[g]
        BY <1>7, <3>1
      <3>3. QED
        BY <1>3, <1>9, <3>2
    <2>2. state'[t] = READY
      BY <1>3 DEF READY
    <2>3. QED
      BY <1>3, <1>4, <1>9, <2>1, <2>2 DEF HeldBack
  <1>11. ASSUME NEW u \in Task, u # t, HeldBack(u)
         PROVE  HeldBack(u)'
    <2>1. state'[u] = state[u] /\ state[u] < 2
      BY <1>3, <1>11 DEF HeldBack, READY
    <2>2. \A k \in Group : u \in Elements(dispatched'[k]) => u \in sinks'[k]
      <3>1. \A k \in Group : u \in Elements(dispatched'[k]) => u \in sinks[k]
        BY <1>3, <1>8, <1>11 DEF HeldBack
      <3>2. QED
        BY <1>3, <1>7, <2>1, <3>1
    <2>3. QED
      BY <1>3, <1>4, <1>5, <1>11, <2>1, <2>2 DEF HeldBack
  <1>12. ASSUME NEW k \in Thread, At(k, "mark")'
         PROVE  HeldBack(thread[k].task)'
    <2>1. CASE k = h
      <3>1. thread'[k].task = t
        BY <1>1, <1>3, <2>1 DEF Moves
      <3>2. QED
        BY <1>10, <3>1
    <2>2. CASE k # h
      <3>1. thread'[k] = thread[k]
        BY <1>3, <2>2 DEF Moves, Others
      <3>2. PICK u \in Task : u = thread[k].task
        BY <1>12, <3>1 DEF BaseInv, ThreadInv, At
      <3>3. HeldBack(u)
        BY <1>12, <3>1, <3>2 DEF MarkInv, At
      <3>4. u # t
        BY <1>3, <3>3 DEF HeldBack, READY, Acquired
      <3>5. HeldBack(u)'
        BY <1>11, <3>3, <3>4
      <3>6. QED
        BY <3>1, <3>2, <3>5
    <2>3. QED
      BY <2>1, <2>2
  <1>13. QED
    BY <1>12 DEF MarkInv

LEMMA MarkDispatchedMark ==
  ASSUME BaseInv, MarkInv, NEW h \in Thread, MarkDispatched(h), ~overlapped
  PROVE  MarkInv'
  <1>1. PICK t \in Task :
          /\ thread[h].at = "mark" /\ thread[h].task = t /\ thread'[h].at = "publish"
          /\ thread'[h].batch = thread[h].batch /\ Others(h)
          /\ state'[t] = 2 /\ \A u \in Task : u # t => state'[u] = state[u]
          /\ UNCHANGED <<dispatched, sinks, queue, handlers, handling>>
    BY MarkDispatchedFacts
  <1>2. \A k \in Thread : At(k, "mark")' =>
          k # h /\ At(k, "mark") /\ thread'[k].task = thread[k].task
    BY <1>1 DEF Others, At
  <1>3. /\ \A k \in Thread : thread'[k].batch = thread[k].batch
        /\ \A k \in Thread : thread'[k].at = "register" <=> thread[k].at = "register"
    BY <1>1 DEF Others
  <1>4. ASSUME NEW k \in Thread, At(k, "mark")', NEW u \in Task, u = thread[k].task, HeldBack(u)
        PROVE  HeldBack(u)'
    <2>1. u # t
      BY <1>1, <1>2, <1>4 DEF BaseInv, TurnInv, At
    <2>2. QED
      BY <1>1, <1>3, <1>4, <2>1, SinksKept, HeldKept
  <1>5. ASSUME NEW k \in Thread, At(k, "mark")'
        PROVE  HeldBack(thread[k].task)'
    <2>1. PICK u \in Task : u = thread[k].task
      BY <1>2, <1>5 DEF BaseInv, ThreadInv, At
    <2>2. HeldBack(u)
      BY <1>2, <1>5, <2>1 DEF MarkInv
    <2>3. HeldBack(u)' /\ u = thread'[k].task
      BY <1>2, <1>4, <1>5, <2>1, <2>2
    <2>4. QED
      BY <2>3
  <1>6. QED
    BY <1>5 DEF MarkInv

LEMMA TakesMark ==
  ASSUME BaseInv, MarkInv, NEW h \in Thread, Takes(h), ~overlapped
  PROVE  MarkInv'
  <1>1. PICK g \in Group :
          /\ thread[h].at = "take" /\ thread'[h].at = "store" /\ Others(h)
          /\ thread'[h].batch = [sinks |-> sinks[g], tasks |-> dispatched[g]]
          /\ sinks'[g] = {} /\ dispatched'[g] = <<>>
          /\ \A k \in Group : k # g => sinks'[k] = sinks[k] /\ dispatched'[k] = dispatched[k]
          /\ UNCHANGED <<state, queue, handlers, handling>>
    BY TakesFacts
  <1>2. \A k \in Thread : At(k, "mark")' =>
          At(k, "mark") /\ thread'[k].task = thread[k].task
    BY <1>1 DEF Others, At
  <1>3. ASSUME NEW t \in Task, HeldBack(t)
        PROVE  HeldBack(t)'
    <2>1. state'[t] = READY /\ handling' = handling /\ t \notin Elements(handling)
      BY <1>1, <1>3 DEF HeldBack
    <2>2. \A k \in Group : t \in Elements(dispatched'[k]) => t \in sinks'[k]
      BY <1>1, <1>3, EmptyList DEF HeldBack
    <2>3. BatchOf(h)' = dispatched[g] /\ thread'[h].batch.sinks = sinks[g]
      BY <1>1 DEF BatchOf
    <2>4. \A k \in Thread : t \in Elements(BatchOf(k)') =>
            IF thread'[k].at = "register" THEN WaitedFor(t)' ELSE t \in thread'[k].batch.sinks
      <3> SUFFICES ASSUME NEW k \in Thread, t \in Elements(BatchOf(k)')
                   PROVE  IF thread'[k].at = "register"
                          THEN WaitedFor(t)' ELSE t \in thread'[k].batch.sinks
        OBVIOUS
      <3>1. CASE k = h
        BY <1>1, <1>3, <2>3, <3>1 DEF HeldBack
      <3>2. CASE k # h
        <4>1. thread'[k] = thread[k] /\ BatchOf(k)' = BatchOf(k)
          BY <1>1, <3>2 DEF Others, BatchOf
        <4>2. QED
          BY <1>1, <1>3, <4>1, SinksKept DEF HeldBack
      <3>3. QED
        BY <3>1, <3>2
    <2>5. \A b \in handlers' : t \in Elements(b) => WaitedFor(t)'
      BY <1>1, <1>3, SinksKept DEF HeldBack
    <2>6. QED
      BY <2>1, <2>2, <2>4, <2>5 DEF HeldBack
  <1>4. QED
    BY <1>2, <1>3, MarkKept DEF BaseInv

LEMMA StoreIdentityMark ==
  ASSUME BaseInv, MarkInv, NEW h \in Thread, StoreIdentity(h), ~overlapped
  PROVE  MarkInv'
  <1>1. /\ thread[h].at = "store" /\ thread'[h].at = "barrier"
        /\ thread'[h].batch = thread[h].batch /\ Others(h)
        /\ UNCHANGED <<state, dispatched, sinks, queue, handlers, handling>>
    BY StoreIdentityFacts
  <1>2. \A k \in Thread : At(k, "mark")' =>
          At(k, "mark") /\ thread'[k].task = thread[k].task
    BY <1>1 DEF Others, At
  <1>3. /\ \A k \in Thread : thread'[k].batch = thread[k].batch
        /\ \A k \in Thread : thread'[k].at = "register" <=> thread[k].at = "register"
    BY <1>1 DEF Others
  <1>4. \A t \in Task : HeldBack(t) => HeldBack(t)'
    BY <1>1, <1>3, SinksKept, HeldKept
  <1>5. QED
    BY <1>2, <1>4, MarkKept DEF BaseInv

\* The sinks of the batch are waited for.
LEMMA EnqueueBarrierMark ==
  ASSUME BaseInv, MarkInv, NEW h \in Thread, EnqueueBarrier(h), ~overlapped
  PROVE  MarkInv'
  <1>1. /\ thread[h].at = "barrier" /\ thread'[h].at = "register"
        /\ thread'[h].batch = thread[h].batch /\ Others(h)
        /\ UNCHANGED <<state, dispatched, sinks, handlers, handling>>
    BY EnqueueBarrierFacts
  <1>2. \A k \in Thread : At(k, "mark")' =>
          At(k, "mark") /\ thread'[k].task = thread[k].task
    BY <1>1 DEF Others, At
  <1>3. \A k \in Thread : BatchOf(k)' = BatchOf(k) /\ thread'[k].batch = thread[k].batch
    BY <1>1 DEF Others, BatchOf
  <1>4. /\ \A t \in Task : WaitedFor(t) => WaitedFor(t)'
        /\ \A t \in thread[h].batch.sinks : WaitedFor(t)'
    <2>1. PICK q \in Queue : Grows(q, {SinksPacket(thread[h].batch.sinks)})
      BY EnqueueGrows
    <2>2. thread[h].batch.sinks \in SUBSET Task
      BY DEF BaseInv, TypeInv
    <2>3. QED
      BY <2>1, <2>2, GrowSinks DEF BaseInv
  <1>5. ASSUME NEW t \in Task, HeldBack(t)
        PROVE  HeldBack(t)'
    <2>1. \A k \in Thread : t \in Elements(BatchOf(k)') =>
            IF thread'[k].at = "register" THEN WaitedFor(t)' ELSE t \in thread'[k].batch.sinks
      <3> SUFFICES ASSUME NEW k \in Thread, t \in Elements(BatchOf(k)')
                   PROVE  IF thread'[k].at = "register"
                          THEN WaitedFor(t)' ELSE t \in thread'[k].batch.sinks
        OBVIOUS
      <3>1. CASE k = h
        <4>1. t \in thread[h].batch.sinks
          BY <1>1, <1>3, <1>5, <3>1 DEF HeldBack
        <4>2. QED
          BY <1>1, <1>4, <3>1, <4>1
      <3>2. CASE k # h
        <4>1. thread'[k] = thread[k]
          BY <1>1, <3>2 DEF Others
        <4>2. QED
          BY <1>3, <1>4, <1>5, <4>1 DEF HeldBack
      <3>3. QED
        BY <3>1, <3>2
    <2>2. QED
      BY <1>1, <1>4, <1>5, <2>1 DEF HeldBack
  <1>6. QED
    BY <1>2, <1>5, MarkKept DEF BaseInv

LEMMA RegisterHandlerMark ==
  ASSUME BaseInv, MarkInv, NEW h \in Thread, RegisterHandler(h), ~overlapped
  PROVE  MarkInv'
  <1>1. /\ thread[h].at = "register" /\ thread'[h].at \in {"idle", "waiting"}
        /\ thread'[h].batch = Nothing /\ Others(h)
        /\ handlers' = handlers \cup {BatchOf(h)}
        /\ UNCHANGED <<state, dispatched, sinks, queue, handling>>
    BY RegisterHandlerFacts
  <1>2. \A k \in Thread : At(k, "mark")' =>
          At(k, "mark") /\ thread'[k].task = thread[k].task
    BY <1>1 DEF Others, At
  <1>3. Elements(BatchOf(h)') = {}
    BY <1>1, EmptyList DEF BatchOf, Nothing
  <1>4. ASSUME NEW t \in Task, HeldBack(t)
        PROVE  HeldBack(t)'
    <2>1. \A b \in handlers' : t \in Elements(b) => WaitedFor(t)'
      BY <1>1, <1>4, SinksKept DEF HeldBack
    <2>2. \A k \in Thread : t \in Elements(BatchOf(k)') =>
            IF thread'[k].at = "register" THEN WaitedFor(t)' ELSE t \in thread'[k].batch.sinks
      <3> SUFFICES ASSUME NEW k \in Thread, k # h, t \in Elements(BatchOf(k)')
                   PROVE  IF thread'[k].at = "register"
                          THEN WaitedFor(t)' ELSE t \in thread'[k].batch.sinks
        BY <1>3
      <3>1. thread'[k] = thread[k] /\ BatchOf(k)' = BatchOf(k)
        BY <1>1 DEF Others, BatchOf
      <3>2. QED
        BY <1>1, <1>4, <3>1, SinksKept DEF HeldBack
    <2>3. QED
      BY <1>1, <1>4, <2>1, <2>2 DEF HeldBack
  <1>5. QED
    BY <1>2, <1>4, MarkKept DEF BaseInv

\* The packet of the batch has passed, so none of it is held back.
LEMMA HandleSignalMark ==
  ASSUME BaseInv, FlightInv, MarkInv, NEW b \in handlers, HandleSignal(b), ~overlapped
  PROVE  MarkInv'
  <1>1. /\ thread[Callback].at = "idle" /\ thread'[Callback].at = "execute"
        /\ thread'[Callback].batch = thread[Callback].batch /\ Others(Callback)
        /\ identity = 0 /\ handlers' = handlers \ {b} /\ handling' = b
        /\ UNCHANGED <<state, dispatched, sinks, queue>>
    BY HandleSignalFacts
  <1>2. \A k \in Thread : At(k, "mark")' =>
          At(k, "mark") /\ thread'[k].task = thread[k].task
    BY <1>1 DEF Others, At
  <1>3. NoSinksPacket
    BY <1>1 DEF FlightInv
  <1>4. \A t \in Task : ~WaitedFor(t)
    BY <1>3 DEF NoSinksPacket, WaitedFor
  <1>5. \A k \in Thread : /\ BatchOf(k)' = BatchOf(k) /\ thread'[k].batch = thread[k].batch
                          /\ thread'[k].at = "register" <=> thread[k].at = "register"
    BY <1>1 DEF Others, BatchOf
  <1>6. ASSUME NEW t \in Task, HeldBack(t)
        PROVE  HeldBack(t)'
    <2>1. t \notin Elements(handling')
      BY <1>1, <1>4, <1>6 DEF HeldBack
    <2>2. QED
      BY <1>1, <1>5, <1>6, <2>1, SinksKept DEF HeldBack
  <1>7. QED
    BY <1>2, <1>6, MarkKept DEF BaseInv

LEMMA HandledMark ==
  ASSUME BaseInv, MarkInv, MarkExecuted \/ ReleaseSignal, ~overlapped
  PROVE  MarkInv'
  <1>1. PICK t \in Task :
          /\ t \in Elements(handling)
          /\ \A u \in Task : u # t => state'[u] = state[u]
          /\ Elements(handling') \subseteq Elements(handling)
          /\ thread[Callback].at \in {"execute", "release"}
          /\ thread'[Callback].at \in {"execute", "release", "progress"}
          /\ thread'[Callback].batch = thread[Callback].batch /\ Others(Callback)
          /\ UNCHANGED <<dispatched, sinks, queue, handlers>>
    BY HandledFacts
  <1>2. \A k \in Thread : At(k, "mark")' =>
          At(k, "mark") /\ thread'[k].task = thread[k].task
    BY <1>1 DEF Others, At
  <1>3. /\ \A k \in Thread : thread'[k].batch = thread[k].batch
        /\ \A k \in Thread : thread'[k].at = "register" <=> thread[k].at = "register"
    BY <1>1 DEF Others
  <1>4. ASSUME NEW u \in Task, HeldBack(u)
        PROVE  HeldBack(u)'
    <2>1. u # t
      BY <1>1, <1>4 DEF HeldBack
    <2>2. QED
      BY <1>1, <1>3, <1>4, <2>1, SinksKept, HeldKept
  <1>5. QED
    BY <1>2, <1>4, MarkKept DEF BaseInv

\* A task whose signal a device has seen at 0 is finished.
LEMMA AtZeroFinished ==
  ASSUME BaseInv, NEW p \in Task, Acquired(p), AtZero(p)
  PROVE  p \in finished
  <1> SUFFICES ASSUME p \notin finished PROVE FALSE
    OBVIOUS
  <1>1. PICK s \in Signal : s = signalOf[p]
    BY DEF BaseInv, SignalInv, TypeInv
  <1>2. Cardinality(Users(s)) = 0
    BY <1>1 DEF BaseInv, SignalInv, AtZero
  <1>3. IsFiniteSet(Users(s))
    BY BarrierAssumption, FS_Subset DEF Users
  <1>4. Users(s) = {}
    BY <1>2, <1>3, FS_EmptySet
  <1>5. QED
    BY <1>1, <1>4 DEF Users

LEMMA DeviceMark ==
  ASSUME BaseInv, MarkInv, ~overlapped,
         \/ \E t, p \in Task : SeePredecessor(t, p)
         \/ \E t \in Task : FinishTask(t)
         \/ \E q \in Queue : PassBarrier(q)
         \/ \E q \in Queue, p \in Task : SeeSink(q, p)
  PROVE  MarkInv'
  <1>1. UNCHANGED <<state, dispatched, sinks, handlers, handling, thread>>
    BY FinishTaskFacts
    DEF SeePredecessor, PassBarrier, SeeSink, taskVars, listVars, batchVars
  <1>2. ASSUME NEW k \in Thread, NEW u \in Task, At(k, "mark"), thread[k].task = u, WaitedFor(u)
        PROVE  WaitedFor(u)'
    <2>1. Acquired(u) /\ u \notin published /\ u \notin finished
      BY <1>2 DEF BaseInv, TurnInv, TypeInv, At
    <2>2. ASSUME NEW t \in Task, NEW p \in Task, SeePredecessor(t, p)
          PROVE  WaitedFor(u)'
      BY <1>2, <2>2, SinksKept DEF SeePredecessor
    <2>3. ASSUME NEW t \in Task, FinishTask(t)
          PROVE  WaitedFor(u)'
      <3>1. CASE KindOf[t] = "gpu"
        <4>1. PICK i \in DOMAIN queue[QueueOf[t]] :
                RunnableAt(t, i) /\ Drops(QueueOf[t], i)
          BY <2>3, <3>1, FinishTaskDrops
        <4>2. ~IsSinks(QueueOf[t], i)
          BY <4>1 DEF RunnableAt, IsSinks, TaskPacket
        <4>3. QED
          BY <1>2, <4>1, <4>2, DropSinks, Constants DEF BaseInv
      <3>2. CASE KindOf[t] # "gpu"
        <4>1. queue' = queue
          BY <2>3, <3>2, FinishTaskFacts
        <4>2. QED
          BY <1>2, <4>1, SinksKept
      <3>3. QED
        BY <3>1, <3>2
    <2>4. ASSUME NEW q \in Queue, PassBarrier(q)
          PROVE  WaitedFor(u)'
      <3>1. IsSinks(q, 1) => queue[q][1].sinks = {}
        BY <2>4, PassBarrierFacts DEF BaseInv, IsSinks
      <3>2. QED
        BY <1>2, <2>4, <3>1, PassBarrierDrops, DropSinks DEF BaseInv
    <2>5. ASSUME NEW q \in Queue, NEW p \in Task, SeeSink(q, p)
          PROVE  WaitedFor(u)'
      <3>1. AtZero(p)
        BY <2>5, SeeSinkSinks DEF BaseInv
      <3>2. u # p
        BY <2>1, <3>1, AtZeroFinished
      <3>3. QED
        BY <1>2, <2>5, <3>2, SeeSinkSinks DEF BaseInv
    <2>6. QED
      BY <2>2, <2>3, <2>4, <2>5
  <1>3. ASSUME NEW k \in Thread, NEW u \in Task, At(k, "mark"), thread[k].task = u, HeldBack(u)
        PROVE  HeldBack(u)'
    <2>1. WaitedFor(u) => WaitedFor(u)'
      BY <1>2, <1>3
    <2>2. QED
      BY <1>1, <1>3, <2>1, HeldKept
  <1>4. \A k \in Thread : At(k, "mark")' =>
          At(k, "mark") /\ thread'[k].task = thread[k].task
    BY <1>1 DEF At
  <1>5. QED
    BY <1>3, <1>4, MarkKept DEF BaseInv

LEMMA OverlapStays ==
  ASSUME BaseInv, Calm \/ Busy
  PROVE  overlapped => overlapped'
  <1>1. CASE Calm
    BY <1>1 DEF Calm
  <1>2. ASSUME NEW h \in Thread,
               \/ TryAcquires(h) \/ MarkDispatched(h)
               \/ Takes(h) \/ StoreIdentity(h) \/ EnqueueBarrier(h) \/ RegisterHandler(h)
        PROVE  overlapped => overlapped'
    BY <1>2, AcquiresFacts, MarkDispatchedFacts, TakesFacts, StoreIdentityFacts,
       EnqueueBarrierFacts, RegisterHandlerFacts
  <1>3. ASSUME NEW b \in handlers, HandleSignal(b)
        PROVE  overlapped => overlapped'
    BY <1>3, HandleSignalFacts
  <1>4. CASE MarkExecuted \/ ReleaseSignal
    BY <1>4, HandledFacts
  <1>5. ASSUME \/ \E t, p \in Task : SeePredecessor(t, p)
               \/ \E t \in Task : FinishTask(t)
               \/ \E q \in Queue : PassBarrier(q)
               \/ \E q \in Queue, p \in Task : SeeSink(q, p)
        PROVE  overlapped => overlapped'
    BY <1>5, FinishTaskFacts DEF SeePredecessor, PassBarrier, SeeSink, batchVars
  <1>6. QED
    BY <1>1, <1>2, <1>3, <1>4, <1>5 DEF Busy

LEMMA MarkStep ==
  ASSUME BaseInv, FlightInv, MarkInv, [Next]_vars
  PROVE  MarkInv'
  <1> SUFFICES ASSUME ~overlapped' PROVE MarkInv'
    BY DEF MarkInv
  <1>1. ~overlapped
    BY CalmOrBusy, OverlapStays
  <1>2. CASE Calm
    BY <1>1, <1>2, CalmMark
  <1>3. CASE Busy
    BY <1>1, <1>3, TryAcquiresMark, MarkDispatchedMark, TakesMark, StoreIdentityMark,
       EnqueueBarrierMark, RegisterHandlerMark, HandleSignalMark, HandledMark, DeviceMark
    DEF Busy
  <1>4. QED
    BY <1>2, <1>3, CalmOrBusy

-----------------------------------------------------------------------------
(* SignalsExclusive.                                                         *)

LEMMA OwnersKept ==
  ASSUME SignalsExclusive, overlapped => overlapped',
         UNCHANGED <<freeSignals, signalOf>>, Holders' \subseteq Holders
  PROVE  SignalsExclusive'
  BY DEF SignalsExclusive

LEMMA HolderStates ==
  ASSUME TypeInv
  PROVE  \A t \in Task : t \in Holders <=> state[t] \in {1, 2, 3}
  BY StateNumbers DEF Holders, READY, EXECUTED

LEMMA StatesHolders ==
  ASSUME TypeInv, TypeInv', state' = state
  PROVE  Holders' = Holders
  BY DEF Holders

LEMMA TryAcquiresOwners ==
  ASSUME BaseInv, BaseInv', SignalsExclusive, NEW h \in Thread, TryAcquires(h)
  PROVE  SignalsExclusive'
  <1>1. PICK t \in Task : t = thread[h].task
    BY AcquiresFacts
  <1>2. PICK q \in Seq(Signal) : q = freeSignals
    BY AcquiresFacts
  <1>3. PICK s \in Signal : s = Head(q)
    BY <1>2, AcquiresFacts
  <1>4. /\ state'[t] = 1 /\ \A u \in Task : u # t => state'[u] = state[u]
        /\ q # <<>> /\ freeSignals' = Tail(q)
        /\ signalOf'[t] = s /\ \A u \in Task : u # t => signalOf'[u] = signalOf[u]
        /\ overlapped' = overlapped
    BY <1>1, <1>2, <1>3, AcquiresFacts
  <1> SUFFICES ASSUME ~overlapped PROVE SignalsExclusive'
    BY <1>4 DEF SignalsExclusive
  <1>5. \A u \in Task : u # t => (u \in Holders' <=> u \in Holders)
    BY <1>4 DEF Holders
  <1>6. Injective(q) /\ Elements(q) = {s} \cup Elements(Tail(q))
        /\ Injective(Tail(q)) /\ s \notin Elements(Tail(q))
    <2>1. Injective(q)
      BY <1>2 DEF SignalsExclusive, Injective
    <2>2. QED
      BY <1>3, <1>4, <2>1, TailFacts
  <1>7. \A u \in Holders : signalOf[u] \notin Elements(q)
    BY <1>2 DEF SignalsExclusive
  <1>8. \A u \in Holders' : u # t =>
          u \in Holders /\ signalOf'[u] = signalOf[u] /\ signalOf'[u] \notin Elements(q)
    <2>1. Holders' \subseteq Task
      BY DEF Holders
    <2>2. QED
      BY <1>4, <1>5, <1>7, <2>1
  <1>9. \A u \in Holders' : signalOf'[u] \notin Elements(freeSignals')
    BY <1>4, <1>6, <1>8
  <1>10. \A u, v \in Holders' : u # v => signalOf'[u] # signalOf'[v]
    <2> SUFFICES ASSUME NEW u \in Holders', NEW v \in Holders', u # v
                 PROVE  signalOf'[u] # signalOf'[v]
      OBVIOUS
    <2>1. CASE u # t /\ v # t
      BY <1>8, <2>1 DEF SignalsExclusive
    <2>2. CASE u = t
      BY <1>4, <1>6, <1>8, <2>2
    <2>3. CASE v = t
      BY <1>4, <1>6, <1>8, <2>3
    <2>4. QED
      BY <2>1, <2>2, <2>3
  <1>11. Injective(freeSignals)'
    BY <1>4, <1>6 DEF Injective
  <1>12. QED
    BY <1>9, <1>10, <1>11 DEF SignalsExclusive, Injective

LEMMA ReleaseSignalOwners ==
  ASSUME BaseInv, BaseInv', SignalsExclusive, ReleaseSignal
  PROVE  SignalsExclusive'
  <1>1. PICK t \in Task :
          /\ t = Head(handling) /\ state[t] \in 1..3
          /\ \A u \in Task : u # t => state'[u] = state[u]
          /\ UNCHANGED <<signalOf, overlapped>>
    BY HandledFacts
  <1>2. state'[t] = 4 /\ freeSignals' = Append(freeSignals, signalOf[t])
    <2>1. state' = [state EXCEPT ![t] = 4] /\ freeSignals' = Append(freeSignals, signalOf[t])
      BY <1>1 DEF ReleaseSignal, COMPLETED
    <2>2. QED
      BY <1>1, <2>1 DEF BaseInv, TypeInv
  <1> SUFFICES ASSUME ~overlapped PROVE SignalsExclusive'
    BY <1>1 DEF SignalsExclusive
  <1>3. t \in Holders /\ t \notin Holders'
    <2>1. t \in Holders <=> state[t] \in {1, 2, 3}
      BY HolderStates DEF BaseInv
    <2>2. t \in Holders' <=> state'[t] \in 1..3
      BY DEF Holders, READY, EXECUTED
    <2>3. QED
      BY <1>1, <1>2, <2>1, <2>2
  <1>4. Holders' = Holders \ {t}
    <2>1. \A u \in Task : u # t => (u \in Holders' <=> u \in Holders)
      BY <1>1 DEF Holders
    <2>2. Holders \subseteq Task /\ Holders' \subseteq Task
      BY DEF Holders
    <2>3. QED
      BY <1>3, <2>1, <2>2
  <1>5. PICK q \in Seq(Signal) : q = freeSignals
    BY DEF BaseInv, TypeInv
  <1>6. PICK s \in Signal : s = signalOf[t]
    <2>1. Acquired(t)
      BY <1>1 DEF Acquired, READY
    <2>2. QED
      BY <2>1 DEF BaseInv, SignalInv, TypeInv
  <1>7. /\ DOMAIN q = 1..Len(q) /\ DOMAIN Append(q, s) = 1..Len(q) + 1 /\ Len(q) \in Nat
        /\ \A i \in DOMAIN q : Append(q, s)[i] = q[i]
        /\ Append(q, s)[Len(q) + 1] = s
        /\ Elements(Append(q, s)) = Elements(q) \cup {s}
    BY AppendFacts, InElements
  <1>8. Injective(q) /\ s \notin Elements(q)
    BY <1>3, <1>5, <1>6 DEF SignalsExclusive, Injective
  <1>9. Injective(Append(q, s))
    <2>1. \A i \in DOMAIN Append(q, s) : i \in DOMAIN q \/ i = Len(q) + 1
      BY <1>7
    <2>2. \A i \in DOMAIN q : Append(q, s)[i] # s
      BY <1>7, <1>8 DEF Elements
    <2>3. QED
      BY <1>7, <1>8, <2>1, <2>2 DEF Injective
  <1>10. \A u \in Holders' : signalOf'[u] \notin Elements(freeSignals')
    <2>1. \A u \in Holders : u # t => signalOf[u] # s
      BY <1>3, <1>6 DEF SignalsExclusive
    <2>2. QED
      BY <1>1, <1>2, <1>4, <1>5, <1>6, <1>7, <2>1 DEF SignalsExclusive
  <1>11. \A u, v \in Holders' : u # v => signalOf'[u] # signalOf'[v]
    BY <1>1, <1>4 DEF SignalsExclusive
  <1>12. Injective(freeSignals')
    BY <1>2, <1>5, <1>6, <1>9
  <1>13. \A i, j \in DOMAIN freeSignals' : freeSignals'[i] = freeSignals'[j] => i = j
    BY <1>12 DEF Injective
  <1>14. QED
    BY <1>10, <1>11, <1>13 DEF SignalsExclusive

LEMMA CalmOwners ==
  ASSUME BaseInv, BaseInv', SignalsExclusive, Calm
  PROVE  SignalsExclusive'
  <1>1. UNCHANGED <<freeSignals, signalOf, overlapped>>
    BY DEF Calm
  <1>2. Holders' \subseteq Holders
    <2>1. ASSUME NEW u \in Task, u \in Holders'
          PROVE  u \in Holders
      <3>1. state'[u] \in 1..3
        BY <2>1 DEF Holders, READY, EXECUTED
      <3>2. state[u] \in Int
        BY StateNumbers DEF BaseInv
      <3>3. state[u] >= 1
        BY <3>1, <3>2 DEF Calm
      <3>4. state'[u] = state[u]
        BY <3>3 DEF Calm
      <3>5. QED
        BY <2>1, <3>4 DEF Holders
    <2>2. QED
      BY <2>1 DEF Holders
  <1>3. QED
    BY <1>1, <1>2, OwnersKept

LEMMA BusyOwners ==
  ASSUME BaseInv, BaseInv', MarkInv, SignalsExclusive, Busy
  PROVE  SignalsExclusive'
  <1> USE OverlapStays
  <1>1. ASSUME NEW h \in Thread, MarkDispatched(h), ~overlapped
        PROVE  SignalsExclusive'
    <2>1. PICK t \in Task :
            /\ thread[h].at = "mark" /\ thread[h].task = t
            /\ state'[t] = 2 /\ \A u \in Task : u # t => state'[u] = state[u]
            /\ UNCHANGED <<signalOf, freeSignals, overlapped>>
      BY <1>1, MarkDispatchedFacts
    <2>2. state[t] = 1
      BY <1>1, <2>1 DEF MarkInv, HeldBack, READY, At
    <2>3. t \in Holders
      BY <2>2, HolderStates DEF BaseInv
    <2>4. Holders' \subseteq Holders
      <3>1. \A u \in Task : u # t => (u \in Holders' <=> u \in Holders)
        BY <2>1 DEF Holders
      <3>2. QED
        BY <2>3, <3>1 DEF Holders
    <2>5. QED
      BY <2>1, <2>4, OwnersKept
  <1>2. ASSUME NEW h \in Thread,
               Takes(h) \/ StoreIdentity(h) \/ EnqueueBarrier(h) \/ RegisterHandler(h)
        PROVE  SignalsExclusive'
    <2>1. UNCHANGED <<state, signalOf, freeSignals>>
      BY <1>2, TakesFacts, StoreIdentityFacts, EnqueueBarrierFacts, RegisterHandlerFacts
    <2>2. QED
      BY <2>1, StatesHolders, OwnersKept DEF BaseInv
  <1>3. ASSUME NEW b \in handlers, HandleSignal(b)
        PROVE  SignalsExclusive'
    <2>1. UNCHANGED <<state, signalOf, freeSignals>>
      BY <1>3, HandleSignalFacts
    <2>2. QED
      BY <2>1, StatesHolders, OwnersKept DEF BaseInv
  <1>4. CASE MarkExecuted
    <2>1. PICK t \in Task :
            /\ t = Head(handling) /\ state[t] \in 1..3
            /\ \A u \in Task : u # t => state'[u] = state[u]
            /\ UNCHANGED <<signalOf, overlapped>>
      BY <1>4, HandledFacts
    <2>2. freeSignals' = freeSignals
      BY <1>4 DEF MarkExecuted
    <2>3. t \in Holders
      BY <2>1, HolderStates DEF BaseInv
    <2>4. Holders' \subseteq Holders
      <3>1. \A u \in Task : u # t => (u \in Holders' <=> u \in Holders)
        BY <2>1 DEF Holders
      <3>2. QED
        BY <2>3, <3>1 DEF Holders
    <2>5. QED
      BY <2>1, <2>2, <2>4, OwnersKept
  <1>5. ASSUME \/ \E t, p \in Task : SeePredecessor(t, p)
               \/ \E t \in Task : FinishTask(t)
               \/ \E q \in Queue : PassBarrier(q)
               \/ \E q \in Queue, p \in Task : SeeSink(q, p)
        PROVE  SignalsExclusive'
    <2>1. UNCHANGED <<state, signalOf, freeSignals>>
      BY <1>5, FinishTaskFacts DEF SeePredecessor, PassBarrier, SeeSink, taskVars
    <2>2. QED
      BY <2>1, StatesHolders, OwnersKept DEF BaseInv
  <1>6. ASSUME overlapped
        PROVE  SignalsExclusive'
    BY <1>6 DEF SignalsExclusive
  <1>7. QED
    BY <1>1, <1>2, <1>3, <1>4, <1>5, <1>6, TryAcquiresOwners, ReleaseSignalOwners DEF Busy

Owned == BaseInv /\ FlightInv /\ MarkInv /\ SignalsExclusive

LEMMA InitOwned ==
  ASSUME Init
  PROVE  Owned
  <1>1. /\ \A h \in Thread : thread[h].at = "idle"
        /\ \A t \in Task : state[t] = -1
        /\ freeSignals = Pool
    BY DEF Init, Idle, Frame, UNINITIALIZED
  <1>2. MarkInv
    BY <1>1 DEF MarkInv, At
  <1>3. Holders = {}
    <2>1. -1 \notin 1..3
      OBVIOUS
    <2>2. QED
      BY <1>1, <2>1 DEF Holders, READY, EXECUTED
  <1>4. \A i, j \in DOMAIN freeSignals : freeSignals[i] = freeSignals[j] => i = j
    BY <1>1, BarrierAssumption
  <1>5. SignalsExclusive
    BY <1>3, <1>4 DEF SignalsExclusive
  <1>6. QED
    BY <1>2, <1>5, InitBase, InitFlight DEF Owned

LEMMA OwnedStep ==
  ASSUME Owned, [Next]_vars
  PROVE  Owned'
  <1>1. BaseInv' /\ FlightInv' /\ MarkInv'
    BY BaseStep, FlightStep, MarkStep DEF Owned
  <1>2. SignalsExclusive'
    BY <1>1, CalmOrBusy, CalmOwners, BusyOwners DEF Owned
  <1>3. QED
    BY <1>1, <1>2 DEF Owned

\* SignalsExclusive, for all programs: a signal, and the kernarg segment with
\* it, belongs to a task or to the pool, though MarkDispatched comes after the
\* task is in the lists from which another thread may end its batch.
THEOREM SignalsHaveOneOwner == Spec => []SignalsExclusive
  <1>1. Init => Owned
    BY InitOwned
  <1>2. Owned /\ [Next]_vars => Owned'
    BY OwnedStep
  <1>3. Owned => SignalsExclusive
    BY DEF Owned
  <1>4. QED
    BY <1>1, <1>2, <1>3, PTL DEF Spec

-----------------------------------------------------------------------------
(* PacketInv.                                                                *)

LEMMA PacketNames ==
  /\ \A t, u \in Task : TaskPacket(t) = TaskPacket(u) => t = u
  /\ \A t, u \in Task : TaskPacket(t) # DepsPacket(u)
  /\ \A t \in Task : \A S : TaskPacket(t) # SinksPacket(S)
  /\ \A t \in Task : TaskPacket(t).type = "task"
  BY DEF TaskPacket, DepsPacket, SinksPacket

SamePlaces ==
  \A t \in Task, q \in Queue : \A i : PacketAt(t, q, i) <=> PacketAt(t, q, i)'

LEMMA QueueSame ==
  ASSUME queue' = queue
  PROVE  SamePlaces
  BY DEF PacketAt, SamePlaces

\* The place of the packet of a task does not change.
LEMMA PacketKept ==
  ASSUME PacketInv, finished' = finished, SamePlaces,
         \A t \in Task : Acquired(t) <=> Acquired(t)'
  PROVE  PacketInv'
  <1>1. ASSUME NEW t \in Task, NEW q \in Queue, NEW i \in DOMAIN queue'[q], PacketAt(t, q, i)'
        PROVE  /\ q = QueueOf[t] /\ KindOf[t] = "gpu"
               /\ Acquired(t)' /\ t \notin finished'
               /\ \A j \in DOMAIN queue'[q] : PacketAt(t, q, j)' => j = i
    <2>1. PacketAt(t, q, i) /\ i \in DOMAIN queue[q]
      BY <1>1 DEF PacketAt, SamePlaces
    <2>2. \A j : PacketAt(t, q, j)' => PacketAt(t, q, j) /\ j \in DOMAIN queue[q]
      BY DEF PacketAt, SamePlaces
    <2>3. QED
      BY <2>1, <2>2 DEF PacketInv
  <1>2. ASSUME NEW t \in Task, KindOf[t] = "gpu", Acquired(t)', t \notin finished'
        PROVE  \E i \in DOMAIN queue'[QueueOf[t]] : PacketAt(t, QueueOf[t], i)'
    <2>1. PICK i \in DOMAIN queue[QueueOf[t]] : PacketAt(t, QueueOf[t], i)
      BY <1>2 DEF PacketInv
    <2>2. PacketAt(t, QueueOf[t], i)'
      BY <2>1, Constants DEF SamePlaces
    <2>3. QED
      BY <2>2 DEF PacketAt
  <1>3. QED
    BY <1>1, <1>2 DEF PacketInv

\* The steps that leave the queues, the lists of batches and the devices alone,
\* but for the label of a thread or the state of a task that has its resources.
Still ==
  \/ Calm
  \/ \E h \in Thread : MarkDispatched(h) \/ StoreIdentity(h)
  \/ MarkExecuted
  \/ ReleaseSignal

LEMMA StillFacts ==
  ASSUME BaseInv, BaseInv', Still
  PROVE  /\ UNCHANGED <<queue, finished, awaited, dispatched, sinks, handlers>>
         /\ \A t \in Task : Acquired(t) <=> Acquired(t)'
         /\ \A k \in Thread : thread'[k].batch = thread[k].batch
         /\ \A k \in Thread : thread'[k].at = "register" <=> thread[k].at = "register"
         /\ \A g \in Group : CopiesAdjacent(g) => CopiesAdjacent(g)'
  <1>1. CASE Calm
    <2>1. ASSUME NEW t \in Task
          PROVE  Acquired(t) <=> Acquired(t)'
      <3>1. state[t] \in -1..4 /\ state'[t] \in -1..4
        BY DEF BaseInv, TypeInv, UNINITIALIZED, COMPLETED
      <3>2. /\ state[t] >= 1 => state'[t] = state[t]
            /\ state[t] < 1 => state'[t] < 1
        BY <1>1 DEF Calm
      <3>3. QED
        BY <3>1, <3>2 DEF Acquired, READY
    <2>2. QED
      BY <1>1, <2>1 DEF Calm
  <1>2. ASSUME NEW h \in Thread, MarkDispatched(h)
        PROVE  /\ UNCHANGED <<queue, finished, awaited, dispatched, sinks, handlers, prevOrdered>>
               /\ \A t \in Task : Acquired(t) <=> Acquired(t)'
               /\ \A k \in Thread : thread'[k].batch = thread[k].batch
               /\ \A k \in Thread : thread'[k].at = "register" <=> thread[k].at = "register"
    <2>1. PICK t \in Task :
           /\ thread[h].at = "mark" /\ thread[h].task = t /\ thread'[h].at = "publish"
           /\ thread'[h].batch = thread[h].batch /\ Others(h)
           /\ state'[t] = 2 /\ \A u \in Task : u # t => state'[u] = state[u]
           /\ UNCHANGED <<queue, finished, awaited, dispatched, sinks, handlers, prevOrdered>>
      BY <1>2, MarkDispatchedFacts
    <2>2. Acquired(t) /\ Acquired(t)'
      BY <2>1 DEF BaseInv, TurnInv, Acquired, READY
    <2>3. \A u \in Task : Acquired(u) <=> Acquired(u)'
      BY <2>1, <2>2 DEF Acquired
    <2>4. QED
      BY <2>1, <2>3 DEF Others
  <1>3. ASSUME NEW h \in Thread, StoreIdentity(h)
        PROVE  /\ UNCHANGED <<queue, finished, awaited, dispatched, sinks, handlers, prevOrdered>>
               /\ \A t \in Task : Acquired(t) <=> Acquired(t)'
               /\ \A k \in Thread : thread'[k].batch = thread[k].batch
               /\ \A k \in Thread : thread'[k].at = "register" <=> thread[k].at = "register"
    BY <1>3, StoreIdentityFacts DEF Others, Acquired
  <1>4. CASE MarkExecuted \/ ReleaseSignal
    <2>1. PICK t \in Task :
           /\ state[t] \in 1..3 /\ state'[t] \in {3, 4}
           /\ \A u \in Task : u # t => state'[u] = state[u]
           /\ thread[Callback].at \in {"execute", "release"}
           /\ thread'[Callback].at \in {"execute", "release", "progress"}
           /\ thread'[Callback].batch = thread[Callback].batch /\ Others(Callback)
           /\ UNCHANGED <<queue, finished, awaited, dispatched, sinks, handlers, prevOrdered>>
      BY <1>4, HandledFacts
    <2>2. Acquired(t) /\ Acquired(t)'
      BY <2>1 DEF Acquired, READY
    <2>3. \A u \in Task : Acquired(u) <=> Acquired(u)'
      BY <2>1, <2>2 DEF Acquired
    <2>4. QED
      BY <2>1, <2>3, AdjacentKept DEF Others
  <1>5. QED
    BY <1>1, <1>2, <1>3, <1>4, AdjacentKept DEF Still

LEMMA StillPacket ==
  ASSUME BaseInv, BaseInv', PacketInv, Still
  PROVE  PacketInv'
  BY StillFacts, QueueSame, PacketKept

LEMMA BatchPacket ==
  ASSUME BaseInv, PacketInv,
         \/ \E h \in Thread : Takes(h) \/ RegisterHandler(h)
         \/ \E b \in handlers : HandleSignal(b)
         \/ \E t, p \in Task : SeePredecessor(t, p)
  PROVE  PacketInv'
  <1>1. UNCHANGED <<state, queue, finished>>
    BY TakesFacts, RegisterHandlerFacts, HandleSignalFacts DEF SeePredecessor, taskVars
  <1>2. QED
    BY <1>1, QueueSame, PacketKept DEF Acquired

\* What the new packets of a queue are.
LEMMA GrowPlaces ==
  ASSUME TypeInv, NEW q \in Queue, NEW S, Grows(q, S)
  PROVE  /\ \A t \in Task, r \in Queue : \A i :
              PacketAt(t, r, i) => PacketAt(t, r, i)'
         /\ \A t \in Task, r \in Queue : \A i :
              PacketAt(t, r, i)' /\ ~PacketAt(t, r, i) => r = q /\ TaskPacket(t) \in S
         /\ \A t \in Task : TaskPacket(t) \in S =>
              \E i \in DOMAIN queue'[q] : i \notin DOMAIN queue[q] /\ PacketAt(t, q, i)'
         /\ \A t \in Task : \A i, j \in DOMAIN queue'[q] :
              /\ i \notin DOMAIN queue[q] /\ j \notin DOMAIN queue[q]
              /\ PacketAt(t, q, i)' /\ PacketAt(t, q, j)'
              => i = j
         /\ \A i \in DOMAIN queue[q], j \in DOMAIN queue'[q] : j \notin DOMAIN queue[q] => i < j
  <1>1. /\ \A i \in DOMAIN queue[q] : i \in DOMAIN queue'[q] /\ queue'[q][i] = queue[q][i]
        /\ \A i \in DOMAIN queue'[q] : i \notin DOMAIN queue[q] =>
             queue'[q][i] \in S /\ \A j \in DOMAIN queue[q] : j < i
        /\ \A p \in S : \E i \in DOMAIN queue'[q] : i \notin DOMAIN queue[q] /\ queue'[q][i] = p
        /\ \A i, j \in DOMAIN queue'[q] :
             /\ i \notin DOMAIN queue[q] /\ j \notin DOMAIN queue[q]
             /\ queue'[q][i] = queue'[q][j]
             => i = j
        /\ \A r \in Queue : r # q => queue'[r] = queue[r]
    BY DEF Grows
  <1>2. \A t \in Task, r \in Queue : \A i : PacketAt(t, r, i) => PacketAt(t, r, i)'
    BY <1>1 DEF PacketAt
  <1>3. \A t \in Task, r \in Queue : \A i :
          PacketAt(t, r, i)' /\ ~PacketAt(t, r, i) => r = q /\ TaskPacket(t) \in S
    BY <1>1 DEF PacketAt
  <1>4. \A t \in Task : TaskPacket(t) \in S =>
          \E i \in DOMAIN queue'[q] : i \notin DOMAIN queue[q] /\ PacketAt(t, q, i)'
    BY <1>1 DEF PacketAt
  <1>5. \A t \in Task : \A i, j \in DOMAIN queue'[q] :
          /\ i \notin DOMAIN queue[q] /\ j \notin DOMAIN queue[q]
          /\ PacketAt(t, q, i)' /\ PacketAt(t, q, j)'
          => i = j
    BY <1>1 DEF PacketAt
  <1>6. \A i \in DOMAIN queue[q], j \in DOMAIN queue'[q] : j \notin DOMAIN queue[q] => i < j
    BY <1>1
  <1>7. QED
    BY <1>2, <1>3, <1>4, <1>5, <1>6

LEMMA EnqueueBarrierPacket ==
  ASSUME BaseInv, PacketInv, NEW h \in Thread, EnqueueBarrier(h)
  PROVE  PacketInv'
  <1>1. UNCHANGED <<state, finished>>
    BY EnqueueBarrierFacts
  <1>2. PICK q \in Queue : Grows(q, {SinksPacket(thread[h].batch.sinks)})
    BY EnqueueGrows
  <1>3. SamePlaces
    BY <1>2, GrowPlaces, PacketNames DEF BaseInv, SamePlaces
  <1>4. QED
    BY <1>1, <1>3, PacketKept DEF Acquired

LEMMA TryAcquiresPacket ==
  ASSUME BaseInv, PacketInv, NEW h \in Thread, TryAcquires(h)
  PROVE  PacketInv'
  <1>1. PICK t \in Task : t = thread[h].task
    BY AcquiresFacts
  <1>2. PICK q \in Queue : q = QueueOf[t]
    BY Constants
  <1>3. /\ state'[t] = 1 /\ \A u \in Task : u # t => state'[u] = state[u]
        /\ finished' = finished /\ ~Acquired(t)
    BY <1>1, AcquiresFacts
  <1>4. t \notin finished /\ Acquired(t)' /\ \A u \in Task : u # t => (Acquired(u) <=> Acquired(u)')
    BY <1>3 DEF BaseInv, TurnInv, TypeInv, Acquired, READY
  <1>5. Grows(q, NewPackets(t))
    BY <1>1, <1>2, AcquiresGrows
  <1>6. /\ \A u \in Task : TaskPacket(u) \in NewPackets(t) => u = t /\ KindOf[t] = "gpu"
        /\ KindOf[t] = "gpu" => TaskPacket(t) \in NewPackets(t)
    BY PacketNames, Constants DEF NewPackets
  <1>7. /\ \A u \in Task, r \in Queue : \A i :
             PacketAt(u, r, i) => PacketAt(u, r, i)'
        /\ \A u \in Task, r \in Queue : \A i :
             PacketAt(u, r, i)' /\ ~PacketAt(u, r, i) => r = q /\ u = t /\ KindOf[t] = "gpu"
        /\ KindOf[t] = "gpu" => \E i \in DOMAIN queue'[q] : PacketAt(t, q, i)'
        /\ \A i, j \in DOMAIN queue'[q] :
             /\ i \notin DOMAIN queue[q] /\ j \notin DOMAIN queue[q]
             /\ PacketAt(t, q, i)' /\ PacketAt(t, q, j)'
             => i = j
    BY <1>5, <1>6, GrowPlaces DEF BaseInv
  <1>8. \A r \in Queue : \A i : ~PacketAt(t, r, i)
    BY <1>3 DEF PacketInv, PacketAt
  <1>9. ASSUME NEW u \in Task, NEW r \in Queue, NEW i \in DOMAIN queue'[r], PacketAt(u, r, i)'
        PROVE  /\ r = QueueOf[u] /\ KindOf[u] = "gpu"
               /\ Acquired(u)' /\ u \notin finished'
               /\ \A j \in DOMAIN queue'[r] : PacketAt(u, r, j)' => j = i
    <2>1. CASE u = t
      <3>1. r = q /\ KindOf[t] = "gpu"
        BY <1>7, <1>8, <1>9, <2>1
      <3>2. \A j \in DOMAIN queue'[q] : PacketAt(t, q, j)' => j \notin DOMAIN queue[q]
        BY <1>5, <1>8 DEF Grows, PacketAt
      <3>3. \A j \in DOMAIN queue'[q] : PacketAt(t, q, j)' => j = i
        BY <1>7, <1>9, <2>1, <3>1, <3>2
      <3>4. QED
        BY <1>2, <1>3, <1>4, <2>1, <3>1, <3>3
    <2>2. CASE u # t
      <3>1. \A j : PacketAt(u, r, j)' => PacketAt(u, r, j) /\ j \in DOMAIN queue[r]
        BY <1>7, <2>2 DEF PacketAt
      <3>2. PacketAt(u, r, i) /\ i \in DOMAIN queue[r]
        BY <1>9, <3>1
      <3>3. QED
        BY <1>3, <1>4, <2>2, <3>1, <3>2 DEF PacketInv
    <2>3. QED
      BY <2>1, <2>2
  <1>10. ASSUME NEW u \in Task, KindOf[u] = "gpu", Acquired(u)', u \notin finished'
         PROVE  \E i \in DOMAIN queue'[QueueOf[u]] : PacketAt(u, QueueOf[u], i)'
    <2>1. CASE u = t
      BY <1>2, <1>7, <1>10, <2>1
    <2>2. CASE u # t
      <3>1. PICK i \in DOMAIN queue[QueueOf[u]] : PacketAt(u, QueueOf[u], i)
        BY <1>3, <1>4, <1>10, <2>2 DEF PacketInv
      <3>2. PacketAt(u, QueueOf[u], i)'
        BY <1>7, <3>1, Constants
      <3>3. QED
        BY <3>2 DEF PacketAt
    <2>3. QED
      BY <2>1, <2>2
  <1>11. QED
    BY <1>9, <1>10 DEF PacketInv

\* What is left of a queue when a packet is gone.
LEMMA DropPackets ==
  ASSUME TypeInv, NEW q \in Queue, NEW i, Drops(q, i)
  PROVE  /\ \A t \in Task, r \in Queue : \A j : PacketAt(t, r, j)' =>
              PacketAt(t, r, IF r = q THEN OldPlace(i, j) ELSE j)
         /\ \A t \in Task, r \in Queue : \A j :
              PacketAt(t, r, j) /\ ~(r = q /\ j = i) =>
                PacketAt(t, r, IF r = q THEN NewPlace(i, j) ELSE j)'
         /\ \A t \in Task : \A j : PacketAt(t, q, j)' => OldPlace(i, j) # i
  <1>1. /\ \A j \in DOMAIN queue'[q] :
             /\ OldPlace(i, j) \in DOMAIN queue[q] /\ OldPlace(i, j) # i
             /\ queue'[q][j] = queue[q][OldPlace(i, j)]
        /\ \A k \in DOMAIN queue[q] : k # i =>
             /\ NewPlace(i, k) \in DOMAIN queue'[q]
             /\ queue'[q][NewPlace(i, k)] = queue[q][k]
        /\ \A r \in Queue : r # q => queue'[r] = queue[r]
    BY DropPlaces DEF Drops
  <1>2. \A t \in Task : \A j : PacketAt(t, q, j)' =>
          PacketAt(t, q, OldPlace(i, j)) /\ OldPlace(i, j) # i
    BY <1>1 DEF PacketAt
  <1>3. \A t \in Task : \A j : PacketAt(t, q, j) /\ j # i => PacketAt(t, q, NewPlace(i, j))'
    BY <1>1 DEF PacketAt
  <1>4. \A t \in Task, r \in Queue : \A j : r # q => (PacketAt(t, r, j) <=> PacketAt(t, r, j)')
    BY <1>1 DEF PacketAt
  <1>5. QED
    BY <1>2, <1>3, <1>4

\* A packet goes that is not of a kernel, or that is of a kernel now finished.
LEMMA DropPacket ==
  ASSUME TypeInv, PacketInv, NEW q \in Queue, NEW i, Drops(q, i), state' = state,
         NEW F \in SUBSET Task, finished' = finished \cup F,
         \A t \in Task : PacketAt(t, q, i) => t \in F,
         \A t \in F : PacketAt(t, q, i)
  PROVE  PacketInv'
  <1>1. i \in DOMAIN queue[q]
    BY DEF Drops
  <1>2. \A t \in Task : Acquired(t) <=> Acquired(t)'
    BY DEF Acquired
  <1>3. ASSUME NEW t \in Task, NEW r \in Queue, NEW j \in DOMAIN queue'[r], PacketAt(t, r, j)'
        PROVE  /\ r = QueueOf[t] /\ KindOf[t] = "gpu"
               /\ Acquired(t)' /\ t \notin finished'
               /\ \A k \in DOMAIN queue'[r] : PacketAt(t, r, k)' => k = j
    <2>1. CASE r = q
      <3>1. /\ PacketAt(t, q, OldPlace(i, j)) /\ OldPlace(i, j) \in DOMAIN queue[q]
            /\ OldPlace(i, j) # i
        BY <1>3, <2>1, DropPackets DEF PacketAt
      <3>2. /\ q = QueueOf[t] /\ KindOf[t] = "gpu" /\ Acquired(t) /\ t \notin finished
            /\ \A k \in DOMAIN queue[q] : PacketAt(t, q, k) => k = OldPlace(i, j)
        BY <3>1 DEF PacketInv
      <3>3. t \notin F
        BY <1>1, <3>1, <3>2
      <3>4. ASSUME NEW k \in DOMAIN queue'[q], PacketAt(t, q, k)'
            PROVE  k = j
        <4>1. PacketAt(t, q, OldPlace(i, k)) /\ OldPlace(i, k) \in DOMAIN queue[q]
          BY <3>4, DropPackets DEF PacketAt
        <4>2. OldPlace(i, k) = OldPlace(i, j)
          BY <3>2, <4>1
        <4>3. QED
          BY <1>3, <2>1, <4>2, DropPlaces
      <3>5. QED
        BY <1>2, <2>1, <3>2, <3>3, <3>4
    <2>2. CASE r # q
      <3>1. /\ PacketAt(t, r, j) /\ j \in DOMAIN queue[r]
            /\ \A k : PacketAt(t, r, k)' => PacketAt(t, r, k) /\ k \in DOMAIN queue[r]
        BY <1>3, <2>2, DropPackets DEF PacketAt
      <3>2. /\ r = QueueOf[t] /\ KindOf[t] = "gpu" /\ Acquired(t) /\ t \notin finished
            /\ \A k \in DOMAIN queue[r] : PacketAt(t, r, k) => k = j
        BY <3>1 DEF PacketInv
      <3>3. t \notin F
        BY <1>1, <2>2, <3>2 DEF PacketInv
      <3>4. QED
        BY <1>2, <3>1, <3>2, <3>3
    <2>3. QED
      BY <2>1, <2>2
  <1>4. ASSUME NEW t \in Task, KindOf[t] = "gpu", Acquired(t)', t \notin finished'
        PROVE  \E k \in DOMAIN queue'[QueueOf[t]] : PacketAt(t, QueueOf[t], k)'
    <2>1. PICK r \in Queue : r = QueueOf[t]
      BY Constants
    <2>2. PICK k \in DOMAIN queue[r] : PacketAt(t, r, k)
      BY <1>2, <1>4, <2>1 DEF PacketInv
    <2>3. ~(r = q /\ k = i)
      BY <1>4, <2>2
    <2>4. \E l : PacketAt(t, r, l)'
      BY <2>2, <2>3, DropPackets
    <2>5. QED
      BY <2>1, <2>4 DEF PacketAt
  <1>5. QED
    BY <1>3, <1>4 DEF PacketInv

LEMMA PassBarrierPacket ==
  ASSUME BaseInv, PacketInv, NEW q \in Queue, PassBarrier(q)
  PROVE  PacketInv' /\ \A t \in Task : ~PacketAt(t, q, 1)
  <1>1. state' = state /\ finished' = finished \cup {}
    BY DEF PassBarrier, taskVars
  <1>2. Drops(q, 1)
    BY PassBarrierDrops DEF BaseInv
  <1>3. \A t \in Task : ~PacketAt(t, q, 1)
    <2>1. queue[q][1].type \in {"deps", "sinks"}
      BY PassBarrierFacts DEF BaseInv
    <2>2. QED
      BY <2>1, PacketNames DEF PacketAt
  <1>4. PICK F \in SUBSET Task : F = {}
    OBVIOUS
  <1>5. PacketInv'
    BY <1>1, <1>2, <1>3, <1>4, DropPacket DEF BaseInv
  <1>6. QED
    BY <1>3, <1>5

LEMMA FinishTaskPacket ==
  ASSUME BaseInv, PacketInv, NEW t \in Task, FinishTask(t)
  PROVE  PacketInv'
  <1>1. state' = state /\ finished' = finished \cup {t}
    BY FinishTaskFacts
  <1>2. CASE KindOf[t] = "gpu"
    <2>1. PICK i \in DOMAIN queue[QueueOf[t]] : RunnableAt(t, i) /\ Drops(QueueOf[t], i)
      BY <1>2, FinishTaskDrops
    <2>2. PacketAt(t, QueueOf[t], i)
      BY <2>1 DEF RunnableAt, PacketAt
    <2>3. \A u \in Task : PacketAt(u, QueueOf[t], i) => u \in {t}
      BY <2>2, PacketNames DEF PacketAt
    <2>4. PICK F \in SUBSET Task, q \in Queue : F = {t} /\ q = QueueOf[t]
      BY Constants
    <2>5. Drops(q, i) /\ \A u \in F : PacketAt(u, q, i)
      BY <2>1, <2>2, <2>4
    <2>6. \A u \in Task : PacketAt(u, q, i) => u \in F
      BY <2>3, <2>4
    <2>7. finished' = finished \cup F /\ state' = state /\ TypeInv
      BY <1>1, <2>4 DEF BaseInv
    <2>8. QED
      BY <2>5, <2>6, <2>7, DropPacket
  <1>3. CASE KindOf[t] # "gpu"
    <2>1. queue' = queue
      BY <1>3, FinishTaskFacts
    <2>2. \A u \in Task : u # t => (u \in finished <=> u \in finished')
      BY <1>1
    <2>3. \A u \in Task : Acquired(u) <=> Acquired(u)'
      BY <1>1 DEF Acquired
    <2>4. ASSUME NEW u \in Task, NEW r \in Queue, NEW i \in DOMAIN queue'[r], PacketAt(u, r, i)'
          PROVE  /\ r = QueueOf[u] /\ KindOf[u] = "gpu"
                 /\ Acquired(u)' /\ u \notin finished'
                 /\ \A j \in DOMAIN queue'[r] : PacketAt(u, r, j)' => j = i
      <3>1. PacketAt(u, r, i) /\ i \in DOMAIN queue[r]
        BY <2>1, <2>4 DEF PacketAt
      <3>2. /\ r = QueueOf[u] /\ KindOf[u] = "gpu" /\ Acquired(u) /\ u \notin finished
            /\ \A j \in DOMAIN queue[r] : PacketAt(u, r, j) => j = i
        BY <3>1 DEF PacketInv
      <3>3. \A j \in DOMAIN queue'[r] : PacketAt(u, r, j)' => j \in DOMAIN queue[r] /\ PacketAt(u, r, j)
        BY <2>1 DEF PacketAt
      <3>4. QED
        BY <1>3, <2>2, <2>3, <3>2, <3>3
    <2>5. ASSUME NEW u \in Task, KindOf[u] = "gpu", Acquired(u)', u \notin finished'
          PROVE  \E i \in DOMAIN queue'[QueueOf[u]] : PacketAt(u, QueueOf[u], i)'
      <3>1. PICK i \in DOMAIN queue[QueueOf[u]] : PacketAt(u, QueueOf[u], i)
        BY <1>1, <2>3, <2>5 DEF PacketInv
      <3>2. QED
        BY <2>1, <3>1 DEF PacketAt
    <2>6. QED
      BY <2>4, <2>5 DEF PacketInv
  <1>4. QED
    BY <1>2, <1>3

LEMMA SeeSinkPacket ==
  ASSUME BaseInv, PacketInv, NEW q \in Queue, NEW p \in Task, SeeSink(q, p)
  PROVE  PacketInv' /\ SamePlaces
  <1>1. UNCHANGED <<state, finished>>
    BY DEF SeeSink, taskVars
  <1>2. \A r \in Queue : /\ DOMAIN queue'[r] = DOMAIN queue[r]
                         /\ \A j \in DOMAIN queue[r] :
                              \/ queue'[r][j] = queue[r][j]
                              \/ IsSinks(r, j) /\ IsSinks(r, j)'
    BY SeeSinkSinks DEF BaseInv
  <1>3. SamePlaces
    <2>1. ASSUME NEW t \in Task, NEW r \in Queue, NEW j \in DOMAIN queue[r]
          PROVE  PacketAt(t, r, j) <=> PacketAt(t, r, j)'
      <3>1. CASE queue'[r][j] = queue[r][j]
        BY <1>2, <3>1 DEF PacketAt
      <3>2. CASE IsSinks(r, j) /\ IsSinks(r, j)'
        <4>1. queue[r][j].type = "sinks" /\ queue'[r][j].type = "sinks"
          BY <3>2 DEF IsSinks
        <4>2. QED
          BY <4>1, PacketNames DEF PacketAt
      <3>3. QED
        BY <1>2, <2>1, <3>1, <3>2
    <2>2. QED
      BY <1>2, <2>1 DEF SamePlaces, PacketAt
  <1>4. QED
    BY <1>1, <1>3, PacketKept DEF Acquired

LEMMA PacketStep ==
  ASSUME BaseInv, BaseInv', PacketInv, Calm \/ Busy
  PROVE  PacketInv'
  BY StillPacket, BatchPacket, EnqueueBarrierPacket, TryAcquiresPacket, PassBarrierPacket,
     FinishTaskPacket, SeeSinkPacket
  DEF Busy, Still

-----------------------------------------------------------------------------
(* CoverInv.                                                                 *)

\* What follows an unfinished task still does, and is not finished before it.
FollowKeeps ==
  \A t, u \in Task :
    t \notin finished' /\ u \notin finished /\ Follows(t, u) =>
      u \notin finished' /\ Follows(t, u)'

LEMMA BehindKept ==
  ASSUME NEW t \in Task, NEW u \in Task, Behind(t, u),
         \A q \in Queue : \A i, j \in DOMAIN queue[q] :
           i < j /\ PacketAt(t, q, i) /\ PacketAt(u, q, j) =>
             \E k, l : k < l /\ PacketAt(t, q, k)' /\ PacketAt(u, q, l)'
  PROVE  Behind(t, u)'
  <1>1. PICK q \in Queue : q = QueueOf[u]
    BY Constants
  <1>2. PICK i, j \in DOMAIN queue[q] : i < j /\ PacketAt(t, q, i) /\ PacketAt(u, q, j)
    BY <1>1 DEF Behind
  <1>3. PICK k, l : k < l /\ PacketAt(t, q, k)' /\ PacketAt(u, q, l)'
    BY <1>2
  <1>4. k \in DOMAIN queue'[q] /\ l \in DOMAIN queue'[q]
    BY <1>3 DEF PacketAt
  <1>5. KindOf[u] = "gpu" /\ Ordered(u)
    BY DEF Behind
  <1>6. QED
    BY <1>1, <1>3, <1>4, <1>5 DEF Behind, Ordered

LEMMA FollowGrows ==
  ASSUME finished' = finished,
         \A u \in Task : awaited[u] \subseteq awaited'[u],
         \A t \in Task, q \in Queue : \A i : PacketAt(t, q, i) => PacketAt(t, q, i)'
  PROVE  FollowKeeps
  <1> SUFFICES ASSUME NEW t \in Task, NEW u \in Task, Follows(t, u)
               PROVE  Follows(t, u)'
    BY DEF FollowKeeps
  <1>1. CASE t \in awaited[u]
    BY <1>1 DEF Follows
  <1>2. CASE Behind(t, u)
    <2>1. Behind(t, u)'
      BY <1>2, BehindKept
    <2>2. QED
      BY <2>1 DEF Follows
  <1>3. QED
    BY <1>1, <1>2 DEF Follows

LEMMA SeePredecessorFollow ==
  ASSUME BaseInv, NEW t \in Task, NEW p \in Task, SeePredecessor(t, p)
  PROVE  FollowKeeps /\ p \in finished
  <1>1. /\ p \in awaited[t] /\ AtZero(p)
        /\ awaited' = [awaited EXCEPT ![t] = @ \ {p}]
        /\ UNCHANGED <<queue, finished>>
    BY DEF SeePredecessor
  <1>2. p \in finished
    <2>1. state[p] >= 2
      BY <1>1 DEF BaseInv, SignalInv, DISPATCHED
    <2>2. state[p] \in Int
      BY StateNumbers DEF BaseInv
    <2>3. Acquired(p)
      BY <2>1, <2>2 DEF Acquired, READY
    <2>4. QED
      BY <1>1, <2>3, AtZeroFinished
  <1>3. \A u, v \in Task : v # p /\ v \in awaited[u] => v \in awaited'[u]
    BY <1>1 DEF BaseInv, TypeInv
  <1>4. \A u, v \in Task : Behind(u, v) => Behind(u, v)'
    <2>1. SamePlaces
      BY <1>1, QueueSame
    <2>2. QED
      BY <2>1, BehindKept DEF SamePlaces
  <1>5. FollowKeeps
    BY <1>1, <1>2, <1>3, <1>4 DEF FollowKeeps, Follows
  <1>6. QED
    BY <1>2, <1>5

\* The packet that goes is of neither task.
LEMMA DropFollow ==
  ASSUME TypeInv, NEW q \in Queue, NEW i, Drops(q, i),
         NEW t \in Task, NEW u \in Task, ~PacketAt(t, q, i), ~PacketAt(u, q, i), Behind(t, u)
  PROVE  Behind(t, u)'
  <1>1. ASSUME NEW r \in Queue, NEW j \in DOMAIN queue[r], NEW k \in DOMAIN queue[r],
               j < k, PacketAt(t, r, j), PacketAt(u, r, k)
        PROVE  \E l, m : l < m /\ PacketAt(t, r, l)' /\ PacketAt(u, r, m)'
    <2>1. CASE r = q
      <3>1. j # i /\ k # i
        BY <1>1, <2>1
      <3>2. PacketAt(t, q, NewPlace(i, j))' /\ PacketAt(u, q, NewPlace(i, k))'
        BY <1>1, <2>1, <3>1, DropPackets
      <3>3. NewPlace(i, j) < NewPlace(i, k)
        BY <1>1, <2>1, <3>1, DropPlaces
      <3>4. QED
        BY <2>1, <3>2, <3>3
    <2>2. CASE r # q
      <3>1. PacketAt(t, r, j)' /\ PacketAt(u, r, k)'
        BY <1>1, <2>2, DropPackets
      <3>2. QED
        BY <1>1, <3>1
    <2>3. QED
      BY <2>1, <2>2
  <1>2. QED
    BY <1>1, BehindKept

LEMMA PassBarrierFollow ==
  ASSUME BaseInv, PacketInv, NEW q \in Queue, PassBarrier(q)
  PROVE  FollowKeeps
  <1>1. UNCHANGED <<finished, awaited>>
    BY DEF PassBarrier
  <1>2. Drops(q, 1) /\ \A t \in Task : ~PacketAt(t, q, 1)
    BY PassBarrierDrops, PassBarrierPacket DEF BaseInv
  <1>3. \A t, u \in Task : Behind(t, u) => Behind(t, u)'
    BY <1>2, DropFollow DEF BaseInv
  <1>4. QED
    BY <1>1, <1>3 DEF FollowKeeps, Follows

\* A kernel of an ordered group runs at the front of its queue, behind nothing.
LEMMA FinishTaskFollow ==
  ASSUME BaseInv, PacketInv, NEW v \in Task, FinishTask(v)
  PROVE  FollowKeeps
  <1>1. /\ finished' = finished \cup {v} /\ awaited' = awaited /\ awaited[v] = {}
    BY FinishTaskFacts
  <1>2. CASE KindOf[v] = "gpu"
    <2>1. PICK q \in Queue : q = QueueOf[v]
      BY Constants
    <2>2. PICK i \in DOMAIN queue[q] : RunnableAt(v, i) /\ Drops(q, i)
      BY <1>2, <2>1, FinishTaskDrops
    <2>3. PacketAt(v, q, i) /\ \A t \in Task : t # v => ~PacketAt(t, q, i)
      BY <2>1, <2>2, PacketNames DEF RunnableAt, PacketAt
    <2>4. \A t \in Task : ~Behind(t, v)
      <3> SUFFICES ASSUME NEW t \in Task, Behind(t, v) PROVE FALSE
        OBVIOUS
      <3>1. i = 1
        BY <2>2 DEF Behind, RunnableAt
      <3>2. PICK j, k \in DOMAIN queue[q] : j < k /\ PacketAt(v, q, k)
        BY <2>1 DEF Behind
      <3>3. k = i
        BY <2>3, <3>2 DEF PacketInv
      <3>4. j \in Nat \ {0}
        <4>1. DOMAIN queue[q] = 1..Len(queue[q]) /\ Len(queue[q]) \in Nat
          BY QueueList DEF BaseInv
        <4>2. QED
          BY <4>1
      <3>5. QED
        BY <3>1, <3>2, <3>3, <3>4
    <2>5. ASSUME NEW t \in Task, NEW u \in Task, t \notin finished', u \notin finished,
                 Follows(t, u)
          PROVE  u \notin finished' /\ Follows(t, u)'
      <3>1. t # v
        BY <1>1, <2>5
      <3>2. u # v
        BY <1>1, <2>4, <2>5 DEF Follows
      <3>3. Behind(t, u) => Behind(t, u)'
        BY <2>2, <2>3, <3>1, <3>2, DropFollow DEF BaseInv
      <3>4. QED
        BY <1>1, <2>5, <3>2, <3>3 DEF Follows
    <2>6. QED
      BY <2>5 DEF FollowKeeps
  <1>3. CASE KindOf[v] # "gpu"
    <2>1. queue' = queue
      BY <1>3, FinishTaskFacts
    <2>2. SamePlaces
      BY <2>1, QueueSame
    <2>3. ASSUME NEW t \in Task, NEW u \in Task, t \notin finished', u \notin finished,
                 Follows(t, u)
          PROVE  u \notin finished' /\ Follows(t, u)'
      <3>1. u # v
        BY <1>1, <1>3, <2>3 DEF Follows, Behind
      <3>2. Behind(t, u) => Behind(t, u)'
        BY <2>2, BehindKept DEF SamePlaces
      <3>3. QED
        BY <1>1, <2>3, <3>1, <3>2 DEF Follows
    <2>4. QED
      BY <2>3 DEF FollowKeeps
  <1>4. QED
    BY <1>2, <1>3

-----------------------------------------------------------------------------
LEMMA CoverKept ==
  ASSUME CoverInv, FollowKeeps, finished \subseteq finished',
         \A g \in Group : CopiesAdjacent(g) => CopiesAdjacent(g)',
         NEW q \in Seq(Task), NEW S \in SUBSET Task, NEW T \in SUBSET Task, Listed(q, S),
         \A i \in DOMAIN q : q[i] \in S => q[i] \in T \/ q[i] \in finished'
  PROVE  Covered(q, T)'
  <1>1. Covered(q, S)
    BY DEF CoverInv
  <1>2. ASSUME NEW i \in DOMAIN q, q[i] \notin finished', ~CopiesAdjacent(GroupOf[q[i]])'
        PROVE  \/ q[i] \in T
               \/ \E j \in DOMAIN q : i < j /\ q[j] \notin finished' /\ Follows(q[i], q[j])'
    <2>1. q[i] \in Task /\ GroupOf[q[i]] \in Group
      BY InElements, Constants
    <2>2. q[i] \notin finished /\ ~CopiesAdjacent(GroupOf[q[i]])
      BY <1>2, <2>1
    <2>3. CASE q[i] \in S
      BY <1>2, <2>3
    <2>4. CASE q[i] \notin S
      <3>1. PICK j \in DOMAIN q : i < j /\ q[j] \notin finished /\ Follows(q[i], q[j])
        BY <1>1, <2>2, <2>4 DEF Covered
      <3>2. q[j] \in Task
        BY InElements
      <3>3. q[j] \notin finished' /\ Follows(q[i], q[j])'
        BY <1>2, <2>1, <3>1, <3>2 DEF FollowKeeps
      <3>4. QED
        BY <3>1, <3>3
    <2>5. QED
      BY <2>3, <2>4
  <1>3. QED
    BY <1>2 DEF Covered

\* The tasks of the lists have their resources, and are of one group.
LEMMA ListedTasks ==
  ASSUME BaseInv, NEW q \in Seq(Task), NEW S, Listed(q, S)
  PROVE  \A i \in DOMAIN q : q[i] \in Task /\ Acquired(q[i]) /\ state[q[i]] \in {1, 2}
  <1>1. Running(q)
    BY DEF Listed, BaseInv, PlacesInv
  <1>2. QED
    BY <1>1, InElements DEF Running, READY, DISPATCHED, Acquired

\* A step that leaves the lists alone.
LEMMA ListsKept ==
  ASSUME BaseInv, CoverInv, FollowKeeps, finished \subseteq finished',
         UNCHANGED <<dispatched, sinks, handlers>>,
         \A k \in Thread : thread'[k].batch = thread[k].batch,
         \A k \in Thread : thread'[k].at = "register" <=> thread[k].at = "register",
         \A g \in Group : CopiesAdjacent(g) => CopiesAdjacent(g)',
         \A t \in Task : Acquired(t) /\ WaitedFor(t) => WaitedFor(t)' \/ t \in finished'
  PROVE  CoverInv'
  <1> SUFFICES ASSUME NEW q \in Seq(Task), NEW T \in SUBSET Task, Listed(q, T)'
               PROVE  Covered(q, T)'
    BY DEF CoverInv
  <1>1. \A k \in Thread : BatchOf(k)' = BatchOf(k)
    BY DEF BatchOf
  <1>2. Waited \in SUBSET Task
    BY DEF Waited
  <1>3. CASE Listed(q, T)
    BY <1>3, CoverKept
  <1>4. CASE Listed(q, Waited) /\ T = Waited'
    <2>1. ASSUME NEW i \in DOMAIN q, q[i] \in Waited
          PROVE  q[i] \in T \/ q[i] \in finished'
      <3>1. PICK t \in Task : t = q[i] /\ Acquired(t)
        BY <1>2, <1>4, ListedTasks
      <3>2. WaitedFor(t)
        BY <2>1, <3>1 DEF Waited
      <3>3. WaitedFor(t)' \/ t \in finished'
        BY <3>1, <3>2
      <3>4. QED
        BY <1>4, <3>1, <3>3 DEF Waited
    <2>2. QED
      BY <1>2, <1>4, <2>1, CoverKept
  <1>5. Listed(q, T) \/ (Listed(q, Waited) /\ T = Waited')
    BY <1>1 DEF Listed
  <1>6. QED
    BY <1>3, <1>4, <1>5

LEMMA StillCover ==
  ASSUME BaseInv, BaseInv', CoverInv, Still
  PROVE  CoverInv'
  <1>1. /\ UNCHANGED <<queue, finished, awaited, dispatched, sinks, handlers>>
        /\ \A k \in Thread : thread'[k].batch = thread[k].batch
        /\ \A k \in Thread : thread'[k].at = "register" <=> thread[k].at = "register"
        /\ \A g \in Group : CopiesAdjacent(g) => CopiesAdjacent(g)'
    BY StillFacts
  <1>2. FollowKeeps
    BY <1>1, QueueSame, FollowGrows DEF SamePlaces
  <1>3. \A t \in Task : WaitedFor(t) => WaitedFor(t)'
    BY <1>1, SinksKept
  <1>4. QED
    BY <1>1, <1>2, <1>3, ListsKept

LEMMA DeviceCover ==
  ASSUME BaseInv, PacketInv, CoverInv,
         \/ \E t, p \in Task : SeePredecessor(t, p)
         \/ \E t \in Task : FinishTask(t)
         \/ \E q \in Queue : PassBarrier(q)
         \/ \E q \in Queue, p \in Task : SeeSink(q, p)
  PROVE  CoverInv'
  <1>1. UNCHANGED <<prevOrdered, dispatched, sinks, handlers, thread>>
    BY FinishTaskFacts
    DEF SeePredecessor, PassBarrier, SeeSink, taskVars, listVars, batchVars
  <1>2. \A g \in Group : CopiesAdjacent(g) => CopiesAdjacent(g)'
    BY <1>1, AdjacentKept
  <1>3. ASSUME NEW t \in Task, NEW p \in Task, SeePredecessor(t, p)
        PROVE  CoverInv'
    <2>1. queue' = queue /\ finished' = finished
      BY <1>3 DEF SeePredecessor
    <2>2. FollowKeeps
      BY <1>3, SeePredecessorFollow
    <2>3. QED
      BY <1>1, <1>2, <2>1, <2>2, SinksKept, ListsKept
  <1>4. ASSUME NEW t \in Task, FinishTask(t)
        PROVE  CoverInv'
    <2>1. finished \subseteq finished' /\ FollowKeeps
      BY <1>4, FinishTaskFacts, FinishTaskFollow
    <2>2. \A u \in Task : WaitedFor(u) => WaitedFor(u)'
      <3>1. CASE KindOf[t] = "gpu"
        <4>1. PICK i \in DOMAIN queue[QueueOf[t]] :
                RunnableAt(t, i) /\ Drops(QueueOf[t], i)
          BY <1>4, <3>1, FinishTaskDrops
        <4>2. ~IsSinks(QueueOf[t], i)
          BY <4>1 DEF RunnableAt, IsSinks, TaskPacket
        <4>3. QED
          BY <4>1, <4>2, DropSinks, Constants DEF BaseInv
      <3>2. CASE KindOf[t] # "gpu"
        <4>1. queue' = queue
          BY <1>4, <3>2, FinishTaskFacts
        <4>2. QED
          BY <4>1, SinksKept
      <3>3. QED
        BY <3>1, <3>2
    <2>3. QED
      BY <1>1, <1>2, <2>1, <2>2, ListsKept
  <1>5. ASSUME NEW q \in Queue, PassBarrier(q)
        PROVE  CoverInv'
    <2>1. finished' = finished /\ FollowKeeps
      BY <1>5, PassBarrierFollow DEF PassBarrier
    <2>2. IsSinks(q, 1) => queue[q][1].sinks = {}
      BY <1>5, PassBarrierFacts DEF BaseInv, IsSinks
    <2>3. \A u \in Task : WaitedFor(u) => WaitedFor(u)'
      BY <1>5, <2>2, PassBarrierDrops, DropSinks DEF BaseInv
    <2>4. QED
      BY <1>1, <1>2, <2>1, <2>3, ListsKept
  <1>6. ASSUME NEW q \in Queue, NEW p \in Task, SeeSink(q, p)
        PROVE  CoverInv'
    <2>1. finished' = finished /\ awaited' = awaited /\ SamePlaces
      BY <1>6, SeeSinkPacket DEF SeeSink
    <2>2. FollowKeeps
      BY <2>1, FollowGrows DEF SamePlaces
    <2>3. \A u \in Task : Acquired(u) /\ WaitedFor(u) => WaitedFor(u)' \/ u \in finished'
      <3>1. AtZero(p) /\ \A u \in Task : u # p /\ WaitedFor(u) => WaitedFor(u)'
        BY <1>6, SeeSinkSinks DEF BaseInv
      <3>2. Acquired(p) => p \in finished
        BY <3>1, AtZeroFinished
      <3>3. QED
        BY <2>1, <3>1, <3>2
    <2>4. QED
      BY <1>1, <1>2, <2>1, <2>2, <2>3, ListsKept
  <1>7. QED
    BY <1>3, <1>4, <1>5, <1>6

LEMMA ListTypes ==
  ASSUME TypeInv
  PROVE  /\ Waited \in SUBSET Task
         /\ \A g \in Group : dispatched[g] \in Seq(Task) /\ sinks[g] \in SUBSET Task
         /\ \A h \in Thread : BatchOf(h) \in Seq(Task) /\ thread[h].batch.sinks \in SUBSET Task
         /\ \A b \in handlers : b \in Seq(Task)
  BY DEF TypeInv, BatchOf, Waited

\* A list as it was, with the same tasks as sinks or more of them.
LEMMA CoverSame ==
  ASSUME CoverInv, FollowKeeps, finished \subseteq finished',
         \A g \in Group : CopiesAdjacent(g) => CopiesAdjacent(g)',
         NEW q \in Seq(Task), NEW S \in SUBSET Task, NEW T \in SUBSET Task, Listed(q, S),
         S \subseteq T
  PROVE  Covered(q, T)'
  BY CoverKept

LEMMA EmptyCovered ==
  ASSUME NEW q, q = <<>>, NEW T
  PROVE  Covered(q, T)'
  BY EmptyList DEF Covered

LEMMA TakesCover ==
  ASSUME BaseInv, CoverInv, NEW h \in Thread, Takes(h)
  PROVE  CoverInv'
  <1>1. PICK g \in Group :
           /\ thread[h].at = "take" /\ thread'[h].at = "store" /\ Others(h)
           /\ thread'[h].batch = [sinks |-> sinks[g], tasks |-> dispatched[g]]
           /\ sinks'[g] = {} /\ dispatched'[g] = <<>>
           /\ \A k \in Group : k # g => sinks'[k] = sinks[k] /\ dispatched'[k] = dispatched[k]
           /\ UNCHANGED <<prevOrdered, queue, awaited, finished, handlers>>
    BY TakesFacts
  <1>2. /\ FollowKeeps
        /\ \A k \in Group : CopiesAdjacent(k) => CopiesAdjacent(k)'
    BY <1>1, QueueSame, FollowGrows, AdjacentKept DEF SamePlaces
  <1>3. Waited' = Waited
    BY <1>1, SinksKept DEF Waited
  <1> SUFFICES ASSUME NEW q \in Seq(Task), NEW T \in SUBSET Task, Listed(q, T)'
               PROVE  Covered(q, T)'
    BY DEF CoverInv
  <1>4. ASSUME NEW k \in Group, q = dispatched'[k], T = sinks'[k]
        PROVE  q = <<>> \/ Listed(q, T)
    BY <1>1, <1>4 DEF Listed
  <1>5. ASSUME NEW k \in Thread, q = BatchOf(k)',
               T = IF thread'[k].at = "register" THEN Waited' ELSE thread'[k].batch.sinks
        PROVE  Listed(q, T)
    <2>1. CASE k = h
      <3>1. q = dispatched[g] /\ T = sinks[g]
        BY <1>1, <1>5, <2>1 DEF BatchOf
      <3>2. QED
        BY <3>1 DEF Listed
    <2>2. CASE k # h
      <3>1. thread'[k] = thread[k] /\ BatchOf(k)' = BatchOf(k)
        BY <1>1, <2>2 DEF Others, BatchOf
      <3>2. q = BatchOf(k) /\ T = IF thread[k].at = "register" THEN Waited ELSE thread[k].batch.sinks
        BY <1>3, <1>5, <3>1
      <3>3. QED
        BY <3>2 DEF Listed
    <2>3. QED
      BY <2>1, <2>2
  <1>6. q = <<>> \/ Listed(q, T)
    <2>1. \/ \E k \in Group : q = dispatched'[k] /\ T = sinks'[k]
          \/ \E k \in Thread :
               /\ q = BatchOf(k)'
               /\ T = IF thread'[k].at = "register" THEN Waited' ELSE thread'[k].batch.sinks
          \/ q \in handlers' /\ T = Waited'
      BY DEF Listed
    <2>2. CASE q \in handlers' /\ T = Waited'
      BY <1>1, <1>3, <2>2 DEF Listed
    <2>3. QED
      BY <1>4, <1>5, <2>1, <2>2
  <1>7. QED
    BY <1>1, <1>2, <1>6, CoverSame, EmptyCovered

LEMMA EnqueueBarrierCover ==
  ASSUME BaseInv, CoverInv, NEW h \in Thread, EnqueueBarrier(h)
  PROVE  CoverInv'
  <1>1. /\ thread[h].at = "barrier" /\ thread'[h].at = "register"
        /\ thread'[h].batch = thread[h].batch /\ Others(h)
        /\ UNCHANGED <<prevOrdered, dispatched, sinks, awaited, finished, handlers>>
    BY EnqueueBarrierFacts
  <1>2. PICK r \in Queue : Grows(r, {SinksPacket(thread[h].batch.sinks)})
    BY EnqueueGrows
  <1>3. FollowKeeps
    BY <1>1, <1>2, GrowPlaces, FollowGrows DEF BaseInv
  <1>4. \A k \in Group : CopiesAdjacent(k) => CopiesAdjacent(k)'
    BY <1>1, AdjacentKept
  <1>5. /\ Waited \subseteq Waited' /\ Waited' \in SUBSET Task
        /\ thread[h].batch.sinks \subseteq Waited'
    <2>1. thread[h].batch.sinks \in SUBSET Task
      BY ListTypes DEF BaseInv
    <2>2. /\ \A t \in Task : WaitedFor(t) => WaitedFor(t)'
          /\ \A t \in thread[h].batch.sinks : WaitedFor(t)'
      BY <1>2, <2>1, GrowSinks DEF BaseInv
    <2>3. QED
      BY <2>1, <2>2 DEF Waited
  <1>6. \A k \in Thread : BatchOf(k)' = BatchOf(k)
    BY <1>1 DEF Others, BatchOf
  <1> SUFFICES ASSUME NEW q \in Seq(Task), NEW T \in SUBSET Task, Listed(q, T)'
               PROVE  Covered(q, T)'
    BY DEF CoverInv
  <1>7. ASSUME NEW k \in Thread, q = BatchOf(k)',
               T = IF thread'[k].at = "register" THEN Waited' ELSE thread'[k].batch.sinks
        PROVE  \E S \in SUBSET Task : Listed(q, S) /\ S \subseteq T
    <2>1. PICK S : S = IF thread[k].at = "register" THEN Waited ELSE thread[k].batch.sinks
      OBVIOUS
    <2>2. Listed(q, S)
      BY <1>6, <1>7, <2>1 DEF Listed
    <2>3. S \in SUBSET Task
      BY <2>1, ListTypes DEF BaseInv
    <2>4. S \subseteq T
      <3>1. CASE k = h
        BY <1>1, <1>5, <1>7, <2>1, <3>1
      <3>2. CASE k # h
        <4>1. thread'[k] = thread[k]
          BY <1>1, <3>2 DEF Others
        <4>2. QED
          BY <1>5, <1>7, <2>1, <4>1
      <3>3. QED
        BY <3>1, <3>2
    <2>5. QED
      BY <2>2, <2>3, <2>4
  <1>8. \E S \in SUBSET Task : Listed(q, S) /\ S \subseteq T
    <2>1. \/ \E k \in Group : q = dispatched'[k] /\ T = sinks'[k]
          \/ \E k \in Thread :
               /\ q = BatchOf(k)'
               /\ T = IF thread'[k].at = "register" THEN Waited' ELSE thread'[k].batch.sinks
          \/ q \in handlers' /\ T = Waited'
      BY DEF Listed
    <2>2. CASE q \in handlers' /\ T = Waited'
      <3>1. Listed(q, Waited) /\ Waited \in SUBSET Task /\ Waited \subseteq T
        BY <1>1, <1>5, <2>2, ListTypes DEF Listed, BaseInv
      <3>2. QED
        BY <3>1
    <2>3. CASE \E k \in Group : q = dispatched'[k] /\ T = sinks'[k]
      <3>1. Listed(q, T)
        BY <1>1, <2>3 DEF Listed
      <3>2. QED
        BY <3>1
    <2>4. QED
      BY <1>7, <2>1, <2>2, <2>3
  <1>9. QED
    BY <1>1, <1>3, <1>4, <1>8, CoverSame

\* RegisterHandler and HandleSignal.
LEMMA BatchCover ==
  ASSUME BaseInv, CoverInv, NEW h \in Thread, Others(h),
         UNCHANGED <<prevOrdered, dispatched, sinks, queue, awaited, finished>>,
         \/ /\ thread[h].at = "register"
            /\ thread'[h].at # "register" /\ thread'[h].batch = Nothing
            /\ handlers' = handlers \cup {BatchOf(h)}
         \/ /\ thread[h].at # "register" /\ thread'[h].at # "register"
            /\ thread'[h].batch = thread[h].batch
            /\ handlers' \subseteq handlers
  PROVE  CoverInv'
  <1>1. /\ FollowKeeps
        /\ \A k \in Group : CopiesAdjacent(k) => CopiesAdjacent(k)'
    BY QueueSame, FollowGrows, AdjacentKept DEF SamePlaces
  <1>2. Waited' = Waited
    BY SinksKept DEF Waited
  <1> SUFFICES ASSUME NEW q \in Seq(Task), NEW T \in SUBSET Task, Listed(q, T)'
               PROVE  Covered(q, T)'
    BY DEF CoverInv
  <1>3. ASSUME NEW k \in Thread, q = BatchOf(k)',
               T = IF thread'[k].at = "register" THEN Waited' ELSE thread'[k].batch.sinks
        PROVE  q = <<>> \/ Listed(q, T)
    <2>1. CASE k = h
      <3>1. CASE thread'[h].batch = Nothing
        BY <1>3, <2>1, <3>1 DEF BatchOf, Nothing
      <3>2. CASE /\ thread[h].at # "register" /\ thread'[h].at # "register"
                 /\ thread'[h].batch = thread[h].batch
        <4>1. q = BatchOf(h) /\ T = thread[h].batch.sinks
          BY <1>3, <2>1, <3>2 DEF BatchOf
        <4>2. QED
          BY <3>2, <4>1 DEF Listed
      <3>3. QED
        BY <3>1, <3>2
    <2>2. CASE k # h
      <3>1. thread'[k] = thread[k] /\ BatchOf(k)' = BatchOf(k)
        BY <2>2 DEF Others, BatchOf
      <3>2. q = BatchOf(k) /\ T = IF thread[k].at = "register" THEN Waited ELSE thread[k].batch.sinks
        BY <1>2, <1>3, <3>1
      <3>3. QED
        BY <3>2 DEF Listed
    <2>3. QED
      BY <2>1, <2>2
  <1>4. q = <<>> \/ Listed(q, T)
    <2>1. \/ \E k \in Group : q = dispatched'[k] /\ T = sinks'[k]
          \/ \E k \in Thread :
               /\ q = BatchOf(k)'
               /\ T = IF thread'[k].at = "register" THEN Waited' ELSE thread'[k].batch.sinks
          \/ q \in handlers' /\ T = Waited'
      BY DEF Listed
    <2>2. CASE q \in handlers' /\ T = Waited'
      <3>1. q \in handlers \/ (q = BatchOf(h) /\ thread[h].at = "register")
        BY <2>2
      <3>2. QED
        BY <1>2, <2>2, <3>1 DEF Listed
    <2>3. CASE \E k \in Group : q = dispatched'[k] /\ T = sinks'[k]
      BY <2>3 DEF Listed
    <2>4. QED
      BY <1>3, <2>1, <2>2, <2>3
  <1>5. QED
    BY <1>1, <1>4, CoverSame, EmptyCovered

LEMMA RegisterHandlerCover ==
  ASSUME BaseInv, CoverInv, NEW h \in Thread, RegisterHandler(h)
  PROVE  CoverInv'
  <1>1. /\ thread[h].at = "register" /\ thread'[h].at \in {"idle", "waiting"}
        /\ thread'[h].batch = Nothing /\ Others(h)
        /\ handlers' = handlers \cup {BatchOf(h)}
        /\ UNCHANGED <<prevOrdered, dispatched, sinks, queue, awaited, finished>>
    BY RegisterHandlerFacts
  <1>2. thread'[h].at # "register"
    BY <1>1
  <1>3. QED
    BY <1>1, <1>2, BatchCover

LEMMA HandleSignalCover ==
  ASSUME BaseInv, CoverInv, NEW b \in handlers, HandleSignal(b)
  PROVE  CoverInv'
  <1>1. /\ thread[Callback].at = "idle" /\ thread'[Callback].at = "execute"
        /\ thread'[Callback].batch = thread[Callback].batch /\ Others(Callback)
        /\ handlers' = handlers \ {b}
        /\ UNCHANGED <<prevOrdered, dispatched, sinks, queue, awaited, finished>>
    BY HandleSignalFacts
  <1>2. thread[Callback].at # "register" /\ thread'[Callback].at # "register"
        /\ handlers' \subseteq handlers
    BY <1>1
  <1>3. QED
    BY <1>1, <1>2, BatchCover, Constants

\* A new task replaces, as a sink, those that it follows.
LEMMA NewFollows ==
  ASSUME BaseInv, PacketInv, NEW h \in Thread, TryAcquires(h),
         NEW t \in Task, t = thread[h].task,
         NEW p \in Task, p \in AndPredecessors(t) \/ p = prevOrdered[t],
         state[p] \in {1, 2}, p \notin finished, ~CopiesAdjacent(GroupOf[t])'
  PROVE  Follows(p, t)'
  <1>1. awaited'[t] = AndPredecessors(t) /\ prevOrdered' = prevOrdered
    BY AcquiresFacts
  <1>2. CASE p \in AndPredecessors(t)
    BY <1>1, <1>2 DEF Follows
  <1>3. CASE p \notin AndPredecessors(t)
    <2>1. p = prevOrdered[t] /\ p # NoTask /\ state[p] < 3
      BY <1>3, Constants
    <2>2. KindOf[p] = KindOf[t]
      BY <1>3, <2>1 DEF AndPredecessors, EXECUTED
    <2>3. Ordered(t) /\ GroupOf[p] = GroupOf[t]
      BY <2>1 DEF BaseInv, MakingInv
    <2>4. KindOf[t] # "data"
      BY <1>1, <2>1, <2>2 DEF CopiesAdjacent
    <2>5. KindOf[t] = "gpu" /\ KindOf[p] = "gpu"
      BY <2>2, <2>4, Constants
    <2>6. PICK r \in Queue : r = QueueOf[t] /\ r = QueueOf[p]
      BY <2>3, BarrierAssumption, Constants DEF Ordered
    <2>7. PICK k \in DOMAIN queue[r] : PacketAt(p, r, k)
      BY <2>5, <2>6 DEF PacketInv, Acquired, READY
    <2>8. Grows(r, NewPackets(t)) /\ TaskPacket(t) \in NewPackets(t)
      BY <2>4, <2>6, AcquiresGrows DEF NewPackets
    <2>9. PICK l \in DOMAIN queue'[r] : l \notin DOMAIN queue[r] /\ PacketAt(t, r, l)'
      BY <2>8, GrowPlaces DEF BaseInv
    <2>10. k < l /\ PacketAt(p, r, k)' /\ k \in DOMAIN queue'[r]
      BY <2>7, <2>8, <2>9, GrowPlaces DEF BaseInv, PacketAt
    <2>11. Behind(p, t)'
      BY <2>3, <2>5, <2>6, <2>9, <2>10 DEF Behind, Ordered
    <2>12. QED
      BY <2>11 DEF Follows
  <1>4. QED
    BY <1>2, <1>3

\* The task itself is a sink: it is dispatched after those it follows.
LEMMA NewSinks ==
  ASSUME BaseInv, NEW h \in Thread, TryAcquires(h), NEW t \in Task, t = thread[h].task
  PROVE  /\ t \in sinks'[GroupOf[t]]
         /\ \A p \in Task : p \in sinks[GroupOf[t]] =>
              p \in sinks'[GroupOf[t]] \/ p \in AndPredecessors(t) \/ p = prevOrdered[t]
  <1>1. /\ sinks'[GroupOf[t]] = SinksWith(t) /\ ~Undispatched(t)
        /\ state[t] \in Int /\ state[t] < 1
    BY AcquiresFacts
  <1>2. t \notin AndPredecessors(t) \cup {prevOrdered[t]}
    <2>1. state[t] < DISPATCHED
      BY <1>1 DEF DISPATCHED
    <2>2. t \notin Requires[t] \cup ({prevOrdered[t]} \ {NoTask})
      BY <1>1, <2>1 DEF Undispatched
    <2>3. QED
      BY <2>2, Constants DEF AndPredecessors
  <1>3. QED
    BY <1>1, <1>2 DEF SinksWith

LEMMA TryAcquiresCover ==
  ASSUME BaseInv, PacketInv, CoverInv, NEW h \in Thread, TryAcquires(h)
  PROVE  CoverInv'
  <1>1. PICK t \in Task : t = thread[h].task
    BY AcquiresFacts
  <1>2. PICK g \in Group : g = GroupOf[t]
    BY Constants
  <1>3. /\ dispatched'[g] = Append(dispatched[g], t)
        /\ \A k \in Group : k # g => dispatched'[k] = dispatched[k] /\ sinks'[k] = sinks[k]
        /\ awaited'[t] = AndPredecessors(t) /\ \A u \in Task : u # t => awaited'[u] = awaited[u]
        /\ UNCHANGED <<prevOrdered, finished, handlers>> /\ Moves(h, "mark")
        /\ thread[h].at = "try" /\ ~Acquired(t)
    BY <1>1, <1>2, AcquiresFacts, ZenonT(60)
  <1>4. PICK r \in Queue : r = QueueOf[t] /\ Grows(r, NewPackets(t))
    BY <1>1, AcquiresGrows, Constants
  <1>5. FollowKeeps
    <2>1. \A u \in Task : awaited[u] \subseteq awaited'[u]
      BY <1>3 DEF BaseInv, SignalInv
    <2>2. QED
      BY <1>3, <1>4, <2>1, GrowPlaces, FollowGrows DEF BaseInv
  <1>6. \A k \in Group : CopiesAdjacent(k) => CopiesAdjacent(k)'
    BY <1>3, AdjacentKept
  <1>7. Waited \subseteq Waited' /\ Waited' \in SUBSET Task
    BY <1>4, GrowSinks DEF BaseInv, Waited
  <1>8. /\ \A k \in Thread : BatchOf(k)' = BatchOf(k) /\ thread'[k].batch = thread[k].batch
        /\ \A k \in Thread : thread'[k].at = "register" <=> thread[k].at = "register"
    BY <1>3 DEF Moves, Others, BatchOf
  <1>9. t \notin finished /\ t \notin finished'
    BY <1>3 DEF BaseInv, TurnInv, TypeInv
  <1> SUFFICES ASSUME NEW q \in Seq(Task), NEW T \in SUBSET Task, Listed(q, T)'
               PROVE  Covered(q, T)'
    BY DEF CoverInv
  <1>10. ASSUME q = dispatched'[g], T = sinks'[g]
         PROVE  Covered(q, T)'
    <2>1. PICK c \in Seq(Task) : c = dispatched[g]
      BY ListTypes DEF BaseInv
    <2>2. PICK S \in SUBSET Task : S = sinks[g]
      BY ListTypes DEF BaseInv
    <2>3. Listed(c, S)
      BY <2>1, <2>2 DEF Listed
    <2>4. /\ DOMAIN c = 1..Len(c) /\ Len(c) \in Nat /\ DOMAIN q = 1..Len(c) + 1
          /\ \A i \in DOMAIN c : q[i] = c[i]
          /\ q[Len(c) + 1] = t
      BY <1>3, <1>10, <2>1, AppendFacts, InElements
    <2>5. /\ \A i \in DOMAIN q : i \in DOMAIN c \/ i = Len(c) + 1
          /\ \A i \in DOMAIN c : i \in DOMAIN q /\ i < Len(c) + 1
          /\ Len(c) + 1 \in DOMAIN q
      BY <2>4
    <2>6. t \in T /\ \A p \in Task : p \in S =>
            p \in T \/ p \in AndPredecessors(t) \/ p = prevOrdered[t]
      BY <1>1, <1>2, <1>10, <2>2, NewSinks
    <2>7. \A i \in DOMAIN c : c[i] \in Task /\ state[c[i]] \in {1, 2} /\ GroupOf[c[i]] = g
      <3>1. \A i \in DOMAIN c : GroupOf[c[i]] = g
        BY <2>1 DEF BaseInv, PlacesInv
      <3>2. QED
        BY <2>3, <3>1, ListedTasks
    <2>8. ASSUME NEW i \in DOMAIN c, c[i] \notin finished', ~CopiesAdjacent(GroupOf[c[i]])'
          PROVE  \/ c[i] \in T
                 \/ \E j \in DOMAIN q : i < j /\ q[j] \notin finished' /\ Follows(c[i], q[j])'
      <3>1. PICK p \in Task : p = c[i] /\ state[p] \in {1, 2} /\ GroupOf[p] = g
        BY <2>7
      <3>2. p \notin finished /\ ~CopiesAdjacent(g)' /\ ~CopiesAdjacent(g)
        BY <1>3, <1>6, <2>8, <3>1
      <3>3. CASE p \in S /\ p \notin T
        <4>1. p \in AndPredecessors(t) \/ p = prevOrdered[t]
          BY <2>6, <3>3
        <4>2. Follows(p, t)'
          BY <1>1, <1>2, <3>1, <3>2, <4>1, NewFollows
        <4>3. QED
          BY <1>9, <2>4, <2>5, <3>1, <4>2
      <3>4. CASE p \notin S
        <4>1. Covered(c, S)
          BY <2>3 DEF CoverInv
        <4>2. PICK j \in DOMAIN c : i < j /\ c[j] \notin finished /\ Follows(c[i], c[j])
          BY <3>1, <3>2, <3>4, <4>1 DEF Covered
        <4>3. PICK u \in Task : u = c[j]
          BY <2>7
        <4>4. u \notin finished' /\ Follows(p, u)'
          BY <1>5, <2>8, <3>1, <4>2, <4>3 DEF FollowKeeps
        <4>5. j \in DOMAIN q /\ q[j] = u
          BY <2>4, <2>5, <4>3
        <4>6. QED
          BY <3>1, <4>2, <4>4, <4>5
      <3>5. QED
        BY <3>1, <3>3, <3>4
    <2>9. ASSUME NEW i \in DOMAIN q, q[i] \notin finished', ~CopiesAdjacent(GroupOf[q[i]])'
          PROVE  \/ q[i] \in T
                 \/ \E j \in DOMAIN q : i < j /\ q[j] \notin finished' /\ Follows(q[i], q[j])'
      <3>1. CASE i \in DOMAIN c
        <4>1. q[i] = c[i]
          BY <2>4, <3>1
        <4>2. QED
          BY <2>8, <2>9, <3>1, <4>1
      <3>2. CASE i = Len(c) + 1
        BY <2>4, <2>6, <3>2
      <3>3. QED
        BY <2>5, <3>1, <3>2
    <2>10. QED
      BY <2>9 DEF Covered
  <1>11. ASSUME NEW k \in Thread, q = BatchOf(k)',
               T = IF thread'[k].at = "register" THEN Waited' ELSE thread'[k].batch.sinks
         PROVE  \E S \in SUBSET Task : Listed(q, S) /\ S \subseteq T
    <2>1. PICK S : S = IF thread[k].at = "register" THEN Waited ELSE thread[k].batch.sinks
      OBVIOUS
    <2>2. Listed(q, S)
      BY <1>8, <1>11, <2>1 DEF Listed
    <2>3. S \in SUBSET Task
      BY <2>1, ListTypes DEF BaseInv
    <2>4. S \subseteq T
      BY <1>7, <1>8, <1>11, <2>1
    <2>5. QED
      BY <2>2, <2>3, <2>4
  <1>12. \/ q = dispatched'[g] /\ T = sinks'[g]
         \/ \E S \in SUBSET Task : Listed(q, S) /\ S \subseteq T
    <2>1. \/ \E k \in Group : q = dispatched'[k] /\ T = sinks'[k]
          \/ \E k \in Thread :
               /\ q = BatchOf(k)'
               /\ T = IF thread'[k].at = "register" THEN Waited' ELSE thread'[k].batch.sinks
          \/ q \in handlers' /\ T = Waited'
      BY DEF Listed
    <2>2. CASE q \in handlers' /\ T = Waited'
      <3>1. Listed(q, Waited) /\ Waited \in SUBSET Task /\ Waited \subseteq T
        BY <1>3, <1>7, <2>2, ListTypes DEF Listed, BaseInv
      <3>2. QED
        BY <3>1
    <2>3. ASSUME NEW k \in Group, k # g, q = dispatched'[k], T = sinks'[k]
          PROVE  Listed(q, T)
      BY <1>3, <2>3 DEF Listed
    <2>4. QED
      BY <1>11, <2>1, <2>2, <2>3
  <1>13. QED
    BY <1>3, <1>5, <1>6, <1>10, <1>12, CoverSame

LEMMA CoverStep ==
  ASSUME BaseInv, BaseInv', PacketInv, CoverInv, Calm \/ Busy
  PROVE  CoverInv'
  BY StillCover, DeviceCover, TakesCover, EnqueueBarrierCover, RegisterHandlerCover,
     HandleSignalCover, TryAcquiresCover
  DEF Busy, Still

LEMMA InitCover ==
  ASSUME Init
  PROVE  PacketInv /\ CoverInv
  <1>1. /\ \A q \in Queue : queue[q] = <<>>
        /\ \A t \in Task : ~Acquired(t)
        /\ \A g \in Group : dispatched[g] = <<>>
        /\ \A h \in Thread : BatchOf(h) = <<>>
        /\ handlers = {}
    BY DEF Init, Acquired, UNINITIALIZED, READY, BatchOf, Idle, Frame, Nothing
  <1>2. PacketInv
    BY <1>1, EmptyList DEF PacketInv
  <1>3. \A q \in Seq(Task), S \in SUBSET Task : Listed(q, S) => q = <<>>
    BY <1>1 DEF Listed
  <1>4. CoverInv
    BY <1>3, EmptyList DEF CoverInv, Covered
  <1>5. QED
    BY <1>2, <1>4

-----------------------------------------------------------------------------
(* A batch is handled when it is finished; dependences.                      *)

LEMMA LastPlace ==
  ASSUME NEW n \in Nat, NEW I \in SUBSET (1..n), I # {}
  PROVE  \E i \in I : \A j \in I : ~(i < j)
  <1> DEFINE T == {k \in Nat : n - k \in I}
  <1>1. T # {} /\ T \subseteq Nat
    <2>1. PICK i \in I : TRUE
      OBVIOUS
    <2>2. n - i \in Nat /\ n - (n - i) = i
      BY <2>1
    <2>3. QED
      BY <2>1, <2>2
  <1>2. PICK k \in T : \A l \in T : ~(<<l, k>> \in OpToRel(<, Nat))
    BY <1>1, NatLessThanWellFounded, WFMin
  <1>3. \A l \in T : ~(l < k)
    BY <1>2 DEF OpToRel
  <1>4. ASSUME NEW j \in I, n - k < j
        PROVE  FALSE
    <2>1. n - j \in Nat /\ n - (n - j) = j /\ n - j < k
      BY <1>4
    <2>2. n - j \in T
      BY <2>1
    <2>3. QED
      BY <1>3, <2>1, <2>2
  <1>5. QED
    BY <1>4

\* The last unfinished task of a list is a sink.
LEMMA NoneLeft ==
  ASSUME NEW q \in Seq(Task), GoodList(q), Covered(q, {}), NEW t \in Elements(q)
  PROVE  t \in finished \/ CopiesAdjacent(GroupOf[t])
  <1> SUFFICES ASSUME t \notin finished, ~CopiesAdjacent(GroupOf[t]) PROVE FALSE
    OBVIOUS
  <1>1. PICK n \in Nat : n = Len(q) /\ DOMAIN q = 1..n
    BY InElements
  <1>2. PICK k \in DOMAIN q : q[k] = t
    BY DEF Elements
  <1>3. PICK I \in SUBSET (1..n) : I = {i \in DOMAIN q : q[i] \notin finished}
    BY <1>1
  <1>4. PICK i \in I : \A j \in I : ~(i < j)
    BY <1>2, <1>3, LastPlace
  <1>5. q[i] \notin finished /\ i \in DOMAIN q /\ GroupOf[q[i]] = GroupOf[t]
    BY <1>2, <1>3 DEF GoodList
  <1>6. PICK j \in DOMAIN q : i < j /\ q[j] \notin finished
    BY <1>5 DEF Covered
  <1>7. QED
    BY <1>3, <1>4, <1>6

LEMMA HandledFinished ==
  ASSUME BaseInv, FlightInv, CoverInv, ~overlapped, NEW b \in handlers, HandleSignal(b),
         NEW t \in Elements(b)
  PROVE  t \in finished \/ CopiesAdjacent(GroupOf[t])
  <1>1. NoSinksPacket
    BY HandleSignalFacts DEF FlightInv
  <1>2. Waited = {}
    BY <1>1 DEF Waited, WaitedFor, NoSinksPacket
  <1>3. b \in Seq(Task) /\ Listed(b, {}) /\ {} \in SUBSET Task
    BY <1>2, ListTypes DEF Listed, BaseInv
  <1>4. Covered(b, {})
    BY <1>3 DEF CoverInv
  <1>5. GoodList(b)
    BY DEF BaseInv, PlacesInv
  <1>6. QED
    BY <1>3, <1>4, <1>5, NoneLeft

\* A step that ends no task.
LEMMA ExecutedKept ==
  ASSUME ExecutedInv, ~overlapped, finished \subseteq finished',
         \A g \in Group : CopiesAdjacent(g) => CopiesAdjacent(g)',
         \A t \in Task : t \in Elements(handling') \/ state'[t] >= EXECUTED =>
           t \in Elements(handling) \/ state[t] >= EXECUTED
  PROVE  ExecutedInv'
  <1>1. ASSUME NEW t \in Task, t \in Elements(handling') \/ state'[t] >= EXECUTED
        PROVE  t \in finished' \/ CopiesAdjacent(GroupOf[t])'
    <2>1. t \in finished \/ CopiesAdjacent(GroupOf[t])
      BY <1>1 DEF ExecutedInv
    <2>2. QED
      BY <2>1, Constants
  <1>2. ASSUME NEW t \in Task, t \in Elements(handling)' \/ (state[t] >= EXECUTED)'
        PROVE  t \in finished' \/ CopiesAdjacent(GroupOf[t])'
    <2>1. Elements(handling)' = Elements(handling')
      BY DEF Elements
    <2>2. (state[t] >= EXECUTED)' <=> state'[t] >= EXECUTED
      BY DEF EXECUTED
    <2>3. QED
      BY <1>1, <1>2, <2>1, <2>2
  <1>3. QED
    BY <1>2 DEF ExecutedInv

LEMMA CalmExecuted ==
  ASSUME BaseInv, BaseInv', ExecutedInv, ~overlapped, Calm
  PROVE  ExecutedInv'
  <1>1. ASSUME NEW t \in Task, state'[t] >= EXECUTED
        PROVE  state[t] >= EXECUTED
    <2>1. state[t] \in -1..4 /\ state'[t] \in -1..4
      BY DEF BaseInv, TypeInv, UNINITIALIZED, COMPLETED
    <2>2. /\ state[t] >= 1 => state'[t] = state[t]
          /\ state[t] < 1 => state'[t] < 1
      BY DEF Calm
    <2>3. QED
      BY <1>1, <2>1, <2>2 DEF EXECUTED
  <1>2. QED
    BY <1>1, ExecutedKept DEF Calm

LEMMA BusyExecuted ==
  ASSUME BaseInv, FlightInv, CoverInv, ExecutedInv, ~overlapped, Busy
  PROVE  ExecutedInv'
  <1>1. ASSUME NEW h \in Thread, NEW t \in Task, state'[t] \in {1, 2},
               \A u \in Task : u # t => state'[u] = state[u],
               UNCHANGED <<prevOrdered, finished, handling>>
        PROVE  ExecutedInv'
    <2>1. ~(state'[t] >= EXECUTED)
      BY <1>1 DEF EXECUTED
    <2>2. \A u \in Task : state'[u] >= EXECUTED => state[u] >= EXECUTED
      BY <1>1, <2>1
    <2>3. QED
      BY <1>1, <2>2, AdjacentKept, ExecutedKept
  <1>2. ASSUME NEW h \in Thread, TryAcquires(h)
        PROVE  ExecutedInv'
    <2>1. PICK t \in Task :
            /\ state'[t] = 1 /\ \A u \in Task : u # t => state'[u] = state[u]
            /\ UNCHANGED <<prevOrdered, finished, handling>>
      BY <1>2, AcquiresFacts
    <2>2. QED
      BY <1>1, <2>1
  <1>3. ASSUME NEW h \in Thread, MarkDispatched(h)
        PROVE  ExecutedInv'
    <2>1. PICK t \in Task :
            /\ state'[t] = 2 /\ \A u \in Task : u # t => state'[u] = state[u]
            /\ UNCHANGED <<prevOrdered, finished, handling>>
      BY <1>3, MarkDispatchedFacts
    <2>2. QED
      BY <1>1, <2>1
  <1>4. ASSUME NEW h \in Thread,
               Takes(h) \/ StoreIdentity(h) \/ EnqueueBarrier(h) \/ RegisterHandler(h)
        PROVE  ExecutedInv'
    <2>1. UNCHANGED <<state, prevOrdered, finished, handling>>
      BY <1>4, TakesFacts, StoreIdentityFacts, EnqueueBarrierFacts, RegisterHandlerFacts
    <2>2. QED
      BY <2>1, AdjacentKept, ExecutedKept
  <1>5. ASSUME NEW b \in handlers, HandleSignal(b)
        PROVE  ExecutedInv'
    <2>1. handling' = b /\ UNCHANGED <<state, prevOrdered, finished>>
      BY <1>5, HandleSignalFacts
    <2>2. ASSUME NEW t \in Task, t \in Elements(b) \/ state[t] >= EXECUTED
          PROVE  t \in finished \/ CopiesAdjacent(GroupOf[t])
      BY <1>5, <2>2, HandledFinished DEF ExecutedInv
    <2>3. \A t \in Task : CopiesAdjacent(GroupOf[t]) => CopiesAdjacent(GroupOf[t])'
      BY <2>1, AdjacentKept, Constants
    <2>4. Elements(handling)' = Elements(b)
      BY <2>1 DEF Elements
    <2>5. QED
      BY <2>1, <2>2, <2>3, <2>4 DEF ExecutedInv, EXECUTED
  <1>6. CASE MarkExecuted \/ ReleaseSignal
    <2>1. PICK t \in Task :
           /\ t \in Elements(handling)
           /\ \A u \in Task : u # t => state'[u] = state[u]
           /\ Elements(handling') \subseteq Elements(handling)
           /\ UNCHANGED <<prevOrdered, finished>>
      BY <1>6, HandledFacts
    <2>2. QED
      BY <2>1, AdjacentKept, ExecutedKept
  <1>7. ASSUME \/ \E t, p \in Task : SeePredecessor(t, p)
               \/ \E t \in Task : FinishTask(t)
               \/ \E q \in Queue : PassBarrier(q)
               \/ \E q \in Queue, p \in Task : SeeSink(q, p)
        PROVE  ExecutedInv'
    <2>1. UNCHANGED <<state, prevOrdered, handling>> /\ finished \subseteq finished'
      BY <1>7, FinishTaskFacts DEF SeePredecessor, PassBarrier, SeeSink, taskVars
    <2>2. QED
      BY <2>1, AdjacentKept, ExecutedKept
  <1>8. QED
    BY <1>2, <1>3, <1>4, <1>5, <1>6, <1>7 DEF Busy

LEMMA DependencyKept ==
  ASSUME DependencyInv, ~overlapped, finished \subseteq finished',
         \A g \in Group : CopiesAdjacent(g) => CopiesAdjacent(g)',
         \A t \in Task : Acquired(t)' => Acquired(t),
         \A t, p \in Task : p \in awaited[t] => p \in awaited'[t] \/ p \in finished'
  PROVE  DependencyInv'
  <1>1. ASSUME NEW t \in Task, Acquired(t)', NEW p \in Requires[t]
        PROVE  p \in awaited'[t] \/ p \in finished' \/ CopiesAdjacent(GroupOf[p])'
    <2>1. p \in Task
      BY Constants
    <2>2. p \in awaited[t] \/ p \in finished \/ CopiesAdjacent(GroupOf[p])
      BY <1>1 DEF DependencyInv
    <2>3. QED
      BY <2>1, <2>2, Constants
  <1>2. QED
    BY <1>1 DEF DependencyInv

LEMMA TryAcquiresDependency ==
  ASSUME BaseInv, ExecutedInv, DependencyInv, ~overlapped, NEW h \in Thread, TryAcquires(h)
  PROVE  DependencyInv'
  <1>1. PICK t \in Task : t = thread[h].task
    BY AcquiresFacts
  <1>2. /\ \A u \in Task : u # t => state'[u] = state[u]
        /\ awaited'[t] = AndPredecessors(t) /\ \A u \in Task : u # t => awaited'[u] = awaited[u]
        /\ UNCHANGED <<prevOrdered, finished>>
    BY <1>1, AcquiresFacts
  <1>3. \A g \in Group : CopiesAdjacent(g) => CopiesAdjacent(g)'
    BY <1>2, AdjacentKept
  <1>4. ASSUME NEW u \in Task, Acquired(u)', NEW p \in Requires[u]
        PROVE  p \in awaited'[u] \/ p \in finished' \/ CopiesAdjacent(GroupOf[p])'
    <2>1. p \in Task /\ state[p] \in Int
      BY Constants, StateNumbers DEF BaseInv
    <2>2. CASE u # t
      <3>1. Acquired(u)
        BY <1>2, <1>4, <2>2 DEF Acquired
      <3>2. p \in awaited[u] \/ p \in finished \/ CopiesAdjacent(GroupOf[p])
        BY <3>1 DEF DependencyInv
      <3>3. QED
        BY <1>2, <1>3, <2>1, <2>2, <3>2, Constants
    <2>3. CASE u = t
      <3>1. CASE state[p] < EXECUTED
        BY <1>2, <2>3, <3>1 DEF AndPredecessors
      <3>2. CASE ~(state[p] < EXECUTED)
        <4>1. state[p] >= EXECUTED
          BY <2>1, <3>2 DEF EXECUTED
        <4>2. p \in finished \/ CopiesAdjacent(GroupOf[p])
          BY <2>1, <4>1 DEF ExecutedInv
        <4>3. QED
          BY <1>2, <1>3, <2>1, <4>2, Constants
      <3>3. QED
        BY <3>1, <3>2
    <2>4. QED
      BY <2>2, <2>3
  <1>5. QED
    BY <1>4 DEF DependencyInv

LEMMA DependencyStep ==
  ASSUME BaseInv, BaseInv', ExecutedInv, DependencyInv, ~overlapped, Calm \/ Busy
  PROVE  DependencyInv'
  <1>1. CASE Still
    BY <1>1, StillFacts, DependencyKept
  <1>2. ASSUME \/ \E h \in Thread : Takes(h) \/ EnqueueBarrier(h) \/ RegisterHandler(h)
               \/ \E b \in handlers : HandleSignal(b)
        PROVE  DependencyInv'
    <2>1. UNCHANGED <<state, prevOrdered, finished, awaited>>
      BY <1>2, TakesFacts, EnqueueBarrierFacts, RegisterHandlerFacts, HandleSignalFacts
    <2>2. QED
      BY <2>1, AdjacentKept, DependencyKept DEF Acquired
  <1>3. ASSUME NEW t \in Task, NEW p \in Task, SeePredecessor(t, p)
        PROVE  DependencyInv'
    <2>1. /\ awaited' = [awaited EXCEPT ![t] = @ \ {p}]
          /\ UNCHANGED <<state, prevOrdered, finished>>
      BY <1>3 DEF SeePredecessor, taskVars
    <2>2. p \in finished
      BY <1>3, SeePredecessorFollow
    <2>3. \A u, v \in Task : v \in awaited[u] => v \in awaited'[u] \/ v \in finished'
      BY <2>1, <2>2 DEF BaseInv, TypeInv
    <2>4. QED
      BY <2>1, <2>3, AdjacentKept, DependencyKept DEF Acquired
  <1>4. ASSUME \/ \E t \in Task : FinishTask(t)
               \/ \E q \in Queue : PassBarrier(q)
               \/ \E q \in Queue, p \in Task : SeeSink(q, p)
        PROVE  DependencyInv'
    <2>1. UNCHANGED <<state, prevOrdered, awaited>> /\ finished \subseteq finished'
      BY <1>4, FinishTaskFacts DEF PassBarrier, SeeSink, taskVars
    <2>2. QED
      BY <2>1, AdjacentKept, DependencyKept DEF Acquired
  <1>5. QED
    BY <1>1, <1>2, <1>3, <1>4, TryAcquiresDependency DEF Busy, Still

BarrierInv == Owned /\ PacketInv /\ CoverInv /\ ExecutedInv /\ DependencyInv

LEMMA InitBarrier ==
  ASSUME Init
  PROVE  BarrierInv
  <1>1. \A t \in Task : state[t] = -1
    BY DEF Init, UNINITIALIZED
  <1>2. Elements(handling) = {}
    BY EmptyList DEF Init
  <1>3. ExecutedInv
    BY <1>1, <1>2 DEF ExecutedInv, EXECUTED
  <1>4. DependencyInv
    BY <1>1 DEF DependencyInv, Acquired, READY
  <1>5. QED
    BY <1>3, <1>4, InitOwned, InitCover DEF BarrierInv

LEMMA BarrierStep ==
  ASSUME BarrierInv, [Next]_vars
  PROVE  BarrierInv'
  <1>1. Owned' /\ BaseInv /\ BaseInv' /\ FlightInv
    BY OwnedStep DEF BarrierInv, Owned
  <1>2. Calm \/ Busy
    BY <1>1, CalmOrBusy
  <1>3. PacketInv' /\ CoverInv'
    BY <1>1, <1>2, PacketStep, CoverStep DEF BarrierInv
  <1>4. ExecutedInv' /\ DependencyInv'
    <2>1. CASE ~overlapped'
      <3>1. ~overlapped
        BY <1>1, <1>2, <2>1, OverlapStays
      <3>2. QED
        BY <1>1, <1>2, <3>1, CalmExecuted, BusyExecuted, DependencyStep DEF BarrierInv
    <2>2. CASE overlapped'
      BY <2>2 DEF ExecutedInv, DependencyInv
    <2>3. QED
      BY <2>1, <2>2
  <1>5. QED
    BY <1>1, <1>3, <1>4 DEF BarrierInv

\* The whole inductive invariant: the packets, what follows what in a batch, and
\* what is finished when its batch ends or its device has seen its signal.
THEOREM BarrierAlways == Spec => []BarrierInv
  BY InitBarrier, BarrierStep, PTL DEF Spec

\* BatchesFinished, for all programs: "at this point in the callback, we are
\* guaranteed that all dispatched_tasks have completed execution" (task.cpp:563)
\* as long as batches do not overlap and no two copies of an ordered group are
\* in a row.  Each unfinished task of a batch is a sink, or one follows it.
THEOREM BatchesAreFinished == Spec => []BatchesFinished
  <1>1. ASSUME BarrierInv
        PROVE  BatchesFinished
    <2>1. Elements(handling) \subseteq Task
      BY <1>1, ListsTyped, InElements DEF BarrierInv, Owned, BaseInv
    <2>2. QED
      BY <1>1, <2>1 DEF BarrierInv, ExecutedInv, BatchesFinished
  <1>2. QED
    BY <1>1, BarrierAlways, PTL

\* DependenciesRespected, for all programs: what a task requires is finished
\* when a device may start it, though all that was asked of it was to be
\* dispatched.  A copy that another follows in an ordered group is excepted.
THEOREM DependenciesAreKept == Spec => []DependenciesRespected
  <1>1. ASSUME BarrierInv
        PROVE  DependenciesRespected
    <2> SUFFICES ASSUME ~overlapped, NEW t \in Task, Runnable(t), NEW p \in Requires[t]
                 PROVE  p \in finished \/ CopiesAdjacent(GroupOf[p])
      BY DEF DependenciesRespected
    <2>1. t \in published /\ awaited[t] = {}
      BY DEF Runnable
    <2>2. Acquired(t)
      BY <1>1, <2>1 DEF BarrierInv, Owned, BaseInv, TurnInv
    <2>3. QED
      BY <1>1, <2>1, <2>2 DEF BarrierInv, DependencyInv
  <1>2. QED
    BY <1>1, BarrierAlways, PTL

=============================================================================

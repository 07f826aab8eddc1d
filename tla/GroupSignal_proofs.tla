--------------------------- MODULE GroupSignal_proofs ---------------------------
(***************************************************************************)
(* Proof that the callback_started_ protocol forgets no running task, for  *)
(* any number of tasks, groups, threads and segments.                      *)
(***************************************************************************)
EXTENDS GroupSignal, FiniteSetTheorems, TLAPS

-------------------------------------------------------------------------------
(***************************************************************************)
(* The invariant.  The flag stands for a handler that has not taken the    *)
(* running tasks yet: whoever set it is about to register the handler, or  *)
(* has, or the handler is on its way to the list.  So a dispatcher that    *)
(* finds the flag set may leave its task to that handler.                  *)
(***************************************************************************)
HandlerOnItsWay(g) ==
  thread[Callback].at \in {"enter", "drain"} /\ thread[Callback].group = g

Registering(g) ==
  \E h \in Thread : thread[h].at = "register" /\ GroupOf[thread[h].task] = g

FlagStandsForHandler ==
  \A g \in Group : callbackStarted[g] => armed[g] \/ HandlerOnItsWay(g) \/ Registering(g)

\* What is needed of types.  Only the callback thread has a loop to return to.
Fields(f) == f = Frame(f.at, f.task, f.group, f.via)

Shape ==
  /\ thread = [h \in Thread |-> thread[h]]
  /\ \A h \in Thread : Fields(thread[h])
  /\ \A a \in App : thread[a].via = "launch"
  /\ callbackStarted \in [Group -> BOOLEAN]
  /\ armed \in [Group -> BOOLEAN]
  /\ runningGroupable = [g \in Group |-> runningGroupable[g]]

ProtocolInv == Shape /\ FlagStandsForHandler /\ HandlerComes

-------------------------------------------------------------------------------
(***************************************************************************)
(* Threads move one at a time.                                             *)
(***************************************************************************)
\* Thread h moves to one of the labels L.
Moves(h, L) ==
  /\ thread' = [thread EXCEPT ![h] = thread'[h]]
  /\ thread'[h].at \in L
  /\ Fields(thread'[h])
  /\ h \in App => thread'[h].via = "launch"

LEMMA ThreadAssumption ==
  Callback \in Thread /\ \A a \in App : a \in Thread /\ a # Callback
  BY GroupTaskAssumption DEF Thread

LEMMA GotoMoves ==
  ASSUME Shape, NEW h \in Thread, NEW l, Goto(h, l)
  PROVE  /\ Moves(h, {l})
         /\ thread'[h].task = thread[h].task /\ thread'[h].group = thread[h].group
  <1>1. PICK t, g, v : /\ t = thread[h].task /\ g = thread[h].group /\ v = thread[h].via
                       /\ thread[h] = Frame(thread[h].at, t, g, v)
    BY DEF Shape, Fields
  <1>2. [thread[h] EXCEPT !.at = l] = Frame(l, t, g, v)
    BY <1>1 DEF Frame
  <1>3. thread' = [thread EXCEPT ![h] = Frame(l, t, g, v)]
    BY <1>2 DEF Goto
  <1>4. thread'[h] = Frame(l, t, g, v)
    BY <1>3 DEF Shape
  <1>5. h \in App => v = "launch"
    BY <1>1 DEF Shape
  <1>6. /\ thread'[h].at = l /\ thread'[h].task = t
        /\ thread'[h].group = g /\ thread'[h].via = v
    BY <1>4 DEF Frame
  <1>7. QED
    BY <1>1, <1>3, <1>4, <1>5, <1>6 DEF Moves, Fields

LEMMA RestMoves ==
  ASSUME Shape, NEW h \in Thread, Rest(h)
  PROVE  Moves(h, {"idle"})
  BY DEF Shape, Rest, Moves, Fields, Frame, Idle

LEMMA WorkMoves ==
  ASSUME Shape, NEW h \in Thread, NEW l, NEW t, NEW v, Work(h, l, t, v),
         h \in App => v = "launch"
  PROVE  Moves(h, {l})
  <1>1. PICK g : g = thread[h].group
    OBVIOUS
  <1>3. thread' = [thread EXCEPT ![h] = Frame(l, t, g, v)]
    BY <1>1 DEF Shape, Work
  <1>4. thread'[h] = Frame(l, t, g, v)
    BY <1>3 DEF Shape
  <1>5. /\ thread'[h].at = l /\ thread'[h].task = t
        /\ thread'[h].group = g /\ thread'[h].via = v
    BY <1>4 DEF Frame
  <1>6. QED
    BY <1>3, <1>4, <1>5 DEF Moves, Fields

\* Where an attempt or a loop of doProgress leaves its thread.
Outside == {"idle", "pop", "front", "discount"}

LEMMA EndTryMoves ==
  ASSUME Shape, NEW h \in Thread, NEW b \in BOOLEAN, EndTry(h, b)
  PROVE  Moves(h, Outside)
  <1>1. CASE thread[h].via = "front" /\ ~b
    <2>1. h = Callback /\ EndProgress
      BY <1>1 DEF Shape, Thread, EndTry
    <2>2. QED
      BY <2>1, GotoMoves, RestMoves DEF EndProgress, Moves, Outside
  <1>2. CASE ~(thread[h].via = "front" /\ ~b)
    <2>1. Goto(h, "pop") \/ Goto(h, "front") \/ Rest(h)
      BY <1>2 DEF EndTry
    <2>2. QED
      BY <2>1, GotoMoves, RestMoves DEF Moves, Outside
  <1>3. QED
    BY <1>1, <1>2

LEMMA ProgressMoves ==
  ASSUME Shape, EndProgress
  PROVE  Moves(Callback, Outside)
  BY ThreadAssumption, GotoMoves, RestMoves DEF EndProgress, Moves, Outside

-------------------------------------------------------------------------------
(***************************************************************************)
(* Steps outside the protocol: no thread between joining the running tasks *)
(* and registering the handler moves, nor the handler on its way to them.  *)
(***************************************************************************)
Protocol == {"mark", "publish", "arm", "register", "enter", "drain"}

Quiet ==
  /\ UNCHANGED <<callbackStarted, armed>>
  /\ \/ runningGroupable' = runningGroupable
     \/ \E g : runningGroupable' = [runningGroupable EXCEPT ![g] = <<>>]
  /\ \/ thread' = thread
     \/ \E h \in Thread : thread[h].at \notin Protocol /\ \E L : Moves(h, L)

LEMMA QuietKeeps ==
  ASSUME ProtocolInv, Quiet
  PROVE  ProtocolInv'
  <1>1. Callback \in Thread
    BY ThreadAssumption
  <1>2. \A i \in Thread : thread[i].at \in Protocol => thread'[i] = thread[i]
    BY DEF ProtocolInv, Shape, Quiet, Moves
  <1>3. Shape'
    <2>1. /\ thread' = [h \in Thread |-> thread'[h]]
          /\ \A h \in Thread : Fields(thread'[h])
          /\ \A a \in App : thread'[a].via = "launch"
      BY ThreadAssumption DEF ProtocolInv, Shape, Quiet, Moves
    <2>2. runningGroupable' = [g \in Group |-> runningGroupable'[g]]
      BY DEF ProtocolInv, Shape, Quiet
    <2>3. QED
      BY <2>1, <2>2 DEF ProtocolInv, Shape, Quiet, Fields
  <1>4. \A g \in Group : runningGroupable'[g] # <<>> => runningGroupable[g] # <<>>
    BY DEF ProtocolInv, Shape, Quiet
  <1>5. FlagStandsForHandler'
    BY <1>1, <1>2
    DEF ProtocolInv, Quiet, FlagStandsForHandler, HandlerOnItsWay, Registering, Protocol
  <1>6. HandlerComes'
    BY <1>1, <1>2, <1>4 DEF ProtocolInv, Quiet, HandlerComes, Protocol
  <1>7. QED
    BY <1>3, <1>5, <1>6 DEF ProtocolInv

LEMMA TryQuiet ==
  ASSUME Shape, NEW h \in Thread, TryDispatch(h)
  PROVE  Quiet
  <1>1. /\ thread[h].at = "try"
        /\ UNCHANGED <<callbackStarted, armed, runningGroupable>>
        /\ EndTry(h, FALSE) \/ Goto(h, "push")
    BY DEF TryDispatch, TryWaitsForGroup, TryWaitsForPrevious, TryLacksResources,
           TryAcquires, TryTaken, KeepForLater, TryLeavesUnchanged, signalVars, At
  <1>2. \E L : Moves(h, L)
    BY <1>1, EndTryMoves, GotoMoves
  <1>3. QED
    BY <1>1, <1>2 DEF Quiet, Protocol

LEMMA AppQuiet ==
  ASSUME Shape, NEW a \in App,
         Launch(a) \/ (\E g \in Group : CallSync(a, g)) \/ CountTask(a) \/ Sync(a)
  PROVE  Quiet
  <1>1. a \in Thread
    BY ThreadAssumption
  <1>2. CASE Launch(a)
    <2>1. PICK t \in Task : Construct(a, t)
      BY <1>2 DEF Launch
    <2>2. /\ thread[a].at = "idle" /\ Work(a, "count", t, "launch")
          /\ UNCHANGED <<callbackStarted, armed, runningGroupable>>
      BY <2>1 DEF Construct, signalVars, At
    <2>3. QED
      BY <1>1, <2>2, WorkMoves DEF Quiet, Protocol
  <1>3. ASSUME NEW g \in Group, CallSync(a, g) PROVE Quiet
    <2>1. /\ thread[a].at = "idle"
          /\ thread' = [thread EXCEPT ![a] = Frame("sync", NoTask, g, "launch")]
          /\ UNCHANGED <<callbackStarted, armed, runningGroupable>>
      BY <1>3 DEF CallSync, SyncLeavesUnchanged, signalVars, listVars, At
    <2>2. Moves(a, {"sync"})
      BY <1>1, <2>1 DEF Shape, Moves, Fields, Frame
    <2>3. QED
      BY <1>1, <2>1, <2>2 DEF Quiet, Protocol
  <1>4. CASE CountTask(a)
    <2>1. /\ thread[a].at = "count" /\ Goto(a, "try")
          /\ UNCHANGED <<callbackStarted, armed, runningGroupable>>
      BY <1>4 DEF CountTask, signalVars, listVars, At
    <2>2. QED
      BY <1>1, <2>1, GotoMoves DEF Quiet, Protocol
  <1>5. CASE Sync(a)
    <2>1. /\ thread[a].at \in {"sync", "waiting", "clearing"}
          /\ UNCHANGED <<callbackStarted, armed>>
          /\ \/ runningGroupable' = runningGroupable
             \/ \E g : runningGroupable' = [runningGroupable EXCEPT ![g] = <<>>]
          /\ \/ thread' = thread
             \/ \E l : Goto(a, l)
             \/ Rest(a)
      BY <1>5 DEF Sync, SyncCounted, SyncWaited, SyncForgetsLast, SyncClears,
                  WaitedForAll, SyncLeavesUnchanged, signalVars, listVars, At
    <2>2. thread' = thread \/ \E L : Moves(a, L)
      BY <1>1, <2>1, GotoMoves, RestMoves
    <2>3. QED
      BY <1>1, <2>1, <2>2 DEF Quiet, Protocol
  <1>6. QED
    BY <1>2, <1>3, <1>4, <1>5

LEMMA HandlerQuiet ==
  ASSUME Shape,
         \/ ReleaseTasks \/ DoProgress \/ TakeFront \/ PopReady
         \/ DiscountTasks \/ LoadCount \/ ClearSuccessors
         \/ BeginVisits \/ VisitSuccessor \/ PushReady
  PROVE  Quiet
  <1>1. /\ thread[Callback].at \in
             {"release", "progress", "front", "pop", "discount", "load", "clear", "visit",
              "unlink"}
        /\ UNCHANGED <<callbackStarted, armed, runningGroupable>>
    BY DEF ReleaseTasks, DoProgress, TakeFront, PopReady, DiscountTasks, LoadCount,
           ClearSuccessors, BeginVisits, VisitSuccessor, PushReady,
           ProgressLeavesUnchanged, signalVars, listVars, At
  <1>2. \/ thread' = thread
        \/ \E l : Goto(Callback, l)
        \/ \E l, t, v : Work(Callback, l, t, v)
        \/ Rest(Callback) \/ EndProgress
        \/ \E t : thread' = [thread EXCEPT ![Callback] =
                               Frame("progress", t, NoGroup, "launch")]
    <2>1. CASE BeginVisits \/ VisitSuccessor \/ PushReady
      BY <2>1 DEF BeginVisits, VisitSuccessor, PushReady
    <2>2. CASE ~(BeginVisits \/ VisitSuccessor \/ PushReady)
      BY <2>2 DEF ReleaseTasks, DoProgress, TakeFront, PopReady, DiscountTasks, LoadCount,
                  ClearSuccessors
    <2>3. QED
      BY <2>1, <2>2
  <1>3. thread' = thread \/ \E L : Moves(Callback, L)
    <2>1. ASSUME NEW t, thread' = [thread EXCEPT ![Callback] =
                                     Frame("progress", t, NoGroup, "launch")]
          PROVE  Moves(Callback, {"progress"})
      BY <2>1, ThreadAssumption DEF Shape, Moves, Fields, Frame
    <2>2. QED
      BY <1>2, <2>1, ThreadAssumption, GotoMoves, WorkMoves, RestMoves, ProgressMoves
  <1>4. QED
    BY <1>1, <1>3, ThreadAssumption DEF Quiet, Protocol

-------------------------------------------------------------------------------
(***************************************************************************)
(* The steps of the protocol.                                              *)
(***************************************************************************)
LEMMA ShapeKept ==
  ASSUME Shape, NEW h \in Thread, NEW L, Moves(h, L),
         callbackStarted' \in [Group -> BOOLEAN], armed' \in [Group -> BOOLEAN],
         runningGroupable' = [g \in Group |-> runningGroupable'[g]]
  PROVE  Shape' /\ \A i \in Thread : i # h => thread'[i] = thread[i]
  BY ThreadAssumption DEF Shape, Moves, Fields

\* A dispatcher between the push and the test_and_set.
LEMMA DispatchKeeps ==
  ASSUME ProtocolInv, NEW h \in Thread, JoinRunning(h) \/ MarkDispatched(h) \/ Publish(h)
  PROVE  ProtocolInv'
  <1>1. PICK t : t = thread[h].task
    OBVIOUS
  <1>2. PICK l \in {"mark", "publish", "arm"} :
          /\ thread[h].at \in {"push", "mark", "publish"}
          /\ Goto(h, l)
          /\ UNCHANGED <<callbackStarted, armed>>
          /\ \/ runningGroupable' = runningGroupable
             \/ runningGroupable' =
                  [runningGroupable EXCEPT ![GroupOf[t]] = Append(@, t)]
    BY <1>1 DEF JoinRunning, MarkDispatched, Publish, signalVars, At
  <1>3. /\ Moves(h, {l}) /\ thread'[h].at = l /\ thread'[h].task = t
    BY <1>1, <1>2, GotoMoves DEF ProtocolInv, Moves
  <1>4. Shape' /\ \A i \in Thread : i # h => thread'[i] = thread[i]
    <2>1. runningGroupable' = [g \in Group |-> runningGroupable'[g]]
      BY <1>2 DEF ProtocolInv, Shape
    <2>2. QED
      BY <1>2, <1>3, <2>1, ShapeKept DEF ProtocolInv, Shape
  <1>5. \A g \in Group : HandlerOnItsWay(g) => HandlerOnItsWay(g)'
    BY <1>2, <1>4, ThreadAssumption DEF HandlerOnItsWay
  <1>6. FlagStandsForHandler'
    <2>1. \A g \in Group : Registering(g) => Registering(g)'
      BY <1>2, <1>4 DEF Registering
    <2>2. QED
      BY <1>2, <1>5, <2>1 DEF ProtocolInv, FlagStandsForHandler
  <1>7. HandlerComes'
    <2> SUFFICES ASSUME NEW g \in Group, runningGroupable'[g] # <<>>, GroupOf[t] # g
                 PROVE  \/ armed'[g]
                        \/ HandlerOnItsWay(g)'
                        \/ \E i \in Thread :
                             /\ thread'[i].at \in {"mark", "publish", "arm", "register"}
                             /\ GroupOf[thread'[i].task] = g
      BY <1>3 DEF HandlerComes, HandlerOnItsWay
    <2>1. runningGroupable[g] # <<>>
      BY <1>2 DEF ProtocolInv, Shape
    <2>2. QED
      BY <1>1, <1>2, <1>4, <1>5, <2>1 DEF ProtocolInv, HandlerComes, HandlerOnItsWay
  <1>8. QED
    BY <1>4, <1>6, <1>7 DEF ProtocolInv

\* Whoever finds the flag set leaves, for a handler is on its way already.
LEMMA TestAndSetKeeps ==
  ASSUME ProtocolInv, NEW h \in Thread, TestAndSet(h)
  PROVE  ProtocolInv'
  <1>1. PICK d : d = GroupOf[thread[h].task]
    OBVIOUS
  <1>2. /\ thread[h].at = "arm"
        /\ callbackStarted' = [callbackStarted EXCEPT ![d] = TRUE]
        /\ UNCHANGED <<armed, runningGroupable>>
        /\ IF callbackStarted[d] THEN EndTry(h, TRUE) ELSE Goto(h, "register")
    BY <1>1 DEF TestAndSet, At
  <1>3. \E L : Moves(h, L)
    BY <1>2, EndTryMoves, GotoMoves DEF ProtocolInv
  <1>4. Shape' /\ \A i \in Thread : i # h => thread'[i] = thread[i]
    BY <1>2, <1>3, ShapeKept DEF ProtocolInv, Shape
  <1>5. \A g \in Group : /\ HandlerOnItsWay(g) => HandlerOnItsWay(g)'
                         /\ Registering(g) => Registering(g)'
    BY <1>2, <1>4, ThreadAssumption DEF HandlerOnItsWay, Registering
  <1>6. d \in Group => armed[d] \/ HandlerOnItsWay(d)' \/ Registering(d)'
    <2>1. CASE callbackStarted[d]
      BY <1>5, <2>1 DEF ProtocolInv, FlagStandsForHandler
    <2>2. CASE ~callbackStarted[d]
      <3>1. thread'[h].at = "register" /\ thread'[h].task = thread[h].task
        BY <1>2, <2>2, GotoMoves DEF ProtocolInv, Moves
      <3>2. QED
        BY <1>1, <3>1 DEF Registering
    <2>3. QED
      BY <2>1, <2>2
  <1>7. FlagStandsForHandler'
    BY <1>2, <1>5, <1>6 DEF ProtocolInv, FlagStandsForHandler, Shape
  <1>8. HandlerComes'
    <2> SUFFICES ASSUME NEW g \in Group, runningGroupable[g] # <<>>
                 PROVE  \/ armed[g]
                        \/ HandlerOnItsWay(g)'
                        \/ \E i \in Thread :
                             /\ thread'[i].at \in {"mark", "publish", "arm", "register"}
                             /\ GroupOf[thread'[i].task] = g
      BY <1>2 DEF HandlerComes, HandlerOnItsWay
    <2>1. CASE g = d
      BY <1>6, <2>1 DEF Registering
    <2>2. CASE g # d
      BY <1>1, <1>4, <1>5, <2>2 DEF ProtocolInv, HandlerComes, HandlerOnItsWay
    <2>3. QED
      BY <2>1, <2>2
  <1>9. QED
    BY <1>4, <1>7, <1>8 DEF ProtocolInv

LEMMA RegisterKeeps ==
  ASSUME ProtocolInv, NEW h \in Thread, RegisterHandler(h)
  PROVE  ProtocolInv'
  <1>1. PICK d : d = GroupOf[thread[h].task]
    OBVIOUS
  <1>2. /\ thread[h].at = "register"
        /\ armed' = [armed EXCEPT ![d] = TRUE]
        /\ UNCHANGED <<callbackStarted, runningGroupable>>
        /\ EndTry(h, TRUE)
    BY <1>1 DEF RegisterHandler, At
  <1>3. Moves(h, Outside)
    BY <1>2, EndTryMoves DEF ProtocolInv
  <1>4. Shape' /\ \A i \in Thread : i # h => thread'[i] = thread[i]
    BY <1>2, <1>3, ShapeKept DEF ProtocolInv, Shape
  <1>5. \A g \in Group : HandlerOnItsWay(g) => HandlerOnItsWay(g)'
    BY <1>2, <1>4, ThreadAssumption DEF HandlerOnItsWay
  <1>6. \A g \in Group : (armed[g] => armed'[g]) /\ (g = d => armed'[g])
    BY <1>2 DEF ProtocolInv, Shape
  <1>7. FlagStandsForHandler'
    BY <1>1, <1>2, <1>4, <1>5, <1>6 DEF ProtocolInv, FlagStandsForHandler, Registering
  <1>8. HandlerComes'
    BY <1>1, <1>2, <1>4, <1>5, <1>6 DEF ProtocolInv, HandlerComes, HandlerOnItsWay
  <1>9. QED
    BY <1>4, <1>7, <1>8 DEF ProtocolInv

\* The handler is called, takes the lock, and takes the running tasks.
LEMMA HandlerKeeps ==
  ASSUME ProtocolInv, (\E g \in Group : HandleGroupSignal(g)) \/ LockGroup \/ TakeRunning
  PROVE  ProtocolInv'
  <1>1. ASSUME NEW d \in Group, HandleGroupSignal(d) PROVE ProtocolInv'
    <2>1. /\ thread[Callback].at = "idle"
          /\ armed' = [armed EXCEPT ![d] = FALSE]
          /\ thread' = [thread EXCEPT ![Callback] = Frame("enter", NoTask, d, "launch")]
          /\ UNCHANGED <<callbackStarted, runningGroupable>>
      BY <1>1 DEF HandleGroupSignal, listVars, At
    <2>2. Moves(Callback, {"enter"}) /\ HandlerOnItsWay(d)'
      BY <2>1, ThreadAssumption
      DEF ProtocolInv, Shape, Moves, Fields, Frame, HandlerOnItsWay
    <2>3. Shape' /\ \A i \in Thread : i # Callback => thread'[i] = thread[i]
      BY <2>1, <2>2, ThreadAssumption, ShapeKept DEF ProtocolInv, Shape
    <2>4. \A g \in Group : g # d => armed'[g] = armed[g]
      BY <2>1 DEF ProtocolInv, Shape
    <2>5. FlagStandsForHandler'
      BY <2>1, <2>2, <2>3, <2>4
      DEF ProtocolInv, FlagStandsForHandler, HandlerOnItsWay, Registering
    <2>6. HandlerComes'
      BY <2>1, <2>2, <2>3, <2>4 DEF ProtocolInv, HandlerComes, HandlerOnItsWay
    <2>7. QED
      BY <2>3, <2>5, <2>6 DEF ProtocolInv
  <1>2. CASE LockGroup
    <2>1. /\ thread[Callback].at = "enter" /\ Goto(Callback, "drain")
          /\ UNCHANGED <<callbackStarted, armed, runningGroupable>>
      BY <1>2 DEF LockGroup, signalVars, listVars, At
    <2>2. /\ Moves(Callback, {"drain"}) /\ thread'[Callback].at = "drain"
          /\ thread'[Callback].group = thread[Callback].group
      BY <2>1, ThreadAssumption, GotoMoves DEF ProtocolInv, Moves
    <2>3. Shape' /\ \A i \in Thread : i # Callback => thread'[i] = thread[i]
      BY <2>1, <2>2, ThreadAssumption, ShapeKept DEF ProtocolInv, Shape
    <2>4. FlagStandsForHandler'
      BY <2>1, <2>2, <2>3
      DEF ProtocolInv, FlagStandsForHandler, HandlerOnItsWay, Registering
    <2>5. HandlerComes'
      BY <2>1, <2>2, <2>3 DEF ProtocolInv, HandlerComes
    <2>6. QED
      BY <2>3, <2>4, <2>5 DEF ProtocolInv
  <1>3. CASE TakeRunning
    <2>1. PICK d : d = thread[Callback].group
      OBVIOUS
    <2>2. /\ thread[Callback].at = "drain" /\ Goto(Callback, "release")
          /\ runningGroupable' = [runningGroupable EXCEPT ![d] = <<>>]
          /\ callbackStarted' = [callbackStarted EXCEPT ![d] = FALSE]
          /\ armed' = armed
      BY <1>3, <2>1 DEF TakeRunning, ForgetRunning, ClearFlag, At
    <2>3. Moves(Callback, {"release"})
      BY <2>2, ThreadAssumption, GotoMoves DEF ProtocolInv
    <2>4. Shape' /\ \A i \in Thread : i # Callback => thread'[i] = thread[i]
      <3>1. runningGroupable' = [g \in Group |-> runningGroupable'[g]]
        BY <2>2 DEF ProtocolInv, Shape
      <3>2. QED
        BY <2>2, <2>3, <3>1, ThreadAssumption, ShapeKept DEF ProtocolInv, Shape
    <2>5. \A g \in Group :
            /\ callbackStarted'[g] => callbackStarted[g] /\ g # d
            /\ runningGroupable'[g] # <<>> => runningGroupable[g] # <<>> /\ g # d
      BY <2>2 DEF ProtocolInv, Shape
    <2>6. FlagStandsForHandler'
      BY <2>1, <2>2, <2>4, <2>5
      DEF ProtocolInv, FlagStandsForHandler, HandlerOnItsWay, Registering
    <2>7. HandlerComes'
      BY <2>1, <2>2, <2>4, <2>5 DEF ProtocolInv, HandlerComes
    <2>8. QED
      BY <2>4, <2>6, <2>7 DEF ProtocolInv
  <1>4. QED
    BY <1>1, <1>2, <1>3

-------------------------------------------------------------------------------
LEMMA ProtocolInit ==
  ASSUME Init
  PROVE  ProtocolInv
  <1>1. Shape
    BY ThreadAssumption DEF Init, Shape, Fields, Idle, Frame
  <1>2. QED
    BY <1>1 DEF Init, ProtocolInv, FlagStandsForHandler, HandlerComes

LEMMA ProtocolStep ==
  ASSUME ProtocolInv, [Next]_vars
  PROVE  ProtocolInv'
  <1>1. ASSUME NEW h \in Thread, TryDispatch(h) \/ Dispatch(h) PROVE ProtocolInv'
    BY <1>1, TryQuiet, QuietKeeps, DispatchKeeps, TestAndSetKeeps, RegisterKeeps
    DEF Dispatch, ProtocolInv
  <1>2. ASSUME NEW a \in App,
               Launch(a) \/ (\E g \in Group : CallSync(a, g)) \/ AppStep(a)
        PROVE  ProtocolInv'
    BY <1>1, <1>2, ThreadAssumption, AppQuiet, QuietKeeps DEF AppStep, ProtocolInv
  <1>3. CASE Handler
    BY <1>1, <1>3, ThreadAssumption, HandlerQuiet, QuietKeeps, HandlerKeeps
    DEF Handler, ProtocolInv
  <1>4. CASE Device \/ UNCHANGED vars
    <2>1. Quiet
      BY <1>4 DEF Device, CompletePacket, vars, signalVars, listVars, Quiet
    <2>2. QED
      BY <2>1, QuietKeeps
  <1>5. QED
    BY <1>2, <1>3, <1>4 DEF Next

(***************************************************************************)
(* No running task of a group is left without a handler to complete it:    *)
(* the handler clears callback_started_ in the critical section in which   *)
(* it takes the running tasks, so that a dispatcher which joined them      *)
(* before finds the flag set and a handler still to come, and one which    *)
(* joined after sets the flag itself.                                      *)
(***************************************************************************)
THEOREM HandlerAlwaysComes == Spec => []HandlerComes
  <1>1. ProtocolInv => HandlerComes
    BY DEF ProtocolInv
  <1>2. QED
    BY <1>1, ProtocolInit, ProtocolStep, PTL DEF Spec

-------------------------------------------------------------------------------
(***************************************************************************)
(* Types.  A thread that works on a task, or on a group, has one in hand.  *)
(***************************************************************************)
Dispatching == {"push", "mark", "publish", "arm", "register"}
TaskLabels == Dispatching \cup {"count", "try", "progress", "front"}
GroupLabels == {"enter", "drain", "release", "discount", "load", "clear", "visit",
                "unlink", "sync", "waiting", "clearing"}

Control(f) ==
  /\ f = Frame(f.at, f.task, f.group, f.via)
  /\ f.at \in Label
  /\ f.task \in Task \cup {NoTask}
  /\ f.group \in Group \cup {NoGroup}
  /\ f.via \in {"launch", "front", "pop"}
  /\ f.at \in TaskLabels => f.task \in Task
  /\ f.at \in GroupLabels => f.group \in Group

ThreadsTyped ==
  /\ thread = [h \in Thread |-> thread[h]]
  /\ \A h \in Thread : Control(thread[h])
  /\ \A a \in App : thread[a].via = "launch"

TasksTyped ==
  /\ state \in [Task -> UNINITIALIZED..COMPLETED]
  /\ numPredecessors \in [Task -> Int]
  /\ prevOrdered \in [Task -> Task \cup {NoTask}]
  /\ segmentOf \in [Task -> Segment \cup {0}]
  /\ freeSegments \subseteq Segment
  /\ packetsLeft \in [Task -> Nat]
  /\ published \subseteq Task

GroupsTyped ==
  /\ groupSignal \in [Group -> Int]
  /\ taskCount \in [Group -> Int]
  /\ groupSuccessors \in [Group -> Seq(Task)]
  /\ callbackStarted \in [Group -> BOOLEAN]
  /\ armed \in [Group -> BOOLEAN]
  /\ runningGroupable \in [Group -> Seq(Task)]
  /\ runningOrdered \in [Group -> Seq(Task)]
  /\ underflowed \subseteq Group
  /\ runningDefault \in [Group -> Seq(Task)]
  /\ lastTask \in [Group -> Task \cup {NoTask}]

ListsTyped ==
  /\ readyQueue \in Seq(Task)
  /\ toWait \in [App -> Seq(Task)]
  /\ groupTasks \in Seq(Task)
  /\ toVisit \in Seq(Task)
  /\ tempList \in Seq(Task)
  /\ budget \in Nat

Types == ThreadsTyped /\ TasksTyped /\ GroupsTyped /\ ListsTyped

LEMMA TypesGiveShape ==
  ASSUME Types
  PROVE  Shape
  BY DEF Types, ThreadsTyped, Control, GroupsTyped, Shape, Fields

\* Thread h moves to one of the labels L, with what it needs there.
Lands(h, L) == Moves(h, L) /\ Control(thread'[h])

LEMMA LandsTyped ==
  ASSUME ThreadsTyped, NEW h \in Thread, NEW L, Lands(h, L)
  PROVE  ThreadsTyped' /\ \A i \in Thread : i # h => thread'[i] = thread[i]
  <1>1. /\ thread' = [i \in Thread |-> thread'[i]]
        /\ \A i \in Thread : i # h => thread'[i] = thread[i]
    BY DEF ThreadsTyped, Lands, Moves
  <1>2. \A i \in Thread : Control(thread'[i])
    BY <1>1 DEF ThreadsTyped, Lands
  <1>3. \A a \in App : thread'[a].via = "launch"
    BY <1>1, ThreadAssumption DEF ThreadsTyped, Lands, Moves
  <1>4. ThreadsTyped'
    <2>1. \A i \in Thread : Control(thread[i])'
      BY <1>2 DEF Control
    <2>2. QED
      BY <1>1, <1>3, <2>1 DEF ThreadsTyped
  <1>5. QED
    BY <1>1, <1>4

LEMMA GotoLands ==
  ASSUME Types, NEW h \in Thread, NEW l \in Label, Goto(h, l),
         l \in TaskLabels => thread[h].task \in Task,
         l \in GroupLabels => thread[h].group \in Group
  PROVE  /\ Lands(h, {l})
         /\ thread'[h].at = l
         /\ thread'[h].task = thread[h].task /\ thread'[h].group = thread[h].group
  <1>1. PICK t, g, v : /\ t = thread[h].task /\ g = thread[h].group /\ v = thread[h].via
                       /\ thread[h] = Frame(thread[h].at, t, g, v)
    BY DEF Types, ThreadsTyped, Control
  <1>2. [thread[h] EXCEPT !.at = l] = Frame(l, t, g, v)
    BY <1>1 DEF Frame
  <1>3. thread'[h] = Frame(l, t, g, v)
    BY <1>2 DEF Goto, Types, ThreadsTyped
  <1>4. /\ thread'[h].at = l /\ thread'[h].task = t
        /\ thread'[h].group = g /\ thread'[h].via = v
    BY <1>3 DEF Frame
  <1>5. Control(thread'[h])
    BY <1>1, <1>3, <1>4 DEF Types, ThreadsTyped, Control
  <1>6. Moves(h, {l})
    BY GotoMoves, TypesGiveShape
  <1>7. QED
    BY <1>1, <1>4, <1>5, <1>6 DEF Lands

LEMMA FrameLands ==
  ASSUME Types, NEW h \in Thread, NEW l \in Label, NEW t \in Task \cup {NoTask},
         NEW g \in Group \cup {NoGroup}, NEW v \in {"launch", "front", "pop"},
         thread' = [thread EXCEPT ![h] = Frame(l, t, g, v)],
         l \in TaskLabels => t \in Task,
         l \in GroupLabels => g \in Group,
         h \in App => v = "launch"
  PROVE  /\ Lands(h, {l})
         /\ thread'[h].at = l /\ thread'[h].task = t /\ thread'[h].group = g
  <1>1. thread'[h] = Frame(l, t, g, v)
    BY DEF Types, ThreadsTyped
  <1>2. /\ thread'[h].at = l /\ thread'[h].task = t
        /\ thread'[h].group = g /\ thread'[h].via = v
    BY <1>1 DEF Frame
  <1>3. Control(thread'[h])
    BY <1>1, <1>2 DEF Control
  <1>4. Moves(h, {l})
    BY <1>1, <1>2 DEF Moves, Fields
  <1>5. QED
    BY <1>2, <1>3, <1>4 DEF Lands

LEMMA RestLands ==
  ASSUME Types, NEW h \in Thread, Rest(h)
  PROVE  Lands(h, {"idle"})
  <1>1. thread' = [thread EXCEPT ![h] = Frame("idle", NoTask, NoGroup, "launch")]
    BY DEF Rest, Idle
  <1>2. "idle" \in Label /\ "idle" \notin TaskLabels \cup GroupLabels
    BY DEF Label, TaskLabels, GroupLabels, Dispatching
  <1>3. QED
    BY <1>1, <1>2, FrameLands

LEMMA WorkLands ==
  ASSUME Types, NEW h \in Thread, NEW l \in Label, NEW t \in Task,
         NEW v \in {"launch", "front", "pop"}, Work(h, l, t, v),
         l \notin GroupLabels, h \in App => v = "launch"
  PROVE  Lands(h, {l}) /\ thread'[h].at = l /\ thread'[h].task = t
  <1>1. PICK g \in Group \cup {NoGroup} : g = thread[h].group
    BY DEF Types, ThreadsTyped, Control
  <1>2. thread' = [thread EXCEPT ![h] = Frame(l, t, g, v)]
    BY <1>1 DEF Work, Types, ThreadsTyped
  <1>3. QED
    BY <1>2, FrameLands

LEMMA EndTryLands ==
  ASSUME Types, NEW h \in Thread, NEW b \in BOOLEAN, EndTry(h, b),
         thread[h].task \in Task
  PROVE  Lands(h, Outside)
  <1>1. /\ "pop" \in Label /\ "pop" \notin TaskLabels \cup GroupLabels
        /\ "front" \in Label /\ "front" \notin GroupLabels
        /\ "discount" \in Label /\ "discount" \notin TaskLabels
    BY DEF Label, TaskLabels, GroupLabels, Dispatching
  <1>2. \A l \in Outside : Lands(h, {l}) => Lands(h, Outside)
    BY DEF Lands, Moves
  <1>3. CASE thread[h].via = "front" /\ ~b
    <2>1. h = Callback /\ EndProgress
      BY <1>3 DEF Types, ThreadsTyped, Thread, EndTry
    <2>2. thread[Callback].group # NoGroup => thread[Callback].group \in Group
      BY <2>1 DEF Types, ThreadsTyped, Control
    <2>3. QED
      BY <1>1, <1>2, <2>1, <2>2, GotoLands, RestLands DEF EndProgress, Outside
  <1>4. CASE ~(thread[h].via = "front" /\ ~b)
    <2>1. Goto(h, "pop") \/ Goto(h, "front") \/ Rest(h)
      BY <1>4 DEF EndTry
    <2>2. QED
      BY <1>1, <1>2, <2>1, GotoLands, RestLands DEF Outside
  <1>5. QED
    BY <1>3, <1>4

LEMMA ProgressLands ==
  ASSUME Types, EndProgress
  PROVE  Lands(Callback, Outside)
  <1>1. "discount" \in Label /\ "discount" \notin TaskLabels
    BY DEF Label, TaskLabels, GroupLabels, Dispatching
  <1>2. thread[Callback].group # NoGroup => thread[Callback].group \in Group
    BY ThreadAssumption DEF Types, ThreadsTyped, Control
  <1>3. \A l \in Outside : Lands(Callback, {l}) => Lands(Callback, Outside)
    BY DEF Lands, Moves
  <1>4. QED
    BY <1>1, <1>2, <1>3, ThreadAssumption, GotoLands, RestLands DEF EndProgress, Outside

-------------------------------------------------------------------------------
(***************************************************************************)
(* Every step keeps the types, and moves at most one thread.               *)
(***************************************************************************)
\* Thread h moves to a label of L, and keeps its task on a label of K.
Step(h, L, K) ==
  /\ ThreadsTyped'
  /\ \A i \in Thread : i # h => thread'[i] = thread[i]
  /\ thread'[h].at \in L
  /\ thread'[h].at \in K => thread'[h].task = thread[h].task

LEMMA LandsStep ==
  ASSUME Types, NEW h \in Thread, NEW L, NEW K, Lands(h, L),
         thread'[h].at \in K => thread'[h].task = thread[h].task
  PROVE  Step(h, L, K)
  <1>1. ThreadsTyped
    BY DEF Types
  <1>2. thread'[h].at \in L
    BY DEF Lands, Moves
  <1>3. ThreadsTyped' /\ \A i \in Thread : i # h => thread'[i] = thread[i]
    BY <1>1, LandsTyped
  <1>4. QED
    BY <1>2, <1>3 DEF Step

LEMMA SequenceTypes ==
  /\ \A q \in Seq(Task), t \in Task : Append(q, t) \in Seq(Task)
  /\ \A q \in Seq(Task) : q # <<>> => /\ Head(q) \in Task /\ Tail(q) \in Seq(Task)
                                      /\ q[Len(q)] \in Task
  /\ \A q \in Seq(Task), r \in Seq(Task) : q \o r \in Seq(Task)
  /\ \A q \in Seq(Task), n \in Nat :
       n < Len(q) => SubSeq(q, n + 1, Len(q)) \in Seq(Task)
  /\ \A q \in Seq(Task) : Len(q) \in Nat
  /\ <<>> \in Seq(Task)
  <1>1. \A q \in Seq(Task), t \in Task : Append(q, t) \in Seq(Task)
    OBVIOUS
  <1>2. \A q \in Seq(Task) : q # <<>> => Head(q) \in Task /\ Tail(q) \in Seq(Task)
    OBVIOUS
  <1>3. \A q \in Seq(Task) : q # <<>> => q[Len(q)] \in Task
    OBVIOUS
  <1>4. \A q \in Seq(Task), r \in Seq(Task) : q \o r \in Seq(Task)
    OBVIOUS
  <1>5. \A q \in Seq(Task), n \in Nat :
          n < Len(q) => SubSeq(q, n + 1, Len(q)) \in Seq(Task)
    OBVIOUS
  <1>6. (\A q \in Seq(Task) : Len(q) \in Nat) /\ <<>> \in Seq(Task)
    OBVIOUS
  <1>7. QED
    BY <1>1, <1>2, <1>3, <1>4, <1>5, <1>6

\* The task of a thread that launches, tries or dispatches one.
LEMMA TaskInHand ==
  ASSUME Types, NEW h \in Thread, thread[h].at \in TaskLabels
  PROVE  thread[h].task \in Task /\ GroupOf[thread[h].task] \in Group
  BY GroupTaskAssumption DEF Types, ThreadsTyped, Control

LEMMA GroupInHand ==
  ASSUME Types, NEW h \in Thread, thread[h].at \in GroupLabels
  PROVE  thread[h].group \in Group
  BY DEF Types, ThreadsTyped, Control

\* The list of an ordered group, popped at its front.
LEMMA PopTyped ==
  ASSUME Types, NEW g \in Group,
         PopFront(g) \/ UNCHANGED <<runningOrdered, underflowed>>
  PROVE  /\ runningOrdered' \in [Group -> Seq(Task)]
         /\ underflowed' \subseteq Group
  <1>1. runningOrdered \in [Group -> Seq(Task)] /\ underflowed \subseteq Group
    BY DEF Types, GroupsTyped
  <1>2. CASE UNCHANGED <<runningOrdered, underflowed>>
    BY <1>1, <1>2
  <1>3. CASE PopFront(g)
    <2>1. CASE runningOrdered[g] = <<>>
      BY <1>1, <1>3, <2>1 DEF PopFront
    <2>2. CASE runningOrdered[g] # <<>>
      <3>1. PICK q \in Seq(Task) : q = Tail(runningOrdered[g])
        BY <1>1, <2>2, SequenceTypes
      <3>2. runningOrdered' = [runningOrdered EXCEPT ![g] = q] /\ underflowed' = underflowed
        BY <1>3, <2>2, <3>1 DEF PopFront
      <3>3. QED
        BY <1>1, <3>2
    <2>3. QED
      BY <2>1, <2>2
  <1>4. QED
    BY <1>2, <1>3

\* What the loop of doProgress takes from the list is a task of the group.
LEMMA FrontsMade ==
  ASSUME Types, NEW g \in Group, NEW t \in Fronts(g), t # NoTask
  PROVE  t \in Task /\ (t \in Elements(runningOrdered[g]) \/ Made(t))
  <1>1. runningOrdered[g] \in Seq(Task)
    BY DEF Types, GroupsTyped
  <1>2. CASE g \in underflowed
    BY <1>2 DEF Fronts
  <1>3. CASE g \notin underflowed
    <2>1. runningOrdered[g] # <<>> /\ t = Head(runningOrdered[g])
      BY <1>3 DEF Fronts
    <2>2. t \in Task /\ t = runningOrdered[g][1] /\ 1 \in DOMAIN runningOrdered[g]
      BY <1>1, <2>1
    <2>3. QED
      BY <2>2 DEF Elements
  <1>4. QED
    BY <1>2, <1>3

LEMMA TypesConstruct ==
  ASSUME Types, NEW a \in App, NEW t \in Task, Construct(a, t)
  PROVE  Types' /\ Step(a, {"count"}, {}) /\ thread'[a].task = t
  <1>1. PICK g \in Group : g = GroupOf[t]
    BY GroupTaskAssumption
  <1>2. a \in Thread
    BY ThreadAssumption
  <1>3. Lands(a, {"count"}) /\ thread'[a].task = t
    <2>1. "count" \in Label /\ "count" \notin GroupLabels
      BY DEF Label, GroupLabels
    <2>2. Work(a, "count", t, "launch")
      BY DEF Construct
    <2>3. QED
      BY <1>2, <2>1, <2>2, WorkLands
  <1>4. Step(a, {"count"}, {})
    BY <1>2, <1>3, LandsStep
  <1>5. /\ UNCHANGED <<state, numPredecessors, segmentOf, freeSegments, packetsLeft,
                       published, groupSignal, callbackStarted, armed, runningGroupable,
                       underflowed, taskCount, groupSuccessors, groupTasks, toVisit,
                       tempList, budget, readyQueue, toWait>>
        /\ runningOrdered' = runningOrdered
           \/ runningOrdered' = [runningOrdered EXCEPT ![g] = Append(@, t)]
        /\ runningDefault' = runningDefault
           \/ runningDefault' = [runningDefault EXCEPT ![g] = Append(@, t)]
        /\ prevOrdered' = prevOrdered
           \/ prevOrdered' = [prevOrdered EXCEPT ![t] = lastTask[g]]
        /\ lastTask' = lastTask \/ lastTask' = [lastTask EXCEPT ![g] = t]
    BY <1>1 DEF Construct, deviceVars, signalVars, handlerVars
  <1>6. TasksTyped'
    BY <1>5 DEF Types, TasksTyped, GroupsTyped
  <1>7. GroupsTyped'
    <2>1. \A q \in [Group -> Seq(Task)] : [q EXCEPT ![g] = Append(@, t)] \in [Group -> Seq(Task)]
      BY SequenceTypes
    <2>2. runningOrdered' \in [Group -> Seq(Task)] /\ runningDefault' \in [Group -> Seq(Task)]
      BY <1>5, <2>1, ZenonT(60) DEF Types, GroupsTyped
    <2>3. lastTask' \in [Group -> Task \cup {NoTask}]
      BY <1>5 DEF Types, GroupsTyped
    <2>4. QED
      BY <1>5, <2>2, <2>3 DEF Types, GroupsTyped
  <1>8. ListsTyped'
    BY <1>5 DEF Types, ListsTyped
  <1>9. QED
    BY <1>3, <1>4, <1>6, <1>7, <1>8 DEF Types, Step

LEMMA TypesCount ==
  ASSUME Types, NEW a \in App, CountTask(a)
  PROVE  Types' /\ Step(a, {"try"}, {"try"})
  <1>1. a \in Thread
    BY ThreadAssumption
  <1>2. thread[a].at \in TaskLabels
    BY DEF CountTask, At, TaskLabels
  <1>3. Lands(a, {"try"}) /\ thread'[a].task = thread[a].task
    BY <1>1, <1>2, TaskInHand, GotoLands DEF CountTask, Label, GroupLabels
  <1>4. Step(a, {"try"}, {"try"})
    BY <1>1, <1>3, LandsStep
  <1>5. taskCount' \in [Group -> Int]
    <2>1. PICK g \in Group : taskCount' = [taskCount EXCEPT ![g] = @ + 1]
      BY <1>1, <1>2, TaskInHand DEF CountTask
    <2>2. QED
      BY <2>1 DEF Types, GroupsTyped
  <1>6. TasksTyped' /\ GroupsTyped' /\ ListsTyped'
    BY <1>5 DEF CountTask, taskVars, deviceVars, signalVars, listVars, handlerVars,
           Types, TasksTyped, GroupsTyped, ListsTyped
  <1>7. QED
    BY <1>4, <1>6 DEF Types, Step

LEMMA TypesKeep ==
  ASSUME Types, NEW h \in Thread, KeepForLater(h), TryLeavesUnchanged,
         numPredecessors' \in [Task -> Int],
         groupSuccessors' \in [Group -> Seq(Task)],
         readyQueue' \in Seq(Task)
  PROVE  Types' /\ Step(h, Outside, {})
  <1>1. thread[h].task \in Task
    BY TaskInHand DEF KeepForLater, At, TaskLabels
  <1>2. Lands(h, Outside)
    BY <1>1, EndTryLands DEF KeepForLater
  <1>3. Step(h, Outside, {})
    BY <1>2, LandsStep
  <1>4. PICK t \in Task : t = thread[h].task
    BY <1>1
  <1>5. /\ state' = [state EXCEPT ![t] = INITIALIZED]
        /\ UNCHANGED <<segmentOf, freeSegments, runningOrdered, underflowed, groupSignal,
                       packetsLeft>>
    BY <1>4 DEF KeepForLater
  <1>6. TasksTyped'
    BY <1>5 DEF TryLeavesUnchanged, Types, TasksTyped, UNINITIALIZED, INITIALIZED, COMPLETED
  <1>7. GroupsTyped' /\ ListsTyped'
    BY <1>5 DEF TryLeavesUnchanged, signalVars, handlerVars, Types, GroupsTyped, ListsTyped
  <1>8. QED
    BY <1>3, <1>6, <1>7 DEF Types, Step

\* A failed attempt.
LEMMA TypesTry ==
  ASSUME Types, NEW h \in Thread,
         \/ TryWaitsForGroup(h) \/ TryWaitsForPrevious(h) \/ TryLacksResources(h)
         \/ TryTaken(h)
  PROVE  Types' /\ Step(h, Outside, {})
  <1>1. thread[h].at = "try"
    BY DEF TryWaitsForGroup, TryWaitsForPrevious, TryLacksResources, TryTaken,
           KeepForLater, At
  <1>2. PICK t \in Task : t = thread[h].task
    BY <1>1, TaskInHand DEF TaskLabels
  <1>3. CASE TryTaken(h)
    <2>1. Lands(h, Outside)
      BY <1>2, <1>3, EndTryLands DEF TryTaken
    <2>2. Step(h, Outside, {})
      BY <2>1, LandsStep
    <2>3. TasksTyped' /\ GroupsTyped' /\ ListsTyped'
      BY <1>3 DEF TryTaken, TryLeavesUnchanged, signalVars, handlerVars, Types, TasksTyped,
                  GroupsTyped, ListsTyped
    <2>4. QED
      BY <2>2, <2>3 DEF Types, Step
  <1>4. CASE TryWaitsForGroup(h)
    <2>1. PICK W \in SUBSET Group :
            /\ groupSuccessors' = [g \in Group |->
                 IF g \in W THEN Append(groupSuccessors[g], t) ELSE groupSuccessors[g]]
            /\ numPredecessors' = [numPredecessors EXCEPT ![t] = @ + Cardinality(W)]
      <3>1. WaitsFor(t) \in SUBSET Group
        BY GroupTaskAssumption DEF WaitsFor
      <3>2. QED
        BY <1>2, <1>4, <3>1 DEF TryWaitsForGroup
    <2>2. Cardinality(W) \in Nat
      BY GroupTaskAssumption, FS_Subset, FS_CardinalityType
    <2>3. numPredecessors' \in [Task -> Int]
      BY <2>1, <2>2 DEF Types, TasksTyped
    <2>4. groupSuccessors' \in [Group -> Seq(Task)]
      BY <2>1, SequenceTypes DEF Types, GroupsTyped
    <2>5. readyQueue' \in Seq(Task)
      BY <1>4 DEF TryWaitsForGroup, Types, ListsTyped
    <2>6. KeepForLater(h) /\ TryLeavesUnchanged
      BY <1>4 DEF TryWaitsForGroup, KeepForLater
    <2>7. QED
      BY <2>3, <2>4, <2>5, <2>6, TypesKeep
  <1>5. CASE TryWaitsForPrevious(h)
    <2>1. numPredecessors' \in [Task -> Int]
      <3>1. \/ numPredecessors' = [numPredecessors EXCEPT ![t] = @ + 1]
            \/ numPredecessors' = numPredecessors
        BY <1>2, <1>5 DEF TryWaitsForPrevious
      <3>2. QED
        BY <3>1 DEF Types, TasksTyped
    <2>2. groupSuccessors' \in [Group -> Seq(Task)] /\ readyQueue' \in Seq(Task)
      BY <1>5 DEF TryWaitsForPrevious, Types, GroupsTyped, ListsTyped
    <2>3. KeepForLater(h) /\ TryLeavesUnchanged
      BY <1>5 DEF TryWaitsForPrevious, KeepForLater
    <2>4. QED
      BY <2>1, <2>2, <2>3, TypesKeep
  <1>6. CASE TryLacksResources(h)
    <2>1. readyQueue' \in Seq(Task)
      BY <1>2, <1>6, SequenceTypes DEF TryLacksResources, Types, ListsTyped
    <2>2. numPredecessors' \in [Task -> Int] /\ groupSuccessors' \in [Group -> Seq(Task)]
      BY <1>6 DEF TryLacksResources, Types, TasksTyped, GroupsTyped
    <2>3. KeepForLater(h) /\ TryLeavesUnchanged
      BY <1>6 DEF TryLacksResources, KeepForLater
    <2>4. QED
      BY <2>1, <2>2, <2>3, TypesKeep
  <1>7. QED
    BY <1>3, <1>4, <1>5, <1>6

LEMMA TypesAcquire ==
  ASSUME Types, NEW h \in Thread, TryAcquires(h)
  PROVE  Types' /\ Step(h, {"push"}, {"push"})
  <1>1. thread[h].at = "try"
    BY DEF TryAcquires, At
  <1>2. PICK t \in Task : t = thread[h].task
    BY <1>1, TaskInHand DEF TaskLabels
  <1>3. PICK g \in Group : g = GroupOf[t]
    BY GroupTaskAssumption
  <1>4. Lands(h, {"push"}) /\ thread'[h].task = thread[h].task
    BY <1>2, GotoLands DEF TryAcquires, Label, GroupLabels
  <1>5. Step(h, {"push"}, {"push"})
    BY <1>4, LandsStep
  <1>6. /\ \/ \E i \in freeSegments : /\ segmentOf' = [segmentOf EXCEPT ![t] = i]
                                      /\ freeSegments' = freeSegments \ {i}
           \/ UNCHANGED <<segmentOf, freeSegments>>
        /\ groupSignal' = [groupSignal EXCEPT ![g] = @ + Packets[t]]
        /\ packetsLeft' = [packetsLeft EXCEPT ![t] = Packets[t]]
        /\ PopFront(g) \/ UNCHANGED <<runningOrdered, underflowed>>
        /\ state' = [state EXCEPT ![t] = READY]
        /\ UNCHANGED <<numPredecessors, groupSuccessors, readyQueue, prevOrdered, published,
                       callbackStarted, armed, groupTasks, toVisit, tempList, budget,
                       taskCount, toWait, runningGroupable, runningDefault, lastTask>>
    BY <1>2, <1>3 DEF TryAcquires, RaiseSignal, TryLeavesUnchanged, signalVars, handlerVars
  <1>p. Packets[t] \in Nat
    BY GroupTaskAssumption
  <1>7. TasksTyped'
    <2>1. segmentOf' \in [Task -> Segment \cup {0}] /\ freeSegments' \subseteq Segment
      BY <1>6 DEF Types, TasksTyped
    <2>2. state' \in [Task -> UNINITIALIZED..COMPLETED]
      BY <1>6 DEF Types, TasksTyped, UNINITIALIZED, READY, COMPLETED
    <2>3. packetsLeft' \in [Task -> Nat]
      BY <1>6, <1>p DEF Types, TasksTyped
    <2>4. QED
      BY <1>6, <2>1, <2>2, <2>3 DEF Types, TasksTyped
  <1>8. GroupsTyped'
    <2>2. runningOrdered' \in [Group -> Seq(Task)] /\ underflowed' \subseteq Group
      BY <1>6, PopTyped
    <2>3. groupSignal' \in [Group -> Int]
      BY <1>6, <1>p DEF Types, GroupsTyped
    <2>4. QED
      BY <1>6, <2>2, <2>3 DEF Types, GroupsTyped
  <1>9. ListsTyped'
    BY <1>6 DEF Types, ListsTyped
  <1>10. QED
    BY <1>5, <1>7, <1>8, <1>9 DEF Types, Step

\* dispatch() and the registration of the handler.
LEMMA TypesDispatch ==
  ASSUME Types, NEW h \in Thread, Dispatch(h)
  PROVE  Types' /\ Step(h, (Dispatching \ {"push"}) \cup Outside, Dispatching)
  <1>1. thread[h].at \in Dispatching
    BY DEF Dispatch, JoinRunning, MarkDispatched, Publish, TestAndSet, RegisterHandler, At,
           Dispatching
  <1>2. PICK t \in Task, g \in Group : t = thread[h].task /\ g = GroupOf[t]
    BY <1>1, TaskInHand DEF TaskLabels
  <1>3. \/ \E l \in {"mark", "publish", "arm", "register"} : Goto(h, l)
        \/ EndTry(h, TRUE)
    BY DEF Dispatch, JoinRunning, MarkDispatched, Publish, TestAndSet, RegisterHandler
  <1>4. Step(h, (Dispatching \ {"push"}) \cup Outside, Dispatching)
    <2>1. ASSUME NEW l \in {"mark", "publish", "arm", "register"}, Goto(h, l)
          PROVE  Step(h, (Dispatching \ {"push"}) \cup Outside, Dispatching)
      <3>1. l \in Label /\ l \notin GroupLabels /\ l \in Dispatching \ {"push"}
        BY DEF Label, GroupLabels, Dispatching
      <3>2. Lands(h, {l}) /\ thread'[h].task = thread[h].task
        BY <1>2, <2>1, <3>1, GotoLands
      <3>3. Lands(h, (Dispatching \ {"push"}) \cup Outside)
        BY <3>1, <3>2 DEF Lands, Moves
      <3>4. QED
        BY <3>2, <3>3, LandsStep
    <2>2. CASE EndTry(h, TRUE)
      <3>1. Lands(h, Outside)
        BY <1>2, <2>2, EndTryLands
      <3>2. Lands(h, (Dispatching \ {"push"}) \cup Outside) /\ thread'[h].at \notin Dispatching
        BY <3>1 DEF Lands, Moves, Outside, Dispatching
      <3>3. QED
        BY <3>2, LandsStep
    <2>3. QED
      BY <1>3, <2>1, <2>2
  <1>5. /\ state' = state \/ state' = [state EXCEPT ![t] = DISPATCHED]
        /\ published' \subseteq published \cup {t}
        /\ runningGroupable' = runningGroupable
           \/ runningGroupable' = [runningGroupable EXCEPT ![g] = Append(@, t)]
        /\ callbackStarted' = callbackStarted
           \/ callbackStarted' = [callbackStarted EXCEPT ![g] = TRUE]
        /\ armed' = armed \/ armed' = [armed EXCEPT ![g] = TRUE]
        /\ UNCHANGED <<numPredecessors, prevOrdered, segmentOf, freeSegments, packetsLeft,
                       groupSignal, groupTasks, toVisit, tempList, budget, runningOrdered,
                       underflowed, runningDefault, lastTask, taskCount, groupSuccessors,
                       readyQueue, toWait>>
    <2>1. DispatchLeavesUnchanged
      BY DEF Dispatch, JoinRunning, MarkDispatched, Publish, TestAndSet, RegisterHandler
    <2>2. CASE JoinRunning(h)
      BY <1>2, <2>1, <2>2 DEF JoinRunning, DispatchLeavesUnchanged, signalVars, handlerVars
    <2>3. CASE MarkDispatched(h)
      BY <1>2, <2>1, <2>3 DEF MarkDispatched, DispatchLeavesUnchanged, signalVars, handlerVars
    <2>4. CASE Publish(h)
      BY <1>2, <2>1, <2>4 DEF Publish, DispatchLeavesUnchanged, signalVars, handlerVars
    <2>5. CASE TestAndSet(h)
      BY <1>2, <2>1, <2>5 DEF TestAndSet, DispatchLeavesUnchanged, signalVars, handlerVars
    <2>6. CASE RegisterHandler(h)
      BY <1>2, <2>1, <2>6 DEF RegisterHandler, DispatchLeavesUnchanged, signalVars, handlerVars
    <2>7. QED
      BY <2>2, <2>3, <2>4, <2>5, <2>6 DEF Dispatch
  <1>6. TasksTyped'
    <2>1. state' \in [Task -> UNINITIALIZED..COMPLETED]
      BY <1>5 DEF Types, TasksTyped, UNINITIALIZED, DISPATCHED, COMPLETED
    <2>2. QED
      BY <1>5, <2>1 DEF Types, TasksTyped
  <1>7. GroupsTyped'
    <2>1. runningGroupable' \in [Group -> Seq(Task)]
      <3>1. \A q \in [Group -> Seq(Task)] : [q EXCEPT ![g] = Append(@, t)] \in [Group -> Seq(Task)]
        BY SequenceTypes
      <3>2. runningGroupable \in [Group -> Seq(Task)]
        BY DEF Types, GroupsTyped
      <3>3. QED
        BY <1>5, <3>1, <3>2
    <2>2. callbackStarted' \in [Group -> BOOLEAN] /\ armed' \in [Group -> BOOLEAN]
      BY <1>5 DEF Types, GroupsTyped
    <2>3. QED
      BY <1>5, <2>1, <2>2 DEF Types, GroupsTyped
  <1>8. ListsTyped'
    BY <1>5 DEF Types, ListsTyped
  <1>9. QED
    BY <1>4, <1>6, <1>7, <1>8 DEF Types, Step

LEMMA TypesDevice ==
  ASSUME Types, NEW t \in Task, CompletePacket(t)
  PROVE  Types' /\ thread' = thread
  <1>1. PICK g \in Group : g = GroupOf[t]
    BY GroupTaskAssumption
  <1>2. /\ packetsLeft[t] > 0
        /\ packetsLeft' = [packetsLeft EXCEPT ![t] = @ - 1]
        /\ groupSignal' = [groupSignal EXCEPT ![g] = @ - 1]
        /\ UNCHANGED <<taskVars, published, signalVars, listVars, handlerVars, taskCount,
                       groupSuccessors, readyQueue, thread, toWait>>
    BY <1>1 DEF CompletePacket
  <1>3. packetsLeft' \in [Task -> Nat]
    BY <1>2 DEF Types, TasksTyped
  <1>4. groupSignal' \in [Group -> Int]
    BY <1>2 DEF Types, GroupsTyped
  <1>5. ThreadsTyped'
    BY <1>2 DEF Types, ThreadsTyped, Control
  <1>6. TasksTyped' /\ GroupsTyped' /\ ListsTyped'
    BY <1>2, <1>3, <1>4 DEF Types, TasksTyped, GroupsTyped, ListsTyped, taskVars, signalVars,
                             listVars, handlerVars
  <1>7. QED
    BY <1>2, <1>5, <1>6 DEF Types

\* The handler takes the lock and the running tasks.
LEMMA TypesTake ==
  ASSUME Types, (\E g \in Group : HandleGroupSignal(g)) \/ LockGroup \/ TakeRunning
  PROVE  Types' /\ Step(Callback, {"enter", "drain", "release"}, {})
  <1>0. /\ Callback \in Thread /\ Callback \notin App
        /\ \A L, M : Lands(Callback, L) /\ L \subseteq M => Lands(Callback, M)
    BY ThreadAssumption, GroupTaskAssumption DEF Lands, Moves
  <1>1. ASSUME NEW d \in Group, HandleGroupSignal(d)
        PROVE  Types' /\ Step(Callback, {"enter", "drain", "release"}, {})
    <2>1. "enter" \in Label /\ "enter" \notin TaskLabels
      BY DEF Label, TaskLabels, Dispatching
    <2>2. thread' = [thread EXCEPT ![Callback] = Frame("enter", NoTask, d, "launch")]
      BY <1>1 DEF HandleGroupSignal
    <2>3. Lands(Callback, {"enter"})
      BY <1>0, <2>1, <2>2, FrameLands
    <2>4. Step(Callback, {"enter", "drain", "release"}, {})
      BY <1>0, <2>3, LandsStep
    <2>5. armed' \in [Group -> BOOLEAN]
      BY <1>1 DEF HandleGroupSignal, Types, GroupsTyped
    <2>6. TasksTyped' /\ GroupsTyped' /\ ListsTyped'
      BY <1>1, <2>5 DEF HandleGroupSignal, Types, TasksTyped, GroupsTyped, ListsTyped,
                        taskVars, deviceVars, listVars, handlerVars
    <2>7. QED
      BY <2>4, <2>6 DEF Types, Step
  <1>2. CASE LockGroup
    <2>1. thread[Callback].group \in Group
      BY <1>0, <1>2, GroupInHand DEF LockGroup, At, GroupLabels
    <2>2. "drain" \in Label /\ "drain" \notin TaskLabels
      BY DEF Label, TaskLabels, Dispatching
    <2>3. Lands(Callback, {"drain"})
      BY <1>0, <1>2, <2>1, <2>2, GotoLands DEF LockGroup
    <2>4. Step(Callback, {"enter", "drain", "release"}, {})
      BY <1>0, <2>3, LandsStep
    <2>5. TasksTyped' /\ GroupsTyped' /\ ListsTyped'
      BY <1>2 DEF LockGroup, Types, TasksTyped, GroupsTyped, ListsTyped, taskVars, deviceVars,
                  signalVars, listVars, handlerVars
    <2>6. QED
      BY <2>4, <2>5 DEF Types, Step
  <1>3. CASE TakeRunning
    <2>1. PICK g \in Group : g = thread[Callback].group
      BY <1>0, <1>3, GroupInHand DEF TakeRunning, At, GroupLabels
    <2>2. "release" \in Label /\ "release" \notin TaskLabels
      BY DEF Label, TaskLabels, Dispatching
    <2>3. Lands(Callback, {"release"})
      BY <1>0, <1>3, <2>1, <2>2, GotoLands DEF TakeRunning
    <2>4. Step(Callback, {"enter", "drain", "release"}, {})
      BY <1>0, <2>3, LandsStep
    <2>5. PICK n \in Nat : n = Len(runningGroupable[g])
      BY SequenceTypes DEF Types, GroupsTyped
    <2>6. /\ groupTasks' = runningGroupable[g]
          /\ runningGroupable' = [runningGroupable EXCEPT ![g] = <<>>]
          /\ callbackStarted' = [callbackStarted EXCEPT ![g] = FALSE]
          /\ \/ runningOrdered' = runningOrdered
             \/ runningOrdered' = [runningOrdered EXCEPT ![g] =
                  IF n < Len(runningOrdered[g])
                  THEN SubSeq(runningOrdered[g], n + 1, Len(runningOrdered[g])) ELSE <<>>]
          /\ UNCHANGED <<taskVars, deviceVars, armed, underflowed, runningDefault,
                         lastTask, toVisit, tempList, budget, taskCount, groupSuccessors, readyQueue, toWait>>
      BY <1>3, <2>1, <2>5 DEF TakeRunning, ForgetRunning, ClearFlag
    <2>7. GroupsTyped'
      <3>1. runningOrdered' \in [Group -> Seq(Task)]
        <4>1. \A q \in Seq(Task) : \A r \in [Group -> Seq(Task)] :
                [r EXCEPT ![g] = q] \in [Group -> Seq(Task)]
          OBVIOUS
        <4>2. (IF n < Len(runningOrdered[g])
               THEN SubSeq(runningOrdered[g], n + 1, Len(runningOrdered[g])) ELSE <<>>)
              \in Seq(Task)
          BY SequenceTypes DEF Types, GroupsTyped
        <4>3. QED
          BY <2>6, <4>1, <4>2 DEF Types, GroupsTyped
      <3>2. /\ runningGroupable' \in [Group -> Seq(Task)]
            /\ callbackStarted' \in [Group -> BOOLEAN]
        BY <2>6, SequenceTypes DEF Types, GroupsTyped
      <3>3. QED
        BY <2>6, <3>1, <3>2 DEF Types, GroupsTyped, deviceVars
    <2>8. TasksTyped' /\ ListsTyped'
      BY <2>6 DEF Types, TasksTyped, GroupsTyped, ListsTyped, taskVars, deviceVars
    <2>9. QED
      BY <2>4, <2>7, <2>8 DEF Types, Step
  <1>4. QED
    BY <1>1, <1>2, <1>3

LEMMA TypesRelease ==
  ASSUME Types, ReleaseTasks,
         \A t \in Elements(groupTasks) : IsKernel(t) => segmentOf[t] \in Segment
  PROVE  Types' /\ Step(Callback, {"discount", "progress"}, {})
  <1>0. /\ Callback \in Thread /\ Callback \notin App
        /\ \A L, M : Lands(Callback, L) /\ L \subseteq M => Lands(Callback, M)
    BY ThreadAssumption, GroupTaskAssumption DEF Lands, Moves
  <1>1. thread[Callback].group \in Group
    BY <1>0, GroupInHand DEF ReleaseTasks, At, GroupLabels
  <1>2. PICK T \in SUBSET Task : T = Elements(groupTasks)
    <2>1. \A q \in Seq(Task) : Elements(q) \subseteq Task
      BY DEF Elements
    <2>2. QED
      BY <2>1 DEF Types, ListsTyped
  <1>3. Lands(Callback, {"discount", "progress"})
    <2>1. CASE T = {}
      <3>1. Goto(Callback, "discount")
        BY <1>2, <2>1 DEF ReleaseTasks
      <3>2. "discount" \in Label /\ "discount" \notin TaskLabels
        BY DEF Label, TaskLabels, Dispatching
      <3>3. Lands(Callback, {"discount"})
        BY <1>0, <1>1, <3>1, <3>2, GotoLands
      <3>4. QED
        BY <1>0, <3>3
    <2>2. CASE T # {}
      <3>1. Work(Callback, "progress", groupTasks[Len(groupTasks)], "launch")
        BY <1>2, <2>2 DEF ReleaseTasks
      <3>2. groupTasks[Len(groupTasks)] \in Task
        BY <1>2, <2>2, SequenceTypes DEF Types, ListsTyped, Elements
      <3>3. "progress" \in Label /\ "progress" \notin GroupLabels
        BY DEF Label, GroupLabels
      <3>4. Lands(Callback, {"progress"})
        BY <1>0, <3>1, <3>2, <3>3, WorkLands
      <3>5. QED
        BY <1>0, <3>4
    <2>3. QED
      BY <2>1, <2>2
  <1>4. Step(Callback, {"discount", "progress"}, {})
    BY <1>0, <1>3, LandsStep
  <1>5. /\ freeSegments' = freeSegments \cup {segmentOf[t] : t \in {u \in T : IsKernel(u)}}
        /\ state' = [t \in Task |-> IF t \in T THEN COMPLETED ELSE state[t]]
        /\ UNCHANGED <<numPredecessors, prevOrdered, segmentOf, deviceVars, signalVars,
                       listVars, handlerVars, taskCount, groupSuccessors, readyQueue, toWait>>
    BY <1>2 DEF ReleaseTasks
  <1>6. state' \in [Task -> UNINITIALIZED..COMPLETED]
    BY <1>5 DEF Types, TasksTyped, UNINITIALIZED, COMPLETED
  <1>7. freeSegments' \subseteq Segment
    BY <1>2, <1>5 DEF Types, TasksTyped
  <1>8. TasksTyped' /\ GroupsTyped' /\ ListsTyped'
    BY <1>5, <1>6, <1>7 DEF Types, TasksTyped, GroupsTyped, ListsTyped, deviceVars,
                             signalVars, listVars, handlerVars
  <1>9. QED
    BY <1>4, <1>8 DEF Types, Step

\* doProgress, the count of the tasks, and the successors of the group.
LEMMA TypesProgress ==
  ASSUME Types, DoProgress \/ TakeFront \/ PopReady
  PROVE  /\ Types' /\ Step(Callback, Outside \cup {"try"}, {"front"})
         /\ UNCHANGED <<taskVars, deviceVars, signalVars, listVars, groupTasks, taskCount,
                        groupSuccessors, toWait>>
  <1>0. /\ Callback \in Thread /\ Callback \notin App
        /\ \A L, M : Lands(Callback, L) /\ L \subseteq M => Lands(Callback, M)
    BY ThreadAssumption, GroupTaskAssumption DEF Lands, Moves
  <1>1. ProgressLeavesUnchanged
    BY DEF DoProgress, TakeFront, PopReady
  <1>2. TasksTyped' /\ GroupsTyped'
    BY <1>1 DEF ProgressLeavesUnchanged, Types, TasksTyped, GroupsTyped, taskVars, deviceVars,
                signalVars, listVars
  <1>3. ASSUME Lands(Callback, Outside \cup {"try"}),
               thread'[Callback].at = "front" => thread'[Callback].task = thread[Callback].task,
               readyQueue' \in Seq(Task), budget' \in Nat
        PROVE  /\ Types' /\ Step(Callback, Outside \cup {"try"}, {"front"})
               /\ UNCHANGED <<taskVars, deviceVars, signalVars, listVars, groupTasks, taskCount,
                              groupSuccessors, toWait>>
    <2>1. Step(Callback, Outside \cup {"try"}, {"front"})
      BY <1>0, <1>3, LandsStep
    <2>2. ListsTyped'
      BY <1>1, <1>3 DEF ProgressLeavesUnchanged, Types, ListsTyped
    <2>3. QED
      BY <1>1, <1>2, <2>1, <2>2 DEF Types, Step, ProgressLeavesUnchanged
  <1>4. "try" \in Label /\ "try" \notin GroupLabels
    BY DEF Label, GroupLabels
  <1>e. ASSUME EndProgress
        PROVE  Lands(Callback, Outside \cup {"try"}) /\ thread'[Callback].at # "front"
    <2>1. Lands(Callback, Outside \cup {"try"})
      BY <1>0, <1>e, ProgressLands
    <2>2. Goto(Callback, "discount") \/ Rest(Callback)
      BY <1>e DEF EndProgress
    <2>3. thread'[Callback].at # "front"
      BY <1>0, <2>2, GotoMoves, RestMoves, TypesGiveShape DEF Moves
    <2>4. QED
      BY <2>1, <2>3
  <1>5. CASE DoProgress
    <2>1. thread[Callback].task \in Task
      BY <1>0, <1>5, TaskInHand DEF DoProgress, At, TaskLabels
    <2>2. Goto(Callback, "front") \/ Goto(Callback, "pop")
      BY <1>5 DEF DoProgress
    <2>3. /\ "front" \in Label /\ "front" \notin GroupLabels
          /\ "pop" \in Label /\ "pop" \notin TaskLabels \cup GroupLabels
      BY DEF Label, TaskLabels, GroupLabels, Dispatching
    <2>4. /\ Lands(Callback, {"front"}) \/ Lands(Callback, {"pop"})
          /\ thread'[Callback].task = thread[Callback].task
      BY <1>0, <2>1, <2>2, <2>3, GotoLands
    <2>5. Lands(Callback, Outside \cup {"try"})
      BY <1>0, <2>4 DEF Outside
    <2>6. readyQueue' \in Seq(Task) /\ budget' \in Nat
      BY <1>5, SequenceTypes DEF DoProgress, Types, ListsTyped
    <2>7. QED
      BY <1>3, <2>4, <2>5, <2>6
  <1>6. CASE TakeFront
    <2>1. PICK g \in Group : g = GroupOf[thread[Callback].task]
      BY <1>0, <1>6, TaskInHand DEF TakeFront, At, TaskLabels
    <2>2. readyQueue' \in Seq(Task) /\ budget' \in Nat
      BY <1>6 DEF TakeFront, Types, ListsTyped
    <2>4. EndProgress \/ \E t \in Task : Work(Callback, "try", t, "front")
      BY <1>6, <2>1, FrontsMade DEF TakeFront
    <2>5. /\ Lands(Callback, Outside \cup {"try"})
          /\ thread'[Callback].at # "front"
      <3>1. ASSUME NEW t \in Task, Work(Callback, "try", t, "front")
            PROVE  Lands(Callback, {"try"}) /\ thread'[Callback].at = "try"
        BY <1>0, <1>4, <3>1, WorkLands
      <3>2. QED
        BY <1>0, <1>e, <2>4, <3>1
    <2>6. QED
      BY <1>3, <2>2, <2>5
  <1>7. CASE PopReady
    <2>1. PICK q \in Seq(Task) : q = readyQueue
      BY DEF Types, ListsTyped
    <2>2. CASE budget > 0 /\ readyQueue # <<>>
      <3>1. /\ Work(Callback, "try", Head(q), "pop")
            /\ readyQueue' = Tail(q)
            /\ budget' = budget - 1
        BY <1>7, <2>1, <2>2 DEF PopReady
      <3>2. Lands(Callback, {"try"}) /\ thread'[Callback].at = "try"
        BY <1>0, <1>4, <2>1, <2>2, <3>1, SequenceTypes, WorkLands
      <3>3. readyQueue' \in Seq(Task)
        BY <2>1, <2>2, <3>1, SequenceTypes
      <3>4. budget' \in Nat
        BY <2>2, <3>1 DEF Types, ListsTyped
      <3>5. QED
        BY <1>0, <1>3, <3>2, <3>3, <3>4
    <2>3. CASE ~(budget > 0 /\ readyQueue # <<>>)
      <3>1. EndProgress /\ budget' = 0 /\ readyQueue' = readyQueue
        BY <1>7, <2>3 DEF PopReady
      <3>2. readyQueue' \in Seq(Task) /\ budget' \in Nat
        BY <3>1 DEF Types, ListsTyped
      <3>3. QED
        BY <1>3, <1>e, <3>1, <3>2
    <2>4. QED
      BY <2>2, <2>3
  <1>8. QED
    BY <1>5, <1>6, <1>7

LEMMA TypesFinish ==
  ASSUME Types,
         DiscountTasks \/ LoadCount \/ ClearSuccessors \/ BeginVisits \/ VisitSuccessor
         \/ PushReady
  PROVE  /\ Types' /\ Step(Callback, {"idle", "load", "clear", "visit", "unlink", "progress"}, {})
         /\ UNCHANGED <<state, segmentOf, freeSegments, packetsLeft, published, groupSignal,
                        listVars, toWait>>
  <1>0. /\ Callback \in Thread /\ Callback \notin App
        /\ \A L, M : Lands(Callback, L) /\ L \subseteq M => Lands(Callback, M)
    BY ThreadAssumption, GroupTaskAssumption DEF Lands, Moves
  <1>1. thread[Callback].at \in {"discount", "load", "clear", "visit", "unlink"}
    BY DEF DiscountTasks, LoadCount, ClearSuccessors, BeginVisits, VisitSuccessor, PushReady, At
  <1>2. PICK g \in Group : g = thread[Callback].group
    BY <1>0, <1>1, GroupInHand DEF GroupLabels
  <1>3. UNCHANGED <<state, prevOrdered, segmentOf, freeSegments, packetsLeft, published,
                    groupSignal, signalVars, listVars, budget, toWait>>
    BY DEF DiscountTasks, LoadCount, ClearSuccessors, BeginVisits, VisitSuccessor, PushReady,
           taskVars, deviceVars, handlerVars
  <1>4. \/ thread' = thread
        \/ \E l \in {"load", "clear", "visit", "unlink"} : Goto(Callback, l)
        \/ Rest(Callback)
        \/ \E t \in Task : thread' = [thread EXCEPT ![Callback] =
                                        Frame("progress", t, NoGroup, "launch")]
    <2>1. CASE PushReady /\ tempList # <<>>
      BY <2>1, SequenceTypes DEF PushReady, Types, ListsTyped
    <2>2. CASE ~(PushReady /\ tempList # <<>>)
      BY <2>2 DEF DiscountTasks, LoadCount, ClearSuccessors, BeginVisits, VisitSuccessor,
                  PushReady
    <2>3. QED
      BY <2>1, <2>2
  <1>5. Step(Callback, {"idle", "load", "clear", "visit", "unlink", "progress"}, {})
    <2>1. CASE thread' = thread
      <3>1. VisitSuccessor \/ thread[Callback].at \in {"load", "clear", "visit", "unlink"}
        <4>1. ASSUME DiscountTasks PROVE thread'[Callback].at = "load"
          <5>1. Goto(Callback, "load") /\ "load" \in Label
            BY <4>1 DEF DiscountTasks, Label
          <5>2. QED
            BY <1>0, <5>1, GotoMoves, TypesGiveShape DEF Moves
        <4>2. QED
          BY <1>1, <2>1, <4>1 DEF VisitSuccessor, LoadCount, ClearSuccessors, BeginVisits,
                                  PushReady, At
      <3>2. thread[Callback].at \in {"load", "clear", "visit", "unlink"}
        BY <3>1 DEF VisitSuccessor, At
      <3>3. ThreadsTyped'
        BY <2>1 DEF Types, ThreadsTyped, Control
      <3>4. QED
        BY <2>1, <3>2, <3>3 DEF Step
    <2>2. ASSUME NEW l \in {"load", "clear", "visit", "unlink"}, Goto(Callback, l)
          PROVE  Lands(Callback, {l})
      <3>1. l \in Label /\ l \notin TaskLabels
        BY DEF Label, TaskLabels, Dispatching
      <3>2. QED
        BY <1>0, <1>2, <2>2, <3>1, GotoLands
    <2>3. ASSUME NEW t \in Task,
                 thread' = [thread EXCEPT ![Callback] = Frame("progress", t, NoGroup, "launch")]
          PROVE  Lands(Callback, {"progress"})
      <3>1. "progress" \in Label /\ "progress" \notin GroupLabels
        BY DEF Label, GroupLabels
      <3>2. QED
        BY <1>0, <2>3, <3>1, FrameLands
    <2>4. thread' # thread =>
            Lands(Callback, {"idle", "load", "clear", "visit", "unlink", "progress"})
      BY <1>0, <1>4, <2>2, <2>3, RestLands
    <2>5. QED
      BY <1>0, <2>1, <2>4, LandsStep
  <1>6. TasksTyped'
    <2>1. numPredecessors' \in [Task -> Int]
      <3>1. \/ numPredecessors' = numPredecessors
            \/ \E u : numPredecessors' = [numPredecessors EXCEPT ![u] = @ - 1] /\ u \in Task
        BY SequenceTypes DEF DiscountTasks, LoadCount, ClearSuccessors, BeginVisits,
                             VisitSuccessor, PushReady, taskVars, Types, ListsTyped
      <3>2. QED
        BY <3>1 DEF Types, TasksTyped
    <2>2. QED
      BY <1>3, <2>1 DEF Types, TasksTyped
  <1>7. GroupsTyped'
    <2>1. /\ taskCount' = taskCount
             \/ taskCount' = [taskCount EXCEPT ![g] = @ - Len(groupTasks)]
          /\ groupSuccessors' = groupSuccessors
             \/ groupSuccessors' = [groupSuccessors EXCEPT ![g] = <<>>]
      BY <1>2 DEF DiscountTasks, Discount, LoadCount, ClearSuccessors, BeginVisits,
                  VisitSuccessor, PushReady
    <2>2. taskCount' \in [Group -> Int]
      <3>1. PICK n \in Nat : n = Len(groupTasks)
        BY SequenceTypes DEF Types, ListsTyped
      <3>2. taskCount' = taskCount \/ taskCount' = [taskCount EXCEPT ![g] = @ - n]
        BY <2>1, <3>1
      <3>3. QED
        BY <3>2 DEF Types, GroupsTyped
    <2>3. groupSuccessors' \in [Group -> Seq(Task)]
      BY <2>1, SequenceTypes DEF Types, GroupsTyped
    <2>4. QED
      BY <1>3, <2>2, <2>3 DEF Types, GroupsTyped, signalVars, listVars
  <1>8. ListsTyped'
    <2>1. groupTasks' = groupTasks \/ groupTasks' = <<>>
      BY DEF DiscountTasks, LoadCount, ClearSuccessors, BeginVisits, VisitSuccessor,
             PushReady, handlerVars
    <2>2. \/ toVisit' = toVisit
          \/ toVisit' = groupSuccessors[g]
          \/ toVisit # <<>> /\ toVisit' = Tail(toVisit)
      BY <1>2 DEF DiscountTasks, LoadCount, ClearSuccessors, BeginVisits, VisitSuccessor,
                  PushReady, handlerVars
    <2>3. \/ tempList' = tempList
          \/ tempList' = <<>>
          \/ toVisit # <<>> /\ tempList' = Append(tempList, Head(toVisit))
      BY DEF DiscountTasks, LoadCount, ClearSuccessors, BeginVisits, VisitSuccessor,
             PushReady, handlerVars
    <2>4. readyQueue' = readyQueue \/ readyQueue' = readyQueue \o tempList
      BY DEF DiscountTasks, LoadCount, ClearSuccessors, BeginVisits, VisitSuccessor,
             PushReady
    <2>a. groupTasks \in Seq(Task) /\ toVisit \in Seq(Task) /\ groupSuccessors[g] \in Seq(Task)
      BY DEF Types, GroupsTyped, ListsTyped
    <2>5. groupTasks' \in Seq(Task) /\ toVisit' \in Seq(Task)
      BY <2>a, <2>1, <2>2, SequenceTypes
    <2>6. tempList' \in Seq(Task) /\ readyQueue' \in Seq(Task)
      BY <2>3, <2>4, SequenceTypes, ZenonT(60) DEF Types, ListsTyped
    <2>7. QED
      BY <1>3, <2>5, <2>6 DEF Types, ListsTyped
  <1>9. QED
    BY <1>3, <1>5, <1>6, <1>7, <1>8 DEF Types, Step

\* A thread in sync() is the one that may call it, and found a last task.
Callers ==
  \A a \in App : thread[a].at \in {"sync", "waiting", "clearing"} =>
    /\ Syncer[thread[a].group] = a
    /\ thread[a].at = "sync" /\ thread[a].group \in OrderedGroup =>
         lastTask[thread[a].group] # NoTask

LEMMA TypesSync ==
  ASSUME Types, Callers, NEW a \in App, Sync(a) \/ (\E g \in Group : CallSync(a, g))
  PROVE  /\ Types' /\ Step(a, {"idle", "sync", "waiting", "clearing"}, {})
         /\ UNCHANGED <<taskVars, deviceVars, signalVars, handlerVars, taskCount,
                        groupSuccessors, readyQueue>>
         /\ \/ runningGroupable' = runningGroupable
            \/ \E g \in Group : runningGroupable' = [runningGroupable EXCEPT ![g] = <<>>]
  <1>0. /\ a \in Thread
        /\ \A L, M : Lands(a, L) /\ L \subseteq M => Lands(a, M)
    BY ThreadAssumption DEF Lands, Moves
  <1>1. SyncLeavesUnchanged
    BY DEF Sync, CallSync, SyncCounted, SyncWaited, SyncForgetsLast, SyncClears
  <1>2. ASSUME Step(a, {"idle", "sync", "waiting", "clearing"}, {}),
               GroupsTyped', toWait' \in [App -> Seq(Task)]
        PROVE  Types'
    BY <1>1, <1>2 DEF SyncLeavesUnchanged, Types, Step, TasksTyped, ListsTyped, taskVars,
                      deviceVars, handlerVars
  <1>3. ASSUME NEW d \in Group, CallSync(a, d)
        PROVE  Types' /\ Step(a, {"idle", "sync", "waiting", "clearing"}, {})
               /\ runningGroupable' = runningGroupable
    <2>1. "sync" \in Label /\ "sync" \notin TaskLabels
      BY DEF Label, TaskLabels, Dispatching
    <2>2. thread' = [thread EXCEPT ![a] = Frame("sync", NoTask, d, "launch")]
      BY <1>3 DEF CallSync
    <2>3. Lands(a, {"sync"})
      BY <1>0, <2>1, <2>2, FrameLands
    <2>4. Step(a, {"idle", "sync", "waiting", "clearing"}, {})
      BY <1>0, <2>3, LandsStep
    <2>5. UNCHANGED <<listVars, toWait>>
      BY <1>3 DEF CallSync
    <2>6. GroupsTyped' /\ toWait' \in [App -> Seq(Task)]
      BY <1>1, <2>5 DEF SyncLeavesUnchanged, Types, GroupsTyped, ListsTyped, deviceVars,
                        signalVars, listVars
    <2>7. QED
      BY <1>2, <2>4, <2>5, <2>6 DEF listVars
  <1>4. CASE Sync(a)
    <2>1. thread[a].at \in {"sync", "waiting", "clearing"}
      BY <1>4 DEF Sync, SyncCounted, SyncWaited, SyncForgetsLast, SyncClears, WaitedForAll, At
    <2>2. PICK g \in Group : g = thread[a].group
      BY <1>0, <2>1, GroupInHand DEF GroupLabels
    <2>3. /\ "waiting" \in Label /\ "waiting" \notin TaskLabels
          /\ "clearing" \in Label /\ "clearing" \notin TaskLabels
      BY DEF Label, TaskLabels, Dispatching
    <2>4. Step(a, {"idle", "sync", "waiting", "clearing"}, {})
      <3>1. CASE SyncWaited(a)
        <4>1. thread' = thread
          BY <3>1 DEF SyncWaited
        <4>2. ThreadsTyped'
          BY <4>1 DEF Types, ThreadsTyped, Control
        <4>3. QED
          BY <2>1, <4>1, <4>2 DEF Step
      <3>2. CASE ~SyncWaited(a)
        <4>1. Goto(a, "waiting") \/ Goto(a, "clearing") \/ Rest(a)
          BY <1>4, <3>2 DEF Sync, SyncCounted, SyncForgetsLast, SyncClears
        <4>2. Lands(a, {"waiting"}) \/ Lands(a, {"clearing"}) \/ Lands(a, {"idle"})
          BY <1>0, <2>2, <2>3, <4>1, GotoLands, RestLands
        <4>3. Lands(a, {"idle", "sync", "waiting", "clearing"})
          BY <1>0, <4>2
        <4>4. QED
          BY <1>0, <4>3, LandsStep
      <3>3. QED
        BY <3>1, <3>2
    <2>5. /\ runningGroupable' = runningGroupable
             \/ runningGroupable' = [runningGroupable EXCEPT ![g] = <<>>]
          /\ runningOrdered' = runningOrdered
             \/ runningOrdered' = [runningOrdered EXCEPT ![g] = <<>>]
          /\ runningDefault' = runningDefault
             \/ runningDefault' = [runningDefault EXCEPT ![g] = <<>>]
          /\ lastTask' = lastTask \/ lastTask' = [lastTask EXCEPT ![g] = NoTask]
          /\ UNCHANGED underflowed
      BY <1>4, <2>2 DEF Sync, SyncCounted, SyncWaited, SyncForgetsLast, SyncClears, listVars
    <2>6. GroupsTyped'
      <3>1. \A q \in [Group -> Seq(Task)] : [q EXCEPT ![g] = <<>>] \in [Group -> Seq(Task)]
        BY SequenceTypes
      <3>2. /\ runningGroupable' \in [Group -> Seq(Task)]
            /\ runningOrdered' \in [Group -> Seq(Task)]
            /\ runningDefault' \in [Group -> Seq(Task)]
        <4>1. /\ runningGroupable \in [Group -> Seq(Task)]
              /\ runningOrdered \in [Group -> Seq(Task)]
              /\ runningDefault \in [Group -> Seq(Task)]
          BY DEF Types, GroupsTyped
        <4>2. QED
          BY <2>5, <3>1, <4>1, ZenonT(60)
      <3>3. lastTask' \in [Group -> Task \cup {NoTask}]
        BY <2>5 DEF Types, GroupsTyped
      <3>4. QED
        BY <1>1, <2>5, <3>2, <3>3 DEF SyncLeavesUnchanged, Types, GroupsTyped, deviceVars, signalVars
    <2>7. toWait' \in [App -> Seq(Task)]
      <3>1. CASE SyncCounted(a)
        <4>1. PICK q : /\ toWait' = [toWait EXCEPT ![a] = q]
                       /\ q = IF g \in OrderedGroup THEN <<lastTask[g]>> ELSE runningDefault[g]
          BY <2>2, <3>1 DEF SyncCounted
        <4>2. g \in OrderedGroup => lastTask[g] \in Task
          BY <2>2, <3>1, ThreadAssumption DEF SyncCounted, At, Callers, Types, GroupsTyped
        <4>3. q \in Seq(Task)
          BY <4>1, <4>2 DEF Types, GroupsTyped
        <4>4. QED
          BY <4>1, <4>3 DEF Types, ListsTyped
      <3>2. CASE SyncWaited(a)
        <4>1. PICK q \in Seq(Task) : q = toWait[a]
          BY DEF Types, ListsTyped
        <4>2. q # <<>> /\ toWait' = [toWait EXCEPT ![a] = Tail(q)]
          BY <3>2, <4>1 DEF SyncWaited
        <4>3. Tail(q) \in Seq(Task)
          BY <4>2, SequenceTypes
        <4>4. QED
          BY <4>2, <4>3 DEF Types, ListsTyped
      <3>3. CASE SyncForgetsLast(a) \/ SyncClears(a)
        BY <3>3 DEF SyncForgetsLast, SyncClears, Types, ListsTyped
      <3>4. QED
        BY <1>4, <3>1, <3>2, <3>3 DEF Sync
    <2>8. QED
      BY <1>1, <1>2, <2>4, <2>5, <2>6, <2>7 DEF SyncLeavesUnchanged
  <1>5. QED
    BY <1>1, <1>3, <1>4 DEF SyncLeavesUnchanged

-------------------------------------------------------------------------------
(***************************************************************************)
(* Who may touch a task.  One thread dispatches it, from the attempt that  *)
(* made it READY; it has not joined the running tasks while that thread is *)
(* still to push it; and it is running, for its group or for the handler   *)
(* but not for both, only until the handler completes it.                  *)
(***************************************************************************)
DispatchersApart ==
  \A h \in Thread : thread[h].at \in Dispatching =>
    /\ state[thread[h].task] >= READY
    /\ \A i \in Thread :
         thread[i].at \in Dispatching /\ thread[i].task = thread[h].task => i = h

PushedLater ==
  \A h \in Thread : thread[h].at = "push" =>
    state[thread[h].task] = READY /\ ~Running(thread[h].task)

ListsOwn ==
  \A g \in Group : \A t \in Elements(runningGroupable[g]) : GroupOf[t] = g

TakenApart ==
  At(Callback, "release") =>
    \A t \in Elements(groupTasks) : t \notin Elements(runningGroupable[GroupOf[t]])

RunningUnfinished == \A t \in Task : Running(t) => state[t] \in {READY, DISPATCHED}

OwnersInv ==
  /\ Types
  /\ Callers
  /\ DispatchersApart
  /\ PushedLater
  /\ ListsOwn
  /\ TakenApart
  /\ RunningUnfinished
  /\ SegmentsExclusive

LEMMA ElementsOf ==
  /\ \A q \in Seq(Task) : Elements(q) \subseteq Task
  /\ \A q \in Seq(Task), t \in Task : Elements(Append(q, t)) = Elements(q) \cup {t}
  /\ Elements(<<>>) = {}
  /\ \A q \in Seq(Task) : q # <<>> => q[Len(q)] \in Elements(q)
  <1>1. \A q \in Seq(Task) : Elements(q) \subseteq Task
    BY DEF Elements
  <1>2. \A q \in Seq(Task), t \in Task : Elements(Append(q, t)) = Elements(q) \cup {t}
    <2> SUFFICES ASSUME NEW q \in Seq(Task), NEW t \in Task
                 PROVE  Elements(Append(q, t)) = Elements(q) \cup {t}
      OBVIOUS
    <2>1. /\ Len(Append(q, t)) = Len(q) + 1
          /\ \A i \in 1..Len(q) : Append(q, t)[i] = q[i]
          /\ Append(q, t)[Len(q) + 1] = t
          /\ Len(q) \in Nat
      OBVIOUS
    <2>2. DOMAIN Append(q, t) = DOMAIN q \cup {Len(q) + 1} /\ DOMAIN q = 1..Len(q)
      BY <2>1
    <2>3. QED
      BY <2>1, <2>2 DEF Elements
  <1>3. Elements(<<>>) = {}
    BY DEF Elements
  <1>4. \A q \in Seq(Task) : q # <<>> => q[Len(q)] \in Elements(q)
    BY DEF Elements
  <1>5. QED
    BY <1>1, <1>2, <1>3, <1>4

LEMMA ReadyStates ==
  /\ UNINITIALIZED = -1 /\ INITIALIZED = 0 /\ READY = 1 /\ DISPATCHED = 2
  /\ EXECUTED = 3 /\ COMPLETED = 4
  BY DEF UNINITIALIZED, INITIALIZED, READY, DISPATCHED, EXECUTED, COMPLETED

\* A step that takes no segment, puts no task among the running ones and
\* starts no dispatch.
Away ==
  /\ UNCHANGED <<segmentOf, freeSegments>>
  /\ \A t \in Task : state'[t] = state[t] \/ (state[t] < READY /\ state'[t] < READY)
  /\ \A g \in Group : Elements(runningGroupable'[g]) \subseteq Elements(runningGroupable[g])
  /\ \A h \in Thread : thread'[h].at \in Dispatching =>
       /\ thread[h].at \in Dispatching
       /\ thread'[h].task = thread[h].task
       /\ thread'[h].at = "push" => thread[h].at = "push"
  /\ thread'[Callback].at = "release" =>
       thread[Callback].at = "release" /\ groupTasks' = groupTasks

LEMMA PushedInHand ==
  ASSUME Types',
         \A h \in Thread, t \in Task :
           thread'[h].at = "push" /\ t = thread'[h].task => state'[t] = READY /\ ~Running(t)'
  PROVE  PushedLater'
  <1>1. \A h \in Thread : thread'[h].at = "push" => thread'[h].task \in Task
    BY DEF Types, ThreadsTyped, Control, TaskLabels, Dispatching
  <1>2. QED
    BY <1>1 DEF PushedLater, Running, At

LEMMA AwayKeeps ==
  ASSUME OwnersInv, Types', Callers', Away
  PROVE  OwnersInv'
  <1>0. Types /\ Callback \in Thread
    BY ThreadAssumption DEF OwnersInv
  <1>1. \A t \in Task : Running(t)' => Running(t)
    BY GroupTaskAssumption DEF Away, Running, At
  <1>2. \A t \in Task : state[t] \in Int /\ state'[t] \in Int
    BY ReadyStates DEF OwnersInv, Types, TasksTyped
  <1>3. DispatchersApart'
    <2>1. \A h \in Thread : thread'[h].at \in Dispatching => thread[h].task \in Task
      BY <1>0, TaskInHand DEF Away, TaskLabels
    <2>2. \A t \in Task : state[t] >= READY => state'[t] >= READY
      BY <1>2, ReadyStates DEF Away
    <2>3. \A h \in Thread : thread'[h].at \in Dispatching =>
            thread[h].at \in Dispatching /\ thread'[h].task = thread[h].task
      BY DEF Away
    <2>4. QED
      BY <2>1, <2>2, <2>3 DEF OwnersInv, DispatchersApart
  <1>4. PushedLater'
    <2>1. ASSUME NEW h \in Thread, thread'[h].at = "push", NEW t \in Task, t = thread'[h].task
          PROVE  state'[t] = READY /\ ~Running(t)'
      <3>1. thread[h].at = "push" /\ t = thread[h].task
        BY <2>1 DEF Away, Dispatching
      <3>2. state[t] = READY /\ ~Running(t)
        BY <3>1 DEF OwnersInv, PushedLater
      <3>3. state'[t] = READY
        BY <1>2, <3>2, ReadyStates DEF Away
      <3>4. QED
        BY <1>1, <3>2, <3>3
    <2>2. QED
      BY <2>1, PushedInHand
  <1>5. ListsOwn' /\ TakenApart'
    <2>1. ListsOwn'
      BY DEF OwnersInv, ListsOwn, Away
    <2>2. \A t \in Elements(groupTasks) : GroupOf[t] \in Group
      BY ElementsOf, GroupTaskAssumption DEF OwnersInv, Types, ListsTyped
    <2>3. TakenApart'
      BY <2>2 DEF OwnersInv, TakenApart, Away, At
    <2>4. QED
      BY <2>1, <2>3
  <1>6. RunningUnfinished'
    <2> SUFFICES ASSUME NEW t \in Task, Running(t)'
                 PROVE  state'[t] \in {READY, DISPATCHED}
      BY DEF RunningUnfinished
    <2>1. state[t] \in {READY, DISPATCHED}
      BY <1>1 DEF OwnersInv, RunningUnfinished
    <2>2. QED
      BY <2>1, <1>2, ReadyStates DEF Away
  <1>7. SegmentsExclusive'
    <2>1. ASSUME NEW t \in Task, Holds(t)' PROVE Holds(t)
      <3>1. IsKernel(t) /\ state'[t] \in READY..EXECUTED /\ ~SetBack(t)'
        BY <2>1 DEF Holds
      <3>2. state'[t] = state[t]
        BY <1>2, <3>1, ReadyStates DEF Away
      <3>3. ~SetBack(t)
        BY <1>1, <3>1, <3>2 DEF SetBack
      <3>4. QED
        BY <3>1, <3>2, <3>3 DEF Holds
    <2>2. QED
      BY <2>1 DEF OwnersInv, SegmentsExclusive, Away
  <1>8. QED
    BY <1>3, <1>4, <1>5, <1>6, <1>7 DEF OwnersInv

LEMMA CallersKept ==
  ASSUME Types, Callers,
         \A g \in Group : lastTask[g] # NoTask => lastTask'[g] # NoTask,
         \A a \in App :
           thread'[a] = thread[a] \/ thread'[a].at \notin {"sync", "waiting", "clearing"}
  PROVE  Callers'
  <1>1. \A a \in App : thread[a].at = "sync" => thread[a].group \in Group
    BY ThreadAssumption, GroupInHand DEF GroupLabels
  <1>2. QED
    BY <1>1 DEF Callers

\* A step of one thread that stays clear of the lists and of the segments.
LEMMA CalmStep ==
  ASSUME OwnersInv, Types', NEW h \in Thread, NEW L, NEW K, Step(h, L, K),
         \A l \in L \cap Dispatching : l # "push" /\ l \in K /\ thread[h].at \in Dispatching,
         "release" \notin L,
         L \cap {"sync", "waiting", "clearing"} = {},
         \A g \in Group : lastTask[g] # NoTask => lastTask'[g] # NoTask,
         UNCHANGED <<segmentOf, freeSegments, runningGroupable>>,
         \A t \in Task : state'[t] = state[t] \/ (state[t] < READY /\ state'[t] < READY),
         h # Callback => groupTasks' = groupTasks
  PROVE  OwnersInv'
  <1>1. \A i \in Thread : i # h => thread'[i] = thread[i]
    BY DEF Step
  <1>2. thread'[h].at \in L /\ (thread'[h].at \in K => thread'[h].task = thread[h].task)
    BY DEF Step
  <1>3. Callers'
    <2>1. \A a \in App :
            thread'[a] = thread[a] \/ thread'[a].at \notin {"sync", "waiting", "clearing"}
      BY <1>1, <1>2, ThreadAssumption
    <2>2. QED
      BY <2>1, CallersKept DEF OwnersInv
  <1>4. Away
    <2>1. \A i \in Thread : thread'[i].at \in Dispatching =>
            /\ thread[i].at \in Dispatching
            /\ thread'[i].task = thread[i].task
            /\ thread'[i].at = "push" => thread[i].at = "push"
      BY <1>1, <1>2
    <2>2. thread'[Callback].at = "release" =>
            thread[Callback].at = "release" /\ groupTasks' = groupTasks
      BY <1>1, <1>2, ThreadAssumption
    <2>3. QED
      BY <2>1, <2>2 DEF Away
  <1>5. QED
    BY <1>3, <1>4, AwayKeeps

LEMMA OwnersConstruct ==
  ASSUME OwnersInv, NEW a \in App, NEW t \in Task, Construct(a, t)
  PROVE  OwnersInv'
  <1>1. Types' /\ Step(a, {"count"}, {})
    BY TypesConstruct DEF OwnersInv
  <1>2. /\ UNCHANGED <<state, segmentOf, freeSegments, runningGroupable, groupTasks>>
        /\ lastTask' = lastTask \/ lastTask' = [lastTask EXCEPT ![GroupOf[t]] = t]
    BY DEF Construct, handlerVars
  <1>3. \A g \in Group : lastTask[g] # NoTask => lastTask'[g] # NoTask
    <2>1. GroupOf[t] \in Group /\ t # NoTask
      BY GroupTaskAssumption
    <2>2. QED
      BY <1>2, <2>1 DEF OwnersInv, Types, GroupsTyped
  <1>4. "count" \notin Dispatching /\ "release" # "count" /\ a \in Thread
    BY ThreadAssumption DEF Dispatching
  <1>5. QED
    BY <1>1, <1>2, <1>3, <1>4, CalmStep

LEMMA OwnersCount ==
  ASSUME OwnersInv, NEW a \in App, CountTask(a)
  PROVE  OwnersInv'
  <1>1. Types' /\ Step(a, {"try"}, {"try"})
    BY TypesCount DEF OwnersInv
  <1>2. UNCHANGED <<state, segmentOf, freeSegments, runningGroupable, groupTasks, lastTask>>
    BY DEF CountTask, handlerVars, listVars, taskVars
  <1>3. "try" \notin Dispatching /\ a \in Thread
    BY ThreadAssumption DEF Dispatching
  <1>4. QED
    BY <1>1, <1>2, <1>3, CalmStep

LEMMA OwnersTry ==
  ASSUME OwnersInv, NEW h \in Thread,
         \/ TryWaitsForGroup(h) \/ TryWaitsForPrevious(h) \/ TryLacksResources(h)
         \/ TryTaken(h)
  PROVE  OwnersInv'
  <1>1. Types' /\ Step(h, Outside, {})
    BY TypesTry DEF OwnersInv
  <1>2. UNCHANGED <<segmentOf, freeSegments, runningGroupable, groupTasks, lastTask>>
    BY DEF TryWaitsForGroup, TryWaitsForPrevious, TryLacksResources, TryTaken, KeepForLater,
           TryLeavesUnchanged, handlerVars
  <1>3. \A t \in Task : state'[t] = state[t] \/ (state[t] < READY /\ state'[t] < READY)
    <2>1. CASE TryTaken(h)
      BY <2>1 DEF TryTaken
    <2>2. CASE KeepForLater(h)
      <3>1. PICK t : /\ state[t] < READY
                     /\ state' = [state EXCEPT ![t] = INITIALIZED]
        BY <2>2 DEF KeepForLater
      <3>2. QED
        BY <3>1, ReadyStates DEF OwnersInv, Types, TasksTyped
    <2>3. QED
      BY <2>1, <2>2 DEF TryWaitsForGroup, TryWaitsForPrevious, TryLacksResources
  <1>4. Outside \cap Dispatching = {} /\ "release" \notin Outside
        /\ Outside \cap {"sync", "waiting", "clearing"} = {}
    BY DEF Dispatching, Outside
  <1>5. QED
    BY <1>1, <1>2, <1>3, <1>4, CalmStep

\* Publishing a task and registering the handler.
LEMMA OwnersPublish ==
  ASSUME OwnersInv, NEW h \in Thread, Publish(h) \/ TestAndSet(h) \/ RegisterHandler(h)
  PROVE  OwnersInv'
  <1>1. Types' /\ Step(h, (Dispatching \ {"push"}) \cup Outside, Dispatching)
    BY TypesDispatch DEF OwnersInv, Dispatch
  <1>2. UNCHANGED <<state, segmentOf, freeSegments, runningGroupable, groupTasks, lastTask>>
    BY DEF Publish, TestAndSet, RegisterHandler, DispatchLeavesUnchanged, handlerVars
  <1>3. thread[h].at \in Dispatching
    BY DEF Publish, TestAndSet, RegisterHandler, At, Dispatching
  <1>4. PICK L : L = (Dispatching \ {"push"}) \cup Outside
    OBVIOUS
  <1>5. /\ \A l \in L \cap Dispatching : l # "push" /\ l \in Dispatching
        /\ "release" \notin L /\ L \cap {"sync", "waiting", "clearing"} = {}
    BY <1>4 DEF Dispatching, Outside
  <1>6. QED
    BY <1>1, <1>2, <1>3, <1>4, <1>5, CalmStep

LEMMA OwnersProgress ==
  ASSUME OwnersInv, DoProgress \/ TakeFront \/ PopReady
  PROVE  OwnersInv'
  <1>1. /\ Types' /\ Step(Callback, Outside \cup {"try"}, {"front"})
        /\ UNCHANGED <<taskVars, listVars, groupTasks>>
    BY TypesProgress DEF OwnersInv
  <1>2. UNCHANGED <<state, segmentOf, freeSegments, runningGroupable, groupTasks, lastTask>>
    BY <1>1 DEF taskVars, listVars
  <1>3. PICK L : L = Outside \cup {"try"}
    OBVIOUS
  <1>4. /\ L \cap Dispatching = {} /\ "release" \notin L
        /\ L \cap {"sync", "waiting", "clearing"} = {}
    BY <1>3 DEF Dispatching, Outside
  <1>5. QED
    BY <1>1, <1>2, <1>3, <1>4, CalmStep, ThreadAssumption

LEMMA OwnersFinish ==
  ASSUME OwnersInv,
         DiscountTasks \/ LoadCount \/ ClearSuccessors \/ BeginVisits \/ VisitSuccessor
         \/ PushReady
  PROVE  OwnersInv'
  <1>1. PICK L : L = {"idle", "load", "clear", "visit", "unlink", "progress"}
    OBVIOUS
  <1>2. /\ Types' /\ Step(Callback, L, {})
        /\ UNCHANGED <<state, segmentOf, freeSegments, listVars>>
    BY <1>1, TypesFinish DEF OwnersInv
  <1>3. UNCHANGED <<state, segmentOf, freeSegments, runningGroupable, lastTask>>
    BY <1>2 DEF listVars
  <1>4. /\ L \cap Dispatching = {} /\ "release" \notin L
        /\ L \cap {"sync", "waiting", "clearing"} = {}
    BY <1>1 DEF Dispatching
  <1>5. QED
    BY <1>2, <1>3, <1>4, CalmStep, ThreadAssumption

LEMMA OwnersSync ==
  ASSUME OwnersInv, NEW a \in App, Sync(a) \/ (\E g \in Group : CallSync(a, g))
  PROVE  OwnersInv'
  <1>1. PICK L : L = {"idle", "sync", "waiting", "clearing"}
    OBVIOUS
  <1>2. /\ Types' /\ Step(a, L, {})
        /\ UNCHANGED <<taskVars, handlerVars>>
        /\ \/ runningGroupable' = runningGroupable
           \/ \E g \in Group : runningGroupable' = [runningGroupable EXCEPT ![g] = <<>>]
    BY <1>1, TypesSync DEF OwnersInv
  <1>3. /\ a \in Thread /\ a # Callback
        /\ \A i \in Thread : i # a => thread'[i] = thread[i]
        /\ thread'[a].at \in L
    BY <1>2, ThreadAssumption DEF Step
  <1>4. Away
    <2>1. \A g \in Group : Elements(runningGroupable'[g]) \subseteq Elements(runningGroupable[g])
      BY <1>2, ElementsOf DEF OwnersInv, Types, GroupsTyped
    <2>2. \A h \in Thread : thread'[h].at \in Dispatching => thread'[h] = thread[h]
      BY <1>1, <1>3 DEF Dispatching
    <2>3. QED
      BY <1>2, <1>3, <2>1, <2>2, ThreadAssumption DEF Away, taskVars, handlerVars
  <1>5. Callers'
    <2>1. ASSUME NEW d \in Group, CallSync(a, d) PROVE Callers'
      <3>1. /\ a = Syncer[d] /\ (d \in OrderedGroup => lastTask[d] # NoTask)
            /\ thread' = [thread EXCEPT ![a] = Frame("sync", NoTask, d, "launch")]
            /\ UNCHANGED lastTask
        BY <2>1 DEF CallSync, listVars
      <3>2. thread'[a].group = d
        BY <1>3, <3>1 DEF OwnersInv, Types, ThreadsTyped, Frame
      <3>3. QED
        BY <1>3, <3>1, <3>2, ThreadAssumption DEF OwnersInv, Callers
    <2>2. CASE SyncCounted(a)
      <3>1. /\ thread[a].at = "sync" /\ Goto(a, "waiting") /\ UNCHANGED lastTask
        BY <2>2 DEF SyncCounted, At, listVars
      <3>2. thread'[a].group = thread[a].group /\ thread'[a].at = "waiting"
        BY <1>3, <3>1, GotoMoves, TypesGiveShape DEF OwnersInv, Moves
      <3>3. QED
        BY <1>3, <3>1, <3>2, ThreadAssumption DEF OwnersInv, Callers
    <2>3. CASE SyncWaited(a)
      BY <2>3 DEF SyncWaited, OwnersInv, Callers, listVars
    <2>4. CASE SyncForgetsLast(a)
      <3>1. PICK g : g = thread[a].group
        OBVIOUS
      <3>2. /\ thread[a].at = "waiting" /\ Goto(a, "clearing")
            /\ lastTask' = [lastTask EXCEPT ![g] = NoTask]
        BY <2>4, <3>1 DEF SyncForgetsLast, At
      <3>3. thread'[a].group = thread[a].group /\ thread'[a].at = "clearing"
        BY <1>3, <3>2, GotoMoves, TypesGiveShape DEF OwnersInv, Moves
      <3>4. \A b \in App : thread'[b].at = "sync" => b # a /\ thread'[b] = thread[b] /\ thread[b].group # g
        BY <1>3, <3>1, <3>2, <3>3, ThreadAssumption DEF OwnersInv, Callers
      <3>5. \A k \in Group : k # g => lastTask'[k] = lastTask[k]
        BY <3>2 DEF OwnersInv, Types, GroupsTyped
      <3>6. \A b \in App : thread[b].at = "sync" => thread[b].group \in Group
        BY ThreadAssumption, GroupInHand DEF GroupLabels, OwnersInv
      <3>7. QED
        BY <1>3, <3>1, <3>2, <3>3, <3>4, <3>5, <3>6, ThreadAssumption DEF OwnersInv, Callers
    <2>5. CASE SyncClears(a)
      <3>1. Rest(a) /\ UNCHANGED lastTask
        BY <2>5 DEF SyncClears
      <3>2. thread'[a].at = "idle"
        BY <1>3, <3>1, RestMoves, TypesGiveShape DEF OwnersInv, Moves
      <3>3. QED
        BY <1>3, <3>1, <3>2, ThreadAssumption DEF OwnersInv, Callers
    <2>6. QED
      BY <2>1, <2>2, <2>3, <2>4, <2>5 DEF Sync
  <1>6. QED
    BY <1>2, <1>4, <1>5, AwayKeeps

LEMMA OwnersDevice ==
  ASSUME OwnersInv, NEW t \in Task, CompletePacket(t)
  PROVE  OwnersInv'
  <1>1. /\ Types' /\ thread' = thread
        /\ UNCHANGED <<state, segmentOf, freeSegments, runningGroupable, groupTasks, lastTask>>
    BY TypesDevice DEF OwnersInv, CompletePacket, taskVars, listVars, handlerVars
  <1>2. Callers' /\ Away
    BY <1>1 DEF OwnersInv, Callers, Away
  <1>3. QED
    BY <1>1, <1>2, AwayKeeps

\* An attempt that succeeds takes a segment that nobody holds.
LEMMA OwnersAcquire ==
  ASSUME OwnersInv, NEW h \in Thread, TryAcquires(h)
  PROVE  OwnersInv'
  <1>1. Types' /\ Step(h, {"push"}, {"push"})
    BY TypesAcquire DEF OwnersInv
  <1>2. PICK t \in Task : t = thread[h].task
    BY TaskInHand DEF TryAcquires, At, TaskLabels, OwnersInv
  <1>3. /\ thread[h].at = "try" /\ state[t] < READY
        /\ state' = [state EXCEPT ![t] = READY]
        /\ IF IsKernel(t)
           THEN \E i \in freeSegments : /\ segmentOf' = [segmentOf EXCEPT ![t] = i]
                                        /\ freeSegments' = freeSegments \ {i}
           ELSE UNCHANGED <<segmentOf, freeSegments>>
        /\ UNCHANGED <<runningGroupable, groupTasks, lastTask>>
    BY <1>2 DEF TryAcquires, At, TryLeavesUnchanged, handlerVars
  <1>4. /\ \A i \in Thread : i # h => thread'[i] = thread[i]
        /\ thread'[h].at = "push" /\ thread'[h].task = t
    BY <1>1, <1>2 DEF Step
  <1>5. /\ state'[t] = READY
        /\ \A u \in Task : u # t => state'[u] = state[u]
        /\ \A u \in Task : state[u] \in Int
    BY <1>3, ReadyStates DEF OwnersInv, Types, TasksTyped
  <1>6. \A i \in Thread : thread[i].at \in Dispatching => thread[i].task \in Task \ {t}
    <2> SUFFICES ASSUME NEW i \in Thread, thread[i].at \in Dispatching
                 PROVE  thread[i].task \in Task /\ thread[i].task # t
      OBVIOUS
    <2>1. thread[i].task \in Task
      BY TaskInHand DEF OwnersInv, TaskLabels
    <2>2. state[thread[i].task] >= READY
      BY DEF OwnersInv, DispatchersApart
    <2>3. QED
      BY <1>3, <1>5, <2>1, <2>2, ReadyStates
  <1>7. \A u \in Task : Running(u)' => Running(u)
    BY <1>3, <1>4, ThreadAssumption DEF Running, At
  <1>8. ~Running(t)
    BY <1>3, <1>5, ReadyStates DEF OwnersInv, RunningUnfinished
  <1>9. Callers'
    <2>1. \A a \in App :
            thread'[a] = thread[a] \/ thread'[a].at \notin {"sync", "waiting", "clearing"}
      BY <1>4, ThreadAssumption
    <2>2. QED
      BY <1>3, <2>1, CallersKept DEF OwnersInv
  <1>10. DispatchersApart'
    <2>1. \A i \in Thread : i # h /\ thread'[i].at \in Dispatching =>
            /\ thread[i].at \in Dispatching /\ thread'[i].task \in Task \ {t}
            /\ state'[thread'[i].task] = state[thread[i].task]
      BY <1>4, <1>5, <1>6
    <2>2. state'[t] >= READY
      BY <1>5, ReadyStates
    <2>3. QED
      BY <1>4, <2>1, <2>2 DEF OwnersInv, DispatchersApart
  <1>11. PushedLater'
    <2>1. ASSUME NEW i \in Thread, thread'[i].at = "push", NEW u \in Task, u = thread'[i].task
          PROVE  state'[u] = READY /\ ~Running(u)'
      <3>1. CASE i = h
        BY <1>4, <1>5, <1>7, <1>8, <2>1, <3>1
      <3>2. CASE i # h
        <4>1. thread[i].at = "push" /\ u = thread[i].task /\ u # t
          BY <1>4, <1>6, <2>1, <3>2 DEF Dispatching
        <4>2. state[u] = READY /\ ~Running(u)
          BY <4>1 DEF OwnersInv, PushedLater
        <4>3. QED
          BY <1>5, <1>7, <4>1, <4>2
      <3>3. QED
        BY <3>1, <3>2
    <2>2. QED
      BY <1>1, <2>1, PushedInHand
  <1>12. ListsOwn' /\ TakenApart'
    BY <1>3, <1>4, ThreadAssumption DEF OwnersInv, ListsOwn, TakenApart, At
  <1>13. RunningUnfinished'
    <2> SUFFICES ASSUME NEW u \in Task, Running(u)'
                 PROVE  state'[u] \in {READY, DISPATCHED}
      BY DEF RunningUnfinished
    <2>1. Running(u) /\ u # t
      BY <1>7, <1>8
    <2>2. QED
      BY <1>5, <2>1 DEF OwnersInv, RunningUnfinished
  <1>14. SegmentsExclusive'
    <2>1. ASSUME NEW u \in Task, Holds(u)', u # t PROVE Holds(u)
      <3>1. state'[u] = state[u]
        BY <1>5, <2>1
      <3>2. SetBack(u) => SetBack(u)'
        BY <1>7, <3>1 DEF SetBack
      <3>3. QED
        BY <2>1, <3>1, <3>2 DEF Holds
    <2>2. CASE IsKernel(t)
      <3>1. PICK i \in freeSegments : /\ segmentOf' = [segmentOf EXCEPT ![t] = i]
                                      /\ freeSegments' = freeSegments \ {i}
        BY <1>3, <2>2
      <3>2. /\ segmentOf'[t] = i
            /\ \A u \in Task : u # t => segmentOf'[u] = segmentOf[u]
            /\ i \in Segment
        BY <3>1 DEF OwnersInv, Types, TasksTyped
      <3>3. \A u \in Task : Holds(u)' /\ u # t =>
              segmentOf'[u] \in Segment \ freeSegments /\ segmentOf'[u] # i
        BY <2>1, <3>1, <3>2 DEF OwnersInv, SegmentsExclusive
      <3>4. \A u, v \in Task :
              Holds(u)' /\ Holds(v)' /\ segmentOf'[u] = segmentOf'[v] => u = v
        BY <2>1, <3>2, <3>3 DEF OwnersInv, SegmentsExclusive
      <3>5. \A u \in Task : Holds(u)' => segmentOf'[u] \in Segment \ freeSegments'
        BY <3>1, <3>2, <3>3
      <3>6. QED
        BY <3>4, <3>5 DEF SegmentsExclusive
    <2>3. CASE ~IsKernel(t)
      <3>1. ~Holds(t)'
        BY <2>3 DEF Holds, IsKernel
      <3>2. UNCHANGED <<segmentOf, freeSegments>>
        BY <1>3, <2>3
      <3>3. QED
        BY <2>1, <3>1, <3>2 DEF OwnersInv, SegmentsExclusive
    <2>4. QED
      BY <2>2, <2>3
  <1>15. QED
    BY <1>1, <1>9, <1>10, <1>11, <1>12, <1>13, <1>14 DEF OwnersInv

\* The task joins the running ones of its group, and only them.
LEMMA OwnersJoin ==
  ASSUME OwnersInv, NEW h \in Thread, JoinRunning(h)
  PROVE  OwnersInv'
  <1>1. Types' /\ Step(h, (Dispatching \ {"push"}) \cup Outside, Dispatching)
    BY TypesDispatch DEF OwnersInv, Dispatch
  <1>2. thread[h].at = "push"
    BY DEF JoinRunning, At
  <1>3. PICK t \in Task : t = thread[h].task
    BY <1>2, TaskInHand DEF TaskLabels, OwnersInv, Dispatching
  <1>4. PICK g \in Group : g = GroupOf[t]
    BY GroupTaskAssumption
  <1>5. /\ runningGroupable' = [runningGroupable EXCEPT ![g] = Append(@, t)]
        /\ UNCHANGED <<state, segmentOf, freeSegments, groupTasks, lastTask>>
        /\ Goto(h, IF KindOf[t] = "cpu" THEN "publish" ELSE "mark")
    BY <1>3, <1>4 DEF JoinRunning, DispatchLeavesUnchanged, handlerVars
  <1>6. \A i \in Thread : i # h => thread'[i] = thread[i]
    BY <1>1 DEF Step
  <1>7. thread'[h].at \in {"publish", "mark"} /\ thread'[h].task = t
    BY <1>3, <1>5, GotoMoves, TypesGiveShape DEF OwnersInv, Moves
  <1>8. /\ \A k \in Group : k # g => runningGroupable'[k] = runningGroupable[k]
        /\ Elements(runningGroupable'[g]) = Elements(runningGroupable[g]) \cup {t}
    BY <1>5, ElementsOf DEF OwnersInv, Types, GroupsTyped
  <1>9. state[t] = READY /\ ~Running(t)
    BY <1>2, <1>3 DEF OwnersInv, PushedLater
  <1>10. \A u \in Task : /\ u # t => (Running(u)' <=> Running(u))
                         /\ GroupOf[u] \in Group
    <2>1. thread'[Callback].at = "release" <=> thread[Callback].at = "release"
      BY <1>2, <1>6, <1>7, ThreadAssumption
    <2>2. \A u \in Task : GroupOf[u] \in Group
      BY GroupTaskAssumption
    <2>3. QED
      BY <1>5, <1>8, <2>1, <2>2 DEF Running, At
  <1>11. Callers'
    <2>1. \A a \in App :
            thread'[a] = thread[a] \/ thread'[a].at \notin {"sync", "waiting", "clearing"}
      BY <1>6, <1>7, ThreadAssumption
    <2>2. QED
      BY <1>5, <2>1, CallersKept DEF OwnersInv
  <1>12. \A i \in Thread : thread'[i].at \in Dispatching =>
           thread[i].at \in Dispatching /\ thread'[i].task = thread[i].task
    BY <1>2, <1>3, <1>6, <1>7 DEF Dispatching
  <1>13. DispatchersApart'
    BY <1>5, <1>12 DEF OwnersInv, DispatchersApart
  <1>14. PushedLater'
    <2>1. ASSUME NEW i \in Thread, thread'[i].at = "push", NEW u \in Task, u = thread'[i].task
          PROVE  state'[u] = READY /\ ~Running(u)'
      <3>1. i # h /\ thread[i].at = "push" /\ u = thread[i].task
        BY <1>6, <1>7, <2>1
      <3>2. u # t
        BY <1>2, <1>3, <3>1 DEF OwnersInv, DispatchersApart, Dispatching
      <3>3. QED
        BY <1>5, <1>10, <3>1, <3>2 DEF OwnersInv, PushedLater
    <2>2. QED
      BY <1>1, <2>1, PushedInHand
  <1>15. ListsOwn'
    BY <1>4, <1>8 DEF OwnersInv, ListsOwn
  <1>16. TakenApart'
    <2> SUFFICES ASSUME At(Callback, "release"), NEW u \in Elements(groupTasks)
                 PROVE  u \notin Elements(runningGroupable'[GroupOf[u]])
      BY <1>2, <1>5, <1>6, <1>7, ThreadAssumption DEF TakenApart, At
    <2>1. u \in Task /\ Running(u)
      BY ElementsOf DEF Running, OwnersInv, Types, ListsTyped
    <2>2. u # t /\ u \notin Elements(runningGroupable[GroupOf[u]])
      BY <1>9, <2>1 DEF OwnersInv, TakenApart
    <2>3. QED
      BY <1>8, <1>10, <2>1, <2>2
  <1>17. RunningUnfinished'
    BY <1>5, <1>9, <1>10 DEF OwnersInv, RunningUnfinished
  <1>18. SegmentsExclusive'
    <2>1. ASSUME NEW u \in Task, Holds(u)' PROVE Holds(u)
      BY <1>5, <1>9, <1>10, <2>1, ReadyStates DEF Holds, SetBack
    <2>2. QED
      BY <1>5, <2>1 DEF OwnersInv, SegmentsExclusive
  <1>19. QED
    BY <1>1, <1>11, <1>13, <1>14, <1>15, <1>16, <1>17, <1>18 DEF OwnersInv

\* A CPU task may have been completed by now; it then holds nothing.
LEMMA OwnersMark ==
  ASSUME OwnersInv, NEW h \in Thread, MarkDispatched(h)
  PROVE  OwnersInv'
  <1>1. Types' /\ Step(h, (Dispatching \ {"push"}) \cup Outside, Dispatching)
    BY TypesDispatch DEF OwnersInv, Dispatch
  <1>2. thread[h].at = "mark"
    BY DEF MarkDispatched, At
  <1>3. PICK t \in Task : t = thread[h].task
    BY <1>2, TaskInHand DEF TaskLabels, OwnersInv, Dispatching
  <1>4. /\ state' = [state EXCEPT ![t] = DISPATCHED]
        /\ UNCHANGED <<runningGroupable, segmentOf, freeSegments, groupTasks, lastTask>>
        /\ Goto(h, IF KindOf[t] = "cpu" THEN "arm" ELSE "publish")
    BY <1>3 DEF MarkDispatched, DispatchLeavesUnchanged, handlerVars
  <1>5. \A i \in Thread : i # h => thread'[i] = thread[i]
    BY <1>1 DEF Step
  <1>6. thread'[h].at \in {"publish", "arm"} /\ thread'[h].task = t
    BY <1>3, <1>4, GotoMoves, TypesGiveShape DEF OwnersInv, Moves
  <1>7. /\ state'[t] = DISPATCHED
        /\ \A u \in Task : u # t => state'[u] = state[u]
        /\ \A u \in Task : state[u] \in Int
    BY <1>4, ReadyStates DEF OwnersInv, Types, TasksTyped
  <1>8. \A u \in Task : Running(u)' <=> Running(u)
    BY <1>2, <1>4, <1>5, <1>6, ThreadAssumption DEF Running, At
  <1>9. Callers'
    <2>1. \A a \in App :
            thread'[a] = thread[a] \/ thread'[a].at \notin {"sync", "waiting", "clearing"}
      BY <1>5, <1>6, ThreadAssumption
    <2>2. QED
      BY <1>4, <2>1, CallersKept DEF OwnersInv
  <1>10. \A i \in Thread : thread'[i].at \in Dispatching =>
           thread[i].at \in Dispatching /\ thread'[i].task = thread[i].task
    BY <1>2, <1>3, <1>5, <1>6 DEF Dispatching
  <1>11. DispatchersApart'
    <2>1. \A u \in Task : state[u] >= READY => state'[u] >= READY
      BY <1>7, ReadyStates
    <2>2. \A i \in Thread : thread[i].at \in Dispatching => thread[i].task \in Task
      BY TaskInHand DEF OwnersInv, TaskLabels
    <2>3. QED
      BY <1>10, <2>1, <2>2 DEF OwnersInv, DispatchersApart
  <1>12. PushedLater'
    <2>1. ASSUME NEW i \in Thread, thread'[i].at = "push", NEW u \in Task, u = thread'[i].task
          PROVE  state'[u] = READY /\ ~Running(u)'
      <3>1. i # h /\ thread[i].at = "push" /\ u = thread[i].task
        BY <1>5, <1>6, <2>1
      <3>2. u # t
        BY <1>2, <1>3, <3>1 DEF OwnersInv, DispatchersApart, Dispatching
      <3>3. QED
        BY <1>7, <1>8, <3>1, <3>2 DEF OwnersInv, PushedLater
    <2>2. QED
      BY <1>1, <2>1, PushedInHand
  <1>13. ListsOwn' /\ TakenApart'
    BY <1>2, <1>4, <1>5, <1>6, ThreadAssumption DEF OwnersInv, ListsOwn, TakenApart, At
  <1>14. RunningUnfinished'
    BY <1>7, <1>8 DEF OwnersInv, RunningUnfinished
  <1>15. SegmentsExclusive'
    <2>1. ASSUME NEW u \in Task, Holds(u)' PROVE Holds(u)
      <3>1. CASE u = t
        <4>1. Running(t) /\ IsKernel(t)
          BY <1>7, <1>8, <2>1, <3>1 DEF Holds, SetBack
        <4>2. state[t] \in {READY, DISPATCHED}
          BY <4>1 DEF OwnersInv, RunningUnfinished
        <4>3. QED
          BY <3>1, <4>1, <4>2, ReadyStates DEF Holds, SetBack
      <3>2. CASE u # t
        BY <1>7, <1>8, <2>1, <3>2 DEF Holds, SetBack
      <3>3. QED
        BY <3>1, <3>2
    <2>2. QED
      BY <1>4, <2>1 DEF OwnersInv, SegmentsExclusive
  <1>16. QED
    BY <1>1, <1>9, <1>11, <1>12, <1>13, <1>14, <1>15 DEF OwnersInv

\* The handler is called and takes the lock.
LEMMA OwnersEnter ==
  ASSUME OwnersInv, (\E g \in Group : HandleGroupSignal(g)) \/ LockGroup
  PROVE  OwnersInv'
  <1>1. Types' /\ Step(Callback, {"enter", "drain", "release"}, {})
    BY TypesTake DEF OwnersInv
  <1>2. /\ UNCHANGED <<state, segmentOf, freeSegments, runningGroupable, groupTasks, lastTask>>
        /\ thread'[Callback].at # "release"
    <2>1. ASSUME NEW d \in Group, HandleGroupSignal(d)
          PROVE  thread'[Callback].at = "enter"
      BY <2>1, ThreadAssumption DEF HandleGroupSignal, Frame, OwnersInv, Types, ThreadsTyped
    <2>2. LockGroup => thread'[Callback].at = "drain"
      BY ThreadAssumption, GotoMoves, TypesGiveShape DEF LockGroup, Moves, OwnersInv
    <2>3. UNCHANGED <<taskVars, listVars, handlerVars>>
      BY DEF HandleGroupSignal, LockGroup
    <2>4. QED
      BY <2>1, <2>2, <2>3 DEF taskVars, listVars, handlerVars
  <1>3. Step(Callback, {"enter", "drain"}, {})
    BY <1>1, <1>2 DEF Step
  <1>4. {"enter", "drain"} \cap Dispatching = {}
    BY DEF Dispatching
  <1>5. QED
    BY <1>1, <1>2, <1>3, <1>4, CalmStep, ThreadAssumption

\* It takes the running tasks of its group: they run for it from now on.
LEMMA OwnersTake ==
  ASSUME OwnersInv, TakeRunning
  PROVE  OwnersInv'
  <1>1. Types' /\ Step(Callback, {"enter", "drain", "release"}, {})
    BY TypesTake DEF OwnersInv
  <1>2. PICK g \in Group : g = thread[Callback].group
    BY ThreadAssumption, GroupInHand DEF TakeRunning, At, GroupLabels, OwnersInv
  <1>3. /\ thread[Callback].at = "drain" /\ Goto(Callback, "release")
        /\ groupTasks' = runningGroupable[g]
        /\ runningGroupable' = [runningGroupable EXCEPT ![g] = <<>>]
        /\ UNCHANGED <<state, segmentOf, freeSegments, lastTask>>
    BY <1>2 DEF TakeRunning, At, ForgetRunning, taskVars
  <1>4. /\ thread'[Callback].at = "release"
        /\ \A i \in Thread : i # Callback => thread'[i] = thread[i]
    BY <1>1, <1>3, ThreadAssumption, GotoMoves, TypesGiveShape DEF OwnersInv, Moves, Step
  <1>5. /\ Elements(runningGroupable'[g]) = {}
        /\ \A k \in Group : k # g => runningGroupable'[k] = runningGroupable[k]
    BY <1>3, ElementsOf DEF OwnersInv, Types, GroupsTyped
  <1>6. \A u \in Task : Running(u)' <=> Running(u)
    <2> SUFFICES ASSUME NEW u \in Task PROVE Running(u)' <=> Running(u)
      OBVIOUS
    <2>1. GroupOf[u] \in Group
      BY GroupTaskAssumption
    <2>2. Running(u) <=> u \in Elements(runningGroupable[GroupOf[u]])
      BY <1>3 DEF Running, At
    <2>3. Running(u)' <=> \/ u \in Elements(runningGroupable'[GroupOf[u]])
                          \/ u \in Elements(runningGroupable[g])
      BY <1>3, <1>4 DEF Running, At
    <2>4. CASE GroupOf[u] = g
      BY <1>5, <2>2, <2>3, <2>4
    <2>5. CASE GroupOf[u] # g
      BY <1>5, <2>1, <2>2, <2>3, <2>5 DEF OwnersInv, ListsOwn
    <2>6. QED
      BY <2>4, <2>5
  <1>7. Callers'
    <2>1. \A a \in App : thread'[a] = thread[a]
      BY <1>4, ThreadAssumption
    <2>2. QED
      BY <1>3, <2>1, CallersKept DEF OwnersInv
  <1>8. \A i \in Thread : thread'[i].at \in Dispatching =>
          thread[i].at \in Dispatching /\ thread'[i] = thread[i]
    BY <1>4 DEF Dispatching
  <1>9. DispatchersApart'
    BY <1>3, <1>8 DEF OwnersInv, DispatchersApart
  <1>10. PushedLater'
    <2>1. ASSUME NEW i \in Thread, thread'[i].at = "push", NEW u \in Task, u = thread'[i].task
          PROVE  state'[u] = READY /\ ~Running(u)'
      BY <1>3, <1>6, <1>8, <2>1 DEF OwnersInv, PushedLater, Dispatching
    <2>2. QED
      BY <1>1, <2>1, PushedInHand
  <1>11. ListsOwn'
    BY <1>5 DEF OwnersInv, ListsOwn
  <1>12. TakenApart'
    <2>1. \A u \in Elements(runningGroupable[g]) : GroupOf[u] = g
      BY DEF OwnersInv, ListsOwn
    <2>2. QED
      BY <1>3, <1>5, <2>1 DEF TakenApart
  <1>13. RunningUnfinished'
    BY <1>3, <1>6 DEF OwnersInv, RunningUnfinished
  <1>14. SegmentsExclusive'
    BY <1>3, <1>6 DEF OwnersInv, SegmentsExclusive, Holds, SetBack
  <1>15. QED
    BY <1>1, <1>7, <1>9, <1>10, <1>11, <1>12, <1>13, <1>14 DEF OwnersInv

\* It gives back their segments, which nobody else holds.
LEMMA OwnersRelease ==
  ASSUME OwnersInv, ReleaseTasks
  PROVE  OwnersInv'
  <1>1. PICK T \in SUBSET Task : T = Elements(groupTasks)
    BY ElementsOf DEF OwnersInv, Types, ListsTyped
  <1>2. /\ thread[Callback].at = "release"
        /\ freeSegments' = freeSegments \cup {segmentOf[t] : t \in {u \in T : IsKernel(u)}}
        /\ state' = [t \in Task |-> IF t \in T THEN COMPLETED ELSE state[t]]
        /\ UNCHANGED <<segmentOf, runningGroupable, groupTasks, lastTask>>
    BY <1>1 DEF ReleaseTasks, At, listVars, handlerVars
  <1>3. \A t \in T : /\ Running(t)
                     /\ state[t] \in {READY, DISPATCHED}
                     /\ IsKernel(t) => Holds(t)
    <2>1. \A t \in T : Running(t)
      BY <1>1, <1>2 DEF Running, At
    <2>2. \A t \in T : state[t] \in {READY, DISPATCHED}
      BY <2>1 DEF OwnersInv, RunningUnfinished
    <2>3. QED
      BY <2>1, <2>2, ReadyStates DEF Holds, SetBack
  <1>4. Types' /\ Step(Callback, {"discount", "progress"}, {})
    <2>1. \A t \in Elements(groupTasks) : IsKernel(t) => segmentOf[t] \in Segment
      BY <1>1, <1>3 DEF OwnersInv, SegmentsExclusive
    <2>2. QED
      BY <2>1, TypesRelease DEF OwnersInv
  <1>5. /\ thread'[Callback].at \in {"discount", "progress"}
        /\ \A i \in Thread : i # Callback => thread'[i] = thread[i]
    BY <1>4 DEF Step
  <1>6. /\ \A t \in T : state'[t] = COMPLETED
        /\ \A t \in Task \ T : state'[t] = state[t]
        /\ \A t \in Task : state[t] \in Int
    BY <1>2, ReadyStates DEF OwnersInv, Types, TasksTyped
  <1>7. \A u \in Task : Running(u)' => Running(u) /\ u \notin T
    BY <1>1, <1>2, <1>5 DEF Running, At, OwnersInv, TakenApart
  <1>8. Callers'
    <2>1. \A a \in App : thread'[a] = thread[a]
      BY <1>5, ThreadAssumption
    <2>2. QED
      BY <1>2, <2>1, CallersKept DEF OwnersInv
  <1>9. \A i \in Thread : thread'[i].at \in Dispatching =>
          thread[i].at \in Dispatching /\ thread'[i] = thread[i]
    BY <1>5 DEF Dispatching
  <1>10. DispatchersApart'
    <2>1. \A u \in Task : state[u] >= READY => state'[u] >= READY
      BY <1>6, ReadyStates
    <2>2. \A i \in Thread : thread[i].at \in Dispatching => thread[i].task \in Task
      BY TaskInHand DEF OwnersInv, TaskLabels
    <2>3. QED
      BY <1>9, <2>1, <2>2 DEF OwnersInv, DispatchersApart
  <1>11. PushedLater'
    <2>1. ASSUME NEW i \in Thread, thread'[i].at = "push", NEW u \in Task, u = thread'[i].task
          PROVE  state'[u] = READY /\ ~Running(u)'
      <3>1. state[u] = READY /\ ~Running(u)
        BY <1>9, <2>1 DEF OwnersInv, PushedLater, Dispatching
      <3>2. QED
        BY <1>3, <1>6, <1>7, <3>1
    <2>2. QED
      BY <1>4, <2>1, PushedInHand
  <1>12. ListsOwn' /\ TakenApart'
    BY <1>2, <1>5 DEF OwnersInv, ListsOwn, TakenApart, At
  <1>13. RunningUnfinished'
    BY <1>6, <1>7 DEF OwnersInv, RunningUnfinished
  <1>14. SegmentsExclusive'
    <2>1. ASSUME NEW u \in Task, Holds(u)' PROVE Holds(u) /\ u \notin T
      <3>1. u \notin T
        BY <1>6, <2>1, ReadyStates DEF Holds
      <3>2. state'[u] = state[u]
        BY <1>6, <3>1
      <3>3. SetBack(u) => SetBack(u)'
        BY <1>7, <3>2 DEF SetBack
      <3>4. QED
        BY <2>1, <3>1, <3>2, <3>3 DEF Holds
    <2>2. ASSUME NEW u \in Task, Holds(u)' PROVE segmentOf[u] \in Segment \ freeSegments'
      <3>1. \A t \in T : IsKernel(t) => segmentOf[t] # segmentOf[u]
        BY <1>3, <2>1, <2>2 DEF OwnersInv, SegmentsExclusive
      <3>2. segmentOf[u] \in Segment \ freeSegments
        BY <2>1, <2>2 DEF OwnersInv, SegmentsExclusive
      <3>3. QED
        BY <1>2, <3>1, <3>2
    <2>3. QED
      BY <1>2, <2>1, <2>2 DEF OwnersInv, SegmentsExclusive
  <1>15. QED
    BY <1>4, <1>8, <1>10, <1>11, <1>12, <1>13, <1>14 DEF OwnersInv

LEMMA OwnersInit ==
  ASSUME Init
  PROVE  OwnersInv
  <1>1. Types
    <2>1. ThreadsTyped
      <3>1. "idle" \in Label /\ "idle" \notin TaskLabels \cup GroupLabels
        BY DEF Label, TaskLabels, GroupLabels, Dispatching
      <3>2. /\ Idle.at = "idle" /\ Idle.task = NoTask /\ Idle.group = NoGroup
            /\ Idle.via = "launch"
        BY DEF Idle, Frame
      <3>3. Control(Idle)
        BY <3>1, <3>2 DEF Control, Idle
      <3>4. QED
        BY <3>2, <3>3, ThreadAssumption DEF Init, ThreadsTyped
    <2>2. TasksTyped
      BY ReadyStates DEF Init, TasksTyped
    <2>3. GroupsTyped /\ ListsTyped
      BY SequenceTypes DEF Init, GroupsTyped, ListsTyped
    <2>4. QED
      BY <2>1, <2>2, <2>3 DEF Types
  <1>2. \A h \in Thread : thread[h].at = "idle"
    BY DEF Init, Idle, Frame
  <1>3. Callers /\ DispatchersApart /\ PushedLater /\ TakenApart
    BY <1>2, ThreadAssumption DEF Callers, DispatchersApart, PushedLater, TakenApart, At,
                                  Dispatching
  <1>4. ListsOwn
    BY ElementsOf DEF Init, ListsOwn
  <1>5. RunningUnfinished
    BY <1>2, ElementsOf, GroupTaskAssumption, ThreadAssumption
    DEF Init, RunningUnfinished, Running, At
  <1>6. SegmentsExclusive
    BY ReadyStates DEF Init, SegmentsExclusive, Holds
  <1>7. QED
    BY <1>1, <1>3, <1>4, <1>5, <1>6 DEF OwnersInv

LEMMA OwnersStep ==
  ASSUME OwnersInv, [Next]_vars
  PROVE  OwnersInv'
  <1>1. ASSUME NEW h \in Thread, TryDispatch(h) \/ Dispatch(h) PROVE OwnersInv'
    BY <1>1, OwnersTry, OwnersAcquire, OwnersJoin, OwnersMark, OwnersPublish
    DEF TryDispatch, Dispatch
  <1>2. ASSUME NEW a \in App,
               Launch(a) \/ (\E g \in Group : CallSync(a, g)) \/ AppStep(a)
        PROVE  OwnersInv'
    BY <1>1, <1>2, ThreadAssumption, OwnersConstruct, OwnersCount, OwnersSync
    DEF Launch, AppStep
  <1>3. CASE Handler
    BY <1>1, <1>3, ThreadAssumption, OwnersEnter, OwnersTake, OwnersRelease, OwnersProgress,
       OwnersFinish DEF Handler
  <1>4. CASE Device
    BY <1>4, OwnersDevice DEF Device
  <1>5. CASE UNCHANGED vars
    <2>1. Types' /\ Callers'
      BY <1>5 DEF OwnersInv, Types, ThreadsTyped, Control, TasksTyped, GroupsTyped, ListsTyped,
                  Callers, vars, taskVars, deviceVars, signalVars, listVars, handlerVars
    <2>2. Away
      BY <1>5 DEF Away, vars, taskVars, listVars, handlerVars
    <2>3. QED
      BY <2>1, <2>2, AwayKeeps
  <1>6. QED
    BY <1>2, <1>3, <1>4, <1>5 DEF Next

LEMMA OwnersAlways == Spec => []OwnersInv
  BY OwnersInit, OwnersStep, PTL DEF Spec

(***************************************************************************)
(* A kernarg segment has one owner, a task or the pool, whoever of the     *)
(* application threads and the handler dispatches the tasks, and although  *)
(* a task is published before it is marked or after: the handler returns   *)
(* to the pool only the segments of tasks that have joined the running     *)
(* ones, which is once for each, and none of them is taken again before.   *)
(***************************************************************************)
THEOREM SegmentsAreExclusive == Spec => []SegmentsExclusive
  <1>1. OwnersInv => SegmentsExclusive
    BY DEF OwnersInv
  <1>2. QED
    BY <1>1, OwnersAlways, PTL

-------------------------------------------------------------------------------
(***************************************************************************)
(* The steps that neither acquire, dispatch nor complete a task.           *)
(***************************************************************************)
Joining == {"push", "mark", "publish"}

Aside ==
  /\ UNCHANGED <<packetsLeft, published, groupSignal>>
  /\ \A t \in Task : state'[t] = state[t] \/ (state[t] < READY /\ state'[t] = INITIALIZED)
  /\ \A h \in Thread :
       /\ thread[h].at \in Joining \/ thread'[h].at \in Joining =>
            thread'[h].at = thread[h].at /\ thread'[h].task = thread[h].task
       /\ thread'[h].at \in Dispatching =>
            thread[h].at \in Dispatching /\ thread'[h].task = thread[h].task
  /\ thread[Callback].at = "release" \/ thread'[Callback].at = "release" =>
       thread'[Callback].at = thread[Callback].at /\ groupTasks' = groupTasks
  /\ runningGroupable' = runningGroupable \/ \E a \in App : SyncClears(a)

LEMMA AsideStep ==
  ASSUME OwnersInv, NEW h \in Thread, NEW L, NEW K, Step(h, L, K),
         thread[h].at \notin Joining \cup {"release"},
         \A l \in L \cap Dispatching :
           l \notin Joining /\ l \in K /\ thread[h].at \in Dispatching,
         "release" \notin L,
         UNCHANGED <<packetsLeft, published, groupSignal>>,
         runningGroupable' = runningGroupable \/ \E a \in App : SyncClears(a),
         \A t \in Task : state'[t] = state[t] \/ (state[t] < READY /\ state'[t] = INITIALIZED),
         h # Callback => groupTasks' = groupTasks
  PROVE  Aside
  <1>1. \A i \in Thread : i # h => thread'[i] = thread[i]
    BY DEF Step
  <1>2. thread'[h].at \in L /\ (thread'[h].at \in K => thread'[h].task = thread[h].task)
    BY DEF Step
  <1>3. thread'[h].at \notin Joining
    BY <1>2 DEF Joining, Dispatching
  <1>4. QED
    BY <1>1, <1>2, <1>3, ThreadAssumption DEF Aside

LEMMA AsideSteps ==
  ASSUME OwnersInv, [Next]_vars
  PROVE  \/ Aside
         \/ \E h \in Thread :
              TryAcquires(h) \/ JoinRunning(h) \/ MarkDispatched(h) \/ Publish(h)
         \/ TakeRunning
         \/ ReleaseTasks
         \/ \E t \in Task : CompletePacket(t)
  <1>0. /\ Types /\ Callers
        /\ Callback \in Thread /\ \A a \in App : a \in Thread /\ a # Callback
    BY ThreadAssumption DEF OwnersInv
  <1>1. ASSUME NEW h \in Thread,
               \/ TryWaitsForGroup(h) \/ TryWaitsForPrevious(h) \/ TryLacksResources(h)
               \/ TryTaken(h)
        PROVE  Aside
    <2>1. Step(h, Outside, {})
      BY <1>0, <1>1, TypesTry
    <2>2. /\ thread[h].at = "try"
          /\ UNCHANGED <<packetsLeft, published, groupSignal, runningGroupable, groupTasks>>
          /\ state' = state \/ \E t : state[t] < READY /\ state' = [state EXCEPT ![t] = INITIALIZED]
      BY <1>1 DEF TryWaitsForGroup, TryWaitsForPrevious, TryLacksResources, TryTaken,
                  KeepForLater, TryLeavesUnchanged, handlerVars, At
    <2>3. \A t \in Task : state'[t] = state[t] \/ (state[t] < READY /\ state'[t] = INITIALIZED)
      BY <1>0, <2>2 DEF Types, TasksTyped
    <2>4. "try" \notin Joining \cup {"release"} /\ Outside \cap Dispatching = {} /\ "release" \notin Outside
      BY DEF Joining, Dispatching, Outside
    <2>5. QED
      BY <2>1, <2>2, <2>3, <2>4, AsideStep
  <1>2. ASSUME NEW h \in Thread, TestAndSet(h) \/ RegisterHandler(h) PROVE Aside
    <2>1. PICK L : L = Outside \cup {"arm", "register"}
      OBVIOUS
    <2>2. Step(h, L, Dispatching)
      <3>1. Step(h, (Dispatching \ {"push"}) \cup Outside, Dispatching)
        BY <1>0, <1>2, TypesDispatch DEF Dispatch
      <3>2. EndTry(h, TRUE) \/ Goto(h, "register")
        BY <1>2 DEF TestAndSet, RegisterHandler
      <3>3. thread'[h].at \in Outside \cup {"register"}
        BY <1>0, <3>2, EndTryMoves, GotoMoves, TypesGiveShape DEF Moves
      <3>4. QED
        BY <2>1, <3>1, <3>3 DEF Step
    <2>3. /\ thread[h].at \in {"arm", "register"}
          /\ UNCHANGED <<packetsLeft, published, groupSignal, runningGroupable, groupTasks, state>>
      BY <1>2 DEF TestAndSet, RegisterHandler, DispatchLeavesUnchanged, handlerVars, At
    <2>4. /\ thread[h].at \notin Joining \cup {"release"} /\ thread[h].at \in Dispatching
          /\ "release" \notin L
          /\ \A l \in L \cap Dispatching : l \notin Joining /\ l \in Dispatching
      BY <2>1, <2>3 DEF Joining, Dispatching, Outside
    <2>5. QED
      BY <2>2, <2>3, <2>4, AsideStep
  <1>3. ASSUME NEW a \in App, Launch(a) \/ CountTask(a) PROVE Aside
    <2>1. PICK L \in {{"count"}, {"try"}} : \E K : Step(a, L, K)
      BY <1>0, <1>3, TypesConstruct, TypesCount DEF Launch
    <2>2. /\ thread[a].at \in {"idle", "count"}
          /\ UNCHANGED <<packetsLeft, published, groupSignal, runningGroupable, groupTasks, state>>
      BY <1>3 DEF Launch, Construct, CountTask, deviceVars, handlerVars, listVars, taskVars, At
    <2>3. /\ thread[a].at \notin Joining \cup {"release"} /\ L \cap Dispatching = {} /\ "release" \notin L
      BY <2>1, <2>2 DEF Joining, Dispatching
    <2>4. PICK K : Step(a, L, K)
      BY <2>1
    <2>5. QED
      BY <1>0, <2>1, <2>2, <2>3, <2>4, AsideStep
  <1>4. ASSUME NEW a \in App, Sync(a) \/ (\E g \in Group : CallSync(a, g)) PROVE Aside
    <2>1. PICK L : L = {"idle", "sync", "waiting", "clearing"}
      OBVIOUS
    <2>2. Step(a, L, {}) /\ UNCHANGED <<taskVars, deviceVars, handlerVars>>
      BY <1>0, <1>4, <2>1, TypesSync
    <2>3. /\ thread[a].at \in {"idle", "sync", "waiting", "clearing"}
          /\ runningGroupable' = runningGroupable \/ SyncClears(a)
      BY <1>4 DEF Sync, CallSync, SyncCounted, SyncWaited, SyncForgetsLast, SyncClears,
                  WaitedForAll, listVars, At
    <2>4. thread[a].at \notin Joining \cup {"release"} /\ L \cap Dispatching = {} /\ "release" \notin L
      BY <2>1, <2>3 DEF Joining, Dispatching
    <2>5. UNCHANGED <<packetsLeft, published, groupSignal, groupTasks, state>>
      BY <2>2 DEF taskVars, deviceVars, handlerVars
    <2>6. QED
      BY <1>0, <2>2, <2>3, <2>4, <2>5, AsideStep
  <1>5. CASE (\E g \in Group : HandleGroupSignal(g)) \/ LockGroup
    <2>1. Step(Callback, {"enter", "drain", "release"}, {})
      BY <1>0, <1>5, TypesTake
    <2>2. thread'[Callback].at # "release"
      <3>1. ASSUME NEW d \in Group, HandleGroupSignal(d)
            PROVE  thread'[Callback].at = "enter"
        BY <1>0, <3>1 DEF HandleGroupSignal, Frame, Types, ThreadsTyped
      <3>2. LockGroup => thread'[Callback].at = "drain"
        BY <1>0, GotoMoves, TypesGiveShape DEF LockGroup, Moves
      <3>3. QED
        BY <1>5, <3>1, <3>2
    <2>3. Step(Callback, {"enter", "drain"}, {})
      BY <2>1, <2>2 DEF Step
    <2>4. /\ thread[Callback].at \in {"idle", "enter"}
          /\ UNCHANGED <<taskVars, deviceVars, listVars>>
      BY <1>5 DEF HandleGroupSignal, LockGroup, At
    <2>5. thread[Callback].at \notin Joining \cup {"release"} /\ {"enter", "drain"} \cap Dispatching = {}
      BY <2>4 DEF Joining, Dispatching
    <2>6. UNCHANGED <<packetsLeft, published, groupSignal, runningGroupable, state>>
      BY <2>4 DEF taskVars, deviceVars, listVars
    <2>7. QED
      BY <1>0, <2>3, <2>5, <2>6, AsideStep
  <1>6. CASE DoProgress \/ TakeFront \/ PopReady
    <2>1. PICK L : L = Outside \cup {"try"}
      OBVIOUS
    <2>2. Step(Callback, L, {"front"}) /\ UNCHANGED <<taskVars, deviceVars, listVars>>
      BY <1>0, <1>6, <2>1, TypesProgress
    <2>3. thread[Callback].at \in {"progress", "front", "pop"}
      BY <1>6 DEF DoProgress, TakeFront, PopReady, At
    <2>4. /\ thread[Callback].at \notin Joining \cup {"release"} /\ L \cap Dispatching = {}
          /\ "release" \notin L
      BY <2>1, <2>3 DEF Joining, Dispatching, Outside
    <2>5. UNCHANGED <<packetsLeft, published, groupSignal, runningGroupable, state>>
      BY <2>2 DEF taskVars, deviceVars, listVars
    <2>6. QED
      BY <1>0, <2>2, <2>4, <2>5, AsideStep
  <1>7. CASE \/ DiscountTasks \/ LoadCount \/ ClearSuccessors \/ BeginVisits \/ VisitSuccessor
             \/ PushReady
    <2>1. PICK L : L = {"idle", "load", "clear", "visit", "unlink", "progress"}
      OBVIOUS
    <2>2. /\ Step(Callback, L, {})
          /\ UNCHANGED <<state, packetsLeft, published, groupSignal, listVars>>
      BY <1>0, <1>7, <2>1, TypesFinish
    <2>3. thread[Callback].at \in {"discount", "load", "clear", "visit", "unlink"}
      BY <1>7 DEF DiscountTasks, LoadCount, ClearSuccessors, BeginVisits, VisitSuccessor,
                  PushReady, At
    <2>4. /\ thread[Callback].at \notin Joining \cup {"release"} /\ L \cap Dispatching = {}
          /\ "release" \notin L
      BY <2>1, <2>3 DEF Joining, Dispatching
    <2>5. UNCHANGED runningGroupable
      BY <2>2 DEF listVars
    <2>6. QED
      BY <1>0, <2>2, <2>4, <2>5, AsideStep
  <1>8. CASE UNCHANGED vars
    BY <1>8 DEF vars, deviceVars, taskVars, listVars, handlerVars, Aside
  <1>9. ASSUME NEW h \in Thread, TryDispatch(h) \/ Dispatch(h)
        PROVE  \/ Aside
               \/ TryAcquires(h) \/ JoinRunning(h) \/ MarkDispatched(h) \/ Publish(h)
    BY <1>1, <1>2, <1>9 DEF TryDispatch, Dispatch
  <1>10. CASE \E a \in App : Launch(a) \/ (\E g \in Group : CallSync(a, g)) \/ AppStep(a)
    BY <1>0, <1>3, <1>4, <1>9, <1>10 DEF AppStep
  <1>11. CASE Handler
    BY <1>0, <1>5, <1>6, <1>7, <1>9, <1>11 DEF Handler
  <1>12. QED
    BY <1>8, <1>10, <1>11 DEF Next, Device

-------------------------------------------------------------------------------
(***************************************************************************)
(* Packets.  The signal of a group counts the packets that its tasks have  *)
(* still on a device, or are about to put there, so when the handler finds *)
(* it at 0 the tasks that it takes have none.                              *)
(***************************************************************************)
Fresh == \A t \in Task : state[t] < READY => packetsLeft[t] = 0 /\ t \notin published

Outstanding(g) ==
  {p \in Task \X Nat : GroupOf[p[1]] = g /\ p[2] \in 1..packetsLeft[p[1]]}

SignalCounts ==
  \A g \in Group :
    IsFiniteSet(Outstanding(g)) /\ groupSignal[g] = Cardinality(Outstanding(g))

\* A dispatcher that has not published the packets of its task.
Unseen(h) ==
  \/ thread[h].at \in {"push", "publish"}
  \/ thread[h].at = "mark" /\ KindOf[thread[h].task] # "cpu"

UnseenKept ==
  \A h \in Thread : Unseen(h) =>
    thread[h].task \notin published /\ packetsLeft[thread[h].task] > 0

MarkedOnce ==
  \A h \in Thread :
    thread[h].at = "mark" \/ (thread[h].at = "publish" /\ KindOf[thread[h].task] = "cpu")
      => state[thread[h].task] \in {READY, COMPLETED}

Done(t) == state[t] = COMPLETED \/ (At(Callback, "release") /\ t \in Elements(groupTasks))

DoneEmpty == \A t \in Task : Done(t) => packetsLeft[t] = 0

PacketsInv == Fresh /\ SignalCounts /\ UnseenKept /\ MarkedOnce /\ DoneEmpty

LEMMA PacketsAside ==
  ASSUME OwnersInv, OwnersInv', PacketsInv, Aside
  PROVE  PacketsInv'
  <1>1. \A t \in Task : state[t] \in Int
    BY ReadyStates DEF OwnersInv, Types, TasksTyped
  <1>2. Fresh'
    BY <1>1, ReadyStates DEF PacketsInv, Fresh, Aside
  <1>3. SignalCounts'
    <2>1. \A g \in Group : Outstanding(g)' = Outstanding(g)
      BY DEF Outstanding, Aside
    <2>2. QED
      BY <2>1 DEF PacketsInv, SignalCounts, Aside
  <1>4. UnseenKept'
    <2>1. \A h \in Thread : Unseen(h)' => Unseen(h) /\ thread'[h].task = thread[h].task
      BY DEF Unseen, Aside, Joining
    <2>2. QED
      BY <2>1 DEF PacketsInv, UnseenKept, Aside
  <1>5. MarkedOnce'
    <2>1. \A h \in Thread : thread'[h].at \in {"mark", "publish"} =>
            /\ thread[h].at = thread'[h].at /\ thread'[h].task = thread[h].task
            /\ thread[h].task \in Task
      BY TaskInHand DEF Aside, Joining, OwnersInv, TaskLabels, Dispatching
    <2>2. \A t \in Task : state[t] \in {READY, COMPLETED} => state'[t] = state[t]
      BY <1>1, ReadyStates DEF Aside
    <2>3. QED
      BY <2>1, <2>2 DEF PacketsInv, MarkedOnce
  <1>6. DoneEmpty'
    <2>1. \A t \in Task : Done(t)' => Done(t)
      BY <1>1, ReadyStates DEF Done, Aside, At
    <2>2. QED
      BY <2>1 DEF PacketsInv, DoneEmpty, Aside
  <1>7. QED
    BY <1>2, <1>3, <1>4, <1>5, <1>6 DEF PacketsInv

LEMMA PacketFacts ==
  ASSUME NEW t \in Task
  PROVE  /\ GroupOf[t] \in Group
         /\ Packets[t] \in Nat /\ Packets[t] > 0
         /\ KindOf[t] \in {"gpu", "cpu", "data"}
  BY GroupTaskAssumption

LEMMA PacketsAcquire ==
  ASSUME OwnersInv, OwnersInv', PacketsInv, NEW h \in Thread, TryAcquires(h)
  PROVE  PacketsInv'
  <1>1. PICK t \in Task : t = thread[h].task
    BY TaskInHand DEF TryAcquires, At, TaskLabels, OwnersInv
  <1>2. PICK g \in Group, n \in Nat : g = GroupOf[t] /\ n = Packets[t] /\ n > 0
    BY PacketFacts
  <1>3. /\ thread[h].at = "try" /\ state[t] < READY
        /\ state' = [state EXCEPT ![t] = READY]
        /\ packetsLeft' = [packetsLeft EXCEPT ![t] = n]
        /\ groupSignal' = [groupSignal EXCEPT ![g] = @ + n]
        /\ UNCHANGED <<published, groupTasks>>
    BY <1>1, <1>2 DEF TryAcquires, At, RaiseSignal, TryLeavesUnchanged, handlerVars
  <1>4. /\ \A i \in Thread : i # h => thread'[i] = thread[i]
        /\ thread'[h].at = "push" /\ thread'[h].task = t
    BY <1>1, TypesAcquire DEF Step, OwnersInv
  <1>5. /\ packetsLeft[t] = 0 /\ t \notin published
        /\ packetsLeft'[t] = n
        /\ \A u \in Task : u # t => packetsLeft'[u] = packetsLeft[u] /\ state'[u] = state[u]
        /\ state'[t] = READY
        /\ \A u \in Task : state[u] \in Int /\ packetsLeft[u] \in Nat
    BY <1>2, <1>3, ReadyStates DEF PacketsInv, Fresh, OwnersInv, Types, TasksTyped
  <1>6. \A i \in Thread : i # h /\ thread[i].at \in Dispatching => thread[i].task \in Task \ {t}
    <2> SUFFICES ASSUME NEW i \in Thread, i # h, thread[i].at \in Dispatching
                 PROVE  thread[i].task \in Task /\ thread[i].task # t
      OBVIOUS
    <2>1. thread[i].task \in Task
      BY TaskInHand DEF OwnersInv, TaskLabels
    <2>2. state[thread[i].task] >= READY
      BY DEF OwnersInv, DispatchersApart
    <2>3. QED
      BY <1>3, <1>5, <2>1, <2>2, ReadyStates
  <1>7. Fresh'
    BY <1>3, <1>5, ReadyStates DEF PacketsInv, Fresh
  <1>8. SignalCounts'
    <2> DEFINE New == {t} \X (1..n)
    <2>1. IsFiniteSet(New) /\ Cardinality(New) = n
      <3>1. IsFiniteSet({t}) /\ Cardinality({t}) = 1
        BY FS_Singleton
      <3>2. IsFiniteSet(1..n) /\ Cardinality(1..n) = n
        BY FS_Interval
      <3>3. IsFiniteSet(New) /\ Cardinality(New) = Cardinality({t}) * Cardinality(1..n)
        BY <3>1, <3>2, FS_Product
      <3>4. QED
        BY <3>1, <3>2, <3>3
    <2>2. Outstanding(g)' = Outstanding(g) \cup New
      BY <1>2, <1>5 DEF Outstanding
    <2>3. Outstanding(g) \cap New = {}
      BY <1>5 DEF Outstanding
    <2>4. IsFiniteSet(Outstanding(g)) /\ groupSignal[g] = Cardinality(Outstanding(g))
      BY DEF PacketsInv, SignalCounts
    <2>5. IsFiniteSet(Outstanding(g)') /\ Cardinality(Outstanding(g)') = groupSignal[g] + n
      <3>1. IsFiniteSet(Outstanding(g) \cup New)
            /\ Cardinality(Outstanding(g) \cup New)
                 = Cardinality(Outstanding(g)) + Cardinality(New) - Cardinality(Outstanding(g) \cap New)
        BY <2>1, <2>4, FS_Union
      <3>2. Cardinality(Outstanding(g) \cap New) = 0
        BY <2>3, FS_EmptySet
      <3>3. Cardinality(Outstanding(g)) \in Nat
        BY <2>4, FS_CardinalityType
      <3>4. QED
        BY <2>1, <2>2, <2>4, <3>1, <3>2, <3>3
    <2>6. \A k \in Group : k # g => Outstanding(k)' = Outstanding(k)
      BY <1>2, <1>5 DEF Outstanding
    <2>7. /\ groupSignal'[g] = groupSignal[g] + n
          /\ \A k \in Group : k # g => groupSignal'[k] = groupSignal[k]
      BY <1>3 DEF OwnersInv, Types, GroupsTyped
    <2>8. QED
      BY <2>5, <2>6, <2>7 DEF PacketsInv, SignalCounts
  <1>9. UnseenKept'
    <2>1. \A i \in Thread : i # h /\ Unseen(i)' =>
            /\ Unseen(i) /\ thread'[i].task = thread[i].task /\ thread[i].task \in Task \ {t}
      BY <1>4, <1>6 DEF Unseen, Dispatching
    <2>2. QED
      BY <1>2, <1>3, <1>4, <1>5, <2>1 DEF PacketsInv, UnseenKept
  <1>10. MarkedOnce'
    <2>1. \A i \in Thread : thread'[i].at \in {"mark", "publish"} =>
            i # h /\ thread'[i] = thread[i] /\ thread[i].task \in Task \ {t}
      BY <1>4, <1>6 DEF Dispatching
    <2>2. QED
      BY <1>5, <2>1 DEF PacketsInv, MarkedOnce
  <1>11. DoneEmpty'
    <2>1. \A u \in Task : Done(u)' => Done(u) /\ u # t
      <3>1. ~Running(t)
        BY <1>3, <1>5, ReadyStates DEF OwnersInv, RunningUnfinished
      <3>2. ~Done(t)'
        BY <1>3, <1>4, <1>5, <3>1, ThreadAssumption, ReadyStates DEF Done, Running, At
      <3>3. \A u \in Task : u # t /\ Done(u)' => Done(u)
        BY <1>3, <1>4, <1>5, ThreadAssumption DEF Done, At
      <3>4. QED
        BY <3>2, <3>3
    <2>2. QED
      BY <1>5, <2>1 DEF PacketsInv, DoneEmpty
  <1>12. QED
    BY <1>7, <1>8, <1>9, <1>10, <1>11 DEF PacketsInv

LEMMA PacketsDevice ==
  ASSUME OwnersInv, OwnersInv', PacketsInv, NEW t \in Task, CompletePacket(t)
  PROVE  PacketsInv'
  <1>1. PICK g \in Group : g = GroupOf[t]
    BY PacketFacts
  <1>2. /\ t \in published /\ packetsLeft[t] > 0
        /\ packetsLeft' = [packetsLeft EXCEPT ![t] = @ - 1]
        /\ groupSignal' = [groupSignal EXCEPT ![g] = @ - 1]
        /\ UNCHANGED <<state, published, groupTasks, thread>>
    BY <1>1 DEF CompletePacket, taskVars, handlerVars
  <1>3. PICK n \in Nat : n = packetsLeft[t] /\ n > 0
    BY <1>2 DEF OwnersInv, Types, TasksTyped
  <1>4. /\ packetsLeft'[t] = n - 1
        /\ \A u \in Task : u # t => packetsLeft'[u] = packetsLeft[u]
    BY <1>2, <1>3 DEF OwnersInv, Types, TasksTyped
  <1>5. Fresh'
    BY <1>2, <1>4 DEF PacketsInv, Fresh
  <1>6. SignalCounts'
    <2>1. <<t, n>> \in Outstanding(g)
      BY <1>1, <1>3 DEF Outstanding
    <2>2. Outstanding(g)' = Outstanding(g) \ {<<t, n>>}
      BY <1>1, <1>3, <1>4 DEF Outstanding
    <2>3. IsFiniteSet(Outstanding(g)) /\ groupSignal[g] = Cardinality(Outstanding(g))
      BY DEF PacketsInv, SignalCounts
    <2>4. IsFiniteSet(Outstanding(g)') /\ Cardinality(Outstanding(g)') = groupSignal[g] - 1
      BY <2>1, <2>2, <2>3, FS_RemoveElement
    <2>5. \A k \in Group : k # g => Outstanding(k)' = Outstanding(k)
      BY <1>1, <1>4 DEF Outstanding
    <2>6. /\ groupSignal'[g] = groupSignal[g] - 1
          /\ \A k \in Group : k # g => groupSignal'[k] = groupSignal[k]
      BY <1>2 DEF OwnersInv, Types, GroupsTyped
    <2>7. QED
      BY <2>4, <2>5, <2>6 DEF PacketsInv, SignalCounts
  <1>7. UnseenKept'
    <2>1. \A h \in Thread : Unseen(h)' => Unseen(h) /\ thread[h].task \in Task
      BY <1>2, TaskInHand DEF Unseen, OwnersInv, TaskLabels, Dispatching
    <2>2. QED
      BY <1>2, <1>4, <2>1 DEF PacketsInv, UnseenKept
  <1>8. MarkedOnce'
    BY <1>2 DEF PacketsInv, MarkedOnce
  <1>9. DoneEmpty'
    <2>1. \A u \in Task : Done(u)' => Done(u)
      BY <1>2 DEF Done, At
    <2>2. QED
      BY <1>2, <1>4, <2>1 DEF PacketsInv, DoneEmpty
  <1>10. QED
    BY <1>5, <1>6, <1>7, <1>8, <1>9 DEF PacketsInv

\* dispatch(): the packets are seen once published, and the task marked once.
LEMMA PacketsDispatch ==
  ASSUME OwnersInv, OwnersInv', PacketsInv, NEW h \in Thread,
         JoinRunning(h) \/ MarkDispatched(h) \/ Publish(h)
  PROVE  PacketsInv'
  <1>1. thread[h].at \in Joining
    BY DEF JoinRunning, MarkDispatched, Publish, At, Joining
  <1>2. PICK t \in Task : t = thread[h].task
    BY <1>1, TaskInHand DEF TaskLabels, OwnersInv, Dispatching, Joining
  <1>3. /\ UNCHANGED <<packetsLeft, groupSignal, groupTasks>>
        /\ state' = state \/ state' = [state EXCEPT ![t] = DISPATCHED]
        /\ published' = published \/ published' = published \cup {t}
        /\ JoinRunning(h) => UNCHANGED <<state, published>>
        /\ MarkDispatched(h) => UNCHANGED published
        /\ Publish(h) => UNCHANGED state
    BY <1>2 DEF JoinRunning, MarkDispatched, Publish, DispatchLeavesUnchanged, handlerVars
  <1>4. /\ \A i \in Thread : i # h => thread'[i] = thread[i]
        /\ thread'[h].task = t
        /\ \/ /\ JoinRunning(h) /\ thread[h].at = "push"
              /\ thread'[h].at = IF KindOf[t] = "cpu" THEN "publish" ELSE "mark"
           \/ /\ MarkDispatched(h) /\ thread[h].at = "mark"
              /\ thread'[h].at = IF KindOf[t] = "cpu" THEN "arm" ELSE "publish"
           \/ /\ Publish(h) /\ thread[h].at = "publish"
              /\ thread'[h].at = IF KindOf[t] = "cpu" THEN "mark" ELSE "arm"
    <2>1. \A i \in Thread : i # h => thread'[i] = thread[i]
      BY TypesDispatch DEF Step, OwnersInv, Dispatch
    <2>2. \A l : Goto(h, l) => thread'[h].at = l /\ thread'[h].task = t
      BY <1>2, GotoMoves, TypesGiveShape DEF OwnersInv, Moves
    <2>3. CASE JoinRunning(h)
      BY <1>2, <2>1, <2>2, <2>3 DEF JoinRunning, At
    <2>4. CASE MarkDispatched(h)
      BY <1>2, <2>1, <2>2, <2>4 DEF MarkDispatched, At
    <2>5. CASE Publish(h)
      BY <1>2, <2>1, <2>2, <2>5 DEF Publish, At
    <2>6. QED
      BY <2>3, <2>4, <2>5
  <1>5. /\ state[t] >= READY
        /\ \A i \in Thread : thread[i].at \in Dispatching /\ i # h => thread[i].task # t
    BY <1>1, <1>2 DEF OwnersInv, DispatchersApart, Dispatching, Joining
  <1>6. /\ \A u \in Task : u # t => state'[u] = state[u]
        /\ state'[t] \in {state[t], DISPATCHED}
        /\ \A u \in Task : state[u] \in Int
    BY <1>3, ReadyStates DEF OwnersInv, Types, TasksTyped
  <1>7. Fresh'
    BY <1>3, <1>5, <1>6, ReadyStates DEF PacketsInv, Fresh
  <1>8. SignalCounts'
    <2>1. \A g \in Group : Outstanding(g)' = Outstanding(g)
      BY <1>3 DEF Outstanding
    <2>2. QED
      BY <1>3, <2>1 DEF PacketsInv, SignalCounts
  <1>9. UnseenKept'
    <2>1. ASSUME NEW i \in Thread, i # h, Unseen(i)'
          PROVE  Unseen(i) /\ thread'[i].task = thread[i].task /\ thread[i].task # t
      BY <1>4, <1>5, <2>1 DEF Unseen, Dispatching
    <2>2. Unseen(h)' => Unseen(h) /\ ~Publish(h)
      <3>1. CASE Publish(h) /\ thread[h].at = "publish"
        BY <1>4, <3>1 DEF Unseen, Publish, JoinRunning, MarkDispatched, At
      <3>2. CASE thread[h].at = "mark"
        BY <1>2, <1>4, <3>2 DEF Unseen, Publish, JoinRunning, At
      <3>3. CASE thread[h].at = "push"
        BY <3>3 DEF Unseen, Publish, At
      <3>4. QED
        BY <1>4, <3>1, <3>2, <3>3
    <2>3. Unseen(h)' => t \notin published' /\ packetsLeft'[t] > 0
      BY <1>2, <1>3, <2>2 DEF PacketsInv, UnseenKept
    <2>4. \A i \in Thread : i # h /\ Unseen(i)' =>
            thread'[i].task \notin published' /\ packetsLeft'[thread'[i].task] > 0
      BY <1>3, <2>1 DEF PacketsInv, UnseenKept
    <2>5. QED
      BY <1>4, <2>3, <2>4 DEF UnseenKept
  <1>10. MarkedOnce'
    <2>1. \A i \in Thread : i # h /\ thread'[i].at \in {"mark", "publish"} =>
            thread'[i] = thread[i] /\ thread[i].task # t /\ thread[i].task \in Task
      BY <1>4, <1>5, TaskInHand DEF Dispatching, TaskLabels, OwnersInv
    <2>2. thread'[h].at = "mark" \/ (thread'[h].at = "publish" /\ KindOf[t] = "cpu") =>
            state'[t] \in {READY, COMPLETED}
      <3>1. CASE JoinRunning(h) /\ thread[h].at = "push"
        BY <1>2, <1>3, <3>1 DEF OwnersInv, PushedLater
      <3>2. CASE MarkDispatched(h) /\ thread[h].at = "mark"
        BY <1>4, <3>2 DEF Publish, JoinRunning, At
      <3>3. CASE Publish(h) /\ thread[h].at = "publish"
        <4>1. thread'[h].at = IF KindOf[t] = "cpu" THEN "mark" ELSE "arm"
          BY <1>4, <3>3 DEF MarkDispatched, JoinRunning, At
        <4>2. QED
          BY <1>2, <1>3, <3>3, <4>1 DEF PacketsInv, MarkedOnce
      <3>4. QED
        BY <1>4, <3>1, <3>2, <3>3
    <2>3. QED
      BY <1>4, <1>6, <2>1, <2>2 DEF PacketsInv, MarkedOnce
  <1>11. DoneEmpty'
    <2>1. thread'[Callback].at = "release" <=> thread[Callback].at = "release"
      BY <1>4, ThreadAssumption
    <2>2. \A u \in Task : Done(u)' => Done(u)
      BY <1>3, <1>6, <2>1, ReadyStates DEF Done, At
    <2>3. QED
      BY <1>3, <2>2 DEF PacketsInv, DoneEmpty
  <1>12. QED
    BY <1>7, <1>8, <1>9, <1>10, <1>11 DEF PacketsInv

\* The wait of the handler, with the lock held.
LEMMA PacketsTake ==
  ASSUME OwnersInv, OwnersInv', PacketsInv, TakeRunning
  PROVE  PacketsInv'
  <1>1. PICK g \in Group : g = thread[Callback].group
    BY ThreadAssumption, GroupInHand DEF TakeRunning, At, GroupLabels, OwnersInv
  <1>2. /\ thread[Callback].at = "drain" /\ Goto(Callback, "release")
        /\ groupSignal[g] = 0
        /\ groupTasks' = runningGroupable[g]
        /\ UNCHANGED <<state, packetsLeft, published, groupSignal>>
    BY <1>1 DEF TakeRunning, At, SignalDrained, taskVars, deviceVars
  <1>3. /\ thread'[Callback].at = "release"
        /\ \A i \in Thread : i # Callback => thread'[i] = thread[i]
    BY <1>2, ThreadAssumption, GotoMoves, TypesGiveShape, TypesTake DEF OwnersInv, Moves, Step
  <1>4. Outstanding(g) = {}
    BY <1>2, FS_EmptySet DEF PacketsInv, SignalCounts
  <1>5. \A t \in Task : GroupOf[t] = g => packetsLeft[t] = 0
    <2> SUFFICES ASSUME NEW t \in Task, GroupOf[t] = g, packetsLeft[t] # 0 PROVE FALSE
      OBVIOUS
    <2>1. packetsLeft[t] \in Nat
      BY DEF OwnersInv, Types, TasksTyped
    <2>2. <<t, 1>> \in Outstanding(g)
      BY <2>1 DEF Outstanding
    <2>3. QED
      BY <1>4, <2>2
  <1>6. Fresh'
    BY <1>2 DEF PacketsInv, Fresh
  <1>7. SignalCounts'
    <2>1. \A k \in Group : Outstanding(k)' = Outstanding(k)
      BY <1>2 DEF Outstanding
    <2>2. QED
      BY <1>2, <2>1 DEF PacketsInv, SignalCounts
  <1>8. UnseenKept' /\ MarkedOnce'
    <2>1. \A h \in Thread : thread'[h].at \in {"push", "mark", "publish"} => thread'[h] = thread[h]
      BY <1>3
    <2>2. UnseenKept'
      BY <1>2, <2>1 DEF PacketsInv, UnseenKept, Unseen
    <2>3. MarkedOnce'
      BY <1>2, <2>1 DEF PacketsInv, MarkedOnce
    <2>4. QED
      BY <2>2, <2>3
  <1>9. DoneEmpty'
    <2>1. \A t \in Elements(runningGroupable[g]) : GroupOf[t] = g
      BY DEF OwnersInv, ListsOwn
    <2>2. QED
      BY <1>2, <1>5, <2>1 DEF PacketsInv, DoneEmpty, Done
  <1>10. QED
    BY <1>6, <1>7, <1>8, <1>9 DEF PacketsInv

LEMMA PacketsRelease ==
  ASSUME OwnersInv, OwnersInv', PacketsInv, ReleaseTasks
  PROVE  PacketsInv'
  <1>1. PICK T \in SUBSET Task : T = Elements(groupTasks)
    BY ElementsOf DEF OwnersInv, Types, ListsTyped
  <1>2. /\ thread[Callback].at = "release"
        /\ state' = [t \in Task |-> IF t \in T THEN COMPLETED ELSE state[t]]
        /\ UNCHANGED <<packetsLeft, published, groupSignal, groupTasks>>
        /\ IF T = {} THEN Goto(Callback, "discount")
           ELSE Work(Callback, "progress", groupTasks[Len(groupTasks)], "launch")
    BY <1>1 DEF ReleaseTasks, At, deviceVars, handlerVars
  <1>3. /\ thread'[Callback].at \in {"discount", "progress"}
        /\ \A i \in Thread : i # Callback => thread'[i] = thread[i]
    <2>1. Moves(Callback, {"discount"}) \/ Moves(Callback, {"progress"})
      BY <1>2, ThreadAssumption, GotoMoves, WorkMoves, TypesGiveShape DEF OwnersInv
    <2>2. QED
      BY <2>1 DEF Moves, OwnersInv, Types, ThreadsTyped
  <1>4. /\ \A t \in T : state'[t] = COMPLETED /\ Done(t) /\ Running(t)
        /\ \A t \in Task \ T : state'[t] = state[t]
        /\ \A t \in Task : state[t] \in Int
    <2>1. \A t \in T : Done(t) /\ Running(t)
      BY <1>1, <1>2 DEF Done, At, Running
    <2>2. /\ \A t \in T : state'[t] = COMPLETED
          /\ \A t \in Task \ T : state'[t] = state[t]
      BY <1>2
    <2>3. \A t \in Task : state[t] \in Int
      BY ReadyStates DEF OwnersInv, Types, TasksTyped
    <2>4. QED
      BY <2>1, <2>2, <2>3
  <1>5. Fresh'
    BY <1>2, <1>4, ReadyStates DEF PacketsInv, Fresh
  <1>6. SignalCounts'
    <2>1. \A k \in Group : Outstanding(k)' = Outstanding(k)
      BY <1>2 DEF Outstanding
    <2>2. QED
      BY <1>2, <2>1 DEF PacketsInv, SignalCounts
  <1>7. UnseenKept' /\ MarkedOnce'
    <2>1. \A h \in Thread : thread'[h].at \in {"push", "mark", "publish"} =>
            thread'[h] = thread[h] /\ thread[h].task \in Task
      BY <1>3, TaskInHand DEF OwnersInv, TaskLabels, Dispatching
    <2>2. UnseenKept'
      BY <1>2, <2>1 DEF PacketsInv, UnseenKept, Unseen
    <2>3. MarkedOnce'
      BY <1>4, <2>1 DEF PacketsInv, MarkedOnce
    <2>4. QED
      BY <2>2, <2>3
  <1>8. DoneEmpty'
    <2>1. \A t \in Task : Done(t)' => Done(t)
      BY <1>2, <1>3, <1>4 DEF Done, At
    <2>2. QED
      BY <1>2, <2>1 DEF PacketsInv, DoneEmpty
  <1>9. QED
    BY <1>5, <1>6, <1>7, <1>8 DEF PacketsInv

LEMMA PacketsInit ==
  ASSUME Init
  PROVE  PacketsInv
  <1>1. \A h \in Thread : thread[h].at = "idle"
    BY DEF Init, Idle, Frame
  <1>2. Fresh
    BY DEF Init, Fresh
  <1>3. SignalCounts
    <2>1. \A g \in Group : Outstanding(g) = {}
      BY DEF Init, Outstanding
    <2>2. QED
      BY <2>1, FS_EmptySet DEF Init, SignalCounts
  <1>4. UnseenKept /\ MarkedOnce
    BY <1>1 DEF UnseenKept, Unseen, MarkedOnce
  <1>5. DoneEmpty
    BY DEF Init, DoneEmpty
  <1>6. QED
    BY <1>2, <1>3, <1>4, <1>5 DEF PacketsInv

LEMMA PacketsStep ==
  ASSUME OwnersInv, OwnersInv', PacketsInv, [Next]_vars
  PROVE  PacketsInv'
  BY AsideSteps, PacketsAside, PacketsAcquire, PacketsDispatch, PacketsTake, PacketsRelease,
     PacketsDevice

LEMMA PacketsAlways == Spec => [](OwnersInv /\ PacketsInv)
  BY OwnersInit, OwnersStep, PacketsInit, PacketsStep, PTL DEF Spec

(***************************************************************************)
(* Every variable keeps its type.  That the signal of a group never falls  *)
(* below 0 rests on its counting exactly the packets on the devices or on  *)
(* their way: hsa_signal_wait with the condition EQ 0 would wait forever   *)
(* for a signal that had gone past it.                                     *)
(***************************************************************************)
THEOREM GroupTypesCorrect == Spec => []TypeOK
  <1>1. OwnersInv /\ PacketsInv => TypeOK
    <2> SUFFICES ASSUME OwnersInv, PacketsInv PROVE TypeOK
      OBVIOUS
    <2>1. groupSignal \in [Group -> Nat]
      <3>1. \A g \in Group : groupSignal[g] \in Nat
        BY FS_CardinalityType DEF PacketsInv, SignalCounts
      <3>2. QED
        BY <3>1 DEF OwnersInv, Types, GroupsTyped
    <2>2. thread \in [Thread -> [at : Label, task : Task \cup {NoTask},
                                 group : Group \cup {NoGroup},
                                 via : {"launch", "front", "pop"}]]
      BY DEF OwnersInv, Types, ThreadsTyped, Control, Frame
    <2>3. QED
      BY <2>1, <2>2 DEF OwnersInv, Types, TasksTyped, GroupsTyped, ListsTyped, TypeOK
  <1>2. QED
    BY <1>1, PacketsAlways, PTL
===============================================================================

--------------------------- MODULE GroupSignal_sync ---------------------------
(***************************************************************************)
(* What TaskgroupImpl::sync() waits for, and what its counter holds.  The  *)
(* argument goes from the order in which a thread launches its tasks, over *)
(* the lists of the group, to the tasks that are completed for good when   *)
(* sync() is about to return; then from the tasks that the handler of each *)
(* group will subtract to the value of task_count_.                        *)
(***************************************************************************)
EXTENDS GroupSignal_proofs

-------------------------------------------------------------------------------
(***************************************************************************)
(* Launching.  A thread launches its tasks in the order of its program,    *)
(* and has one in hand at a time; the handler tries only tasks that their  *)
(* launchers have made.                                                    *)
(***************************************************************************)
Earlier(u, t) ==
  \E a \in App : \E i, j \in DOMAIN Program[a] :
    i < j /\ Program[a][i] = u /\ Program[a][j] = t

LaunchersOwn ==
  \A a \in App :
    /\ thread[a].at \in TaskLabels => Launcher(thread[a].task) = a
    /\ thread[a].at \notin TaskLabels => thread[a].task = NoTask

LaunchedInOrder ==
  \A u, t \in Task : Earlier(u, t) /\ Made(t) => state[u] # UNINITIALIZED

LinkedTried == \A t \in Linked : state[t] # UNINITIALIZED

ListedMade ==
  \A g \in Group : \A t \in Elements(runningOrdered[g]) :
    GroupOf[t] = g /\ g \in OrderedGroup /\ Made(t)

HandlerTriesMade == At(Callback, "try") => Made(thread[Callback].task)

LaunchInv ==
  LaunchersOwn /\ LaunchedInOrder /\ LinkedTried /\ ListedMade /\ HandlerTriesMade

LEMMA ProgramFacts ==
  /\ \A a \in App : Program[a] \in Seq(Task)
  /\ \A t \in Task : \E a \in App : \E i \in DOMAIN Program[a] : Program[a][i] = t
  /\ \A a, b \in App : \A i \in DOMAIN Program[a], j \in DOMAIN Program[b] :
       Program[a][i] = Program[b][j] => a = b /\ i = j
  BY GroupTaskAssumption

LEMMA LauncherFacts ==
  /\ \A t \in Task : Launcher(t) \in App
  /\ \A a \in App : \A i \in DOMAIN Program[a] : Launcher(Program[a][i]) = a
  /\ \A t \in Task : \E i \in DOMAIN Program[Launcher(t)] : Program[Launcher(t)][i] = t
  <1>1. ASSUME NEW t \in Task
        PROVE  Launcher(t) \in App /\ t \in Elements(Program[Launcher(t)])
    <2>1. \E a \in App : t \in Elements(Program[a])
      <3>1. PICK a \in App : \E i \in DOMAIN Program[a] : Program[a][i] = t
        BY ProgramFacts
      <3>2. t \in Elements(Program[a])
        BY <3>1 DEF Elements
      <3>3. QED
        BY <3>2
    <2>2. QED
      BY <2>1 DEF Launcher
  <1>2. \A a \in App : \A i \in DOMAIN Program[a] : Program[a][i] \in Task
    BY ProgramFacts
  <1>3. ASSUME NEW a \in App, NEW i \in DOMAIN Program[a]
        PROVE  Launcher(Program[a][i]) = a
    <2>1. PICK b \in App : /\ b = Launcher(Program[a][i])
                           /\ Program[a][i] \in Elements(Program[b])
      BY <1>1, <1>2
    <2>2. PICK j \in DOMAIN Program[b] : Program[b][j] = Program[a][i]
      BY <2>1 DEF Elements
    <2>3. QED
      BY <2>1, <2>2, ProgramFacts
  <1>4. ASSUME NEW t \in Task
        PROVE  \E i \in DOMAIN Program[Launcher(t)] : Program[Launcher(t)][i] = t
    BY <1>1 DEF Elements
  <1>5. QED
    BY <1>1, <1>3, <1>4

LEMMA EarlierFacts ==
  /\ \A u, t \in Task : Earlier(u, t) => Launcher(u) = Launcher(t) /\ ~Earlier(t, u) /\ u # t
  /\ \A u, t \in Task : Launcher(u) = Launcher(t) => u = t \/ Earlier(u, t) \/ Earlier(t, u)
  /\ \A u, v, t \in Task : Earlier(u, v) /\ Earlier(v, t) => Earlier(u, t)
  <1>1. \A a \in App : \A i \in DOMAIN Program[a] : i \in Int
    BY ProgramFacts
  <1>2. ASSUME NEW u \in Task, NEW t \in Task, Earlier(u, t)
        PROVE  Launcher(u) = Launcher(t) /\ ~Earlier(t, u) /\ u # t
    <2>1. PICK a \in App : \E i, j \in DOMAIN Program[a] :
                             i < j /\ Program[a][i] = u /\ Program[a][j] = t
      BY <1>2 DEF Earlier
    <2>2. PICK i \in DOMAIN Program[a] : \E j \in DOMAIN Program[a] :
                             i < j /\ Program[a][i] = u /\ Program[a][j] = t
      BY <2>1
    <2>3. PICK j \in DOMAIN Program[a] : i < j /\ Program[a][i] = u /\ Program[a][j] = t
      BY <2>2
    <2>4. Launcher(u) = Launcher(t)
      BY <2>3, LauncherFacts
    <2>5. \A b \in App : \A k \in DOMAIN Program[b] :
            /\ Program[b][k] = u => b = a /\ k = i
            /\ Program[b][k] = t => b = a /\ k = j
      BY <2>3, ProgramFacts
    <2>6. ~Earlier(t, u) /\ u # t
      BY <1>1, <2>3, <2>5 DEF Earlier
    <2>7. QED
      BY <2>4, <2>6
  <1>3. ASSUME NEW u \in Task, NEW t \in Task, Launcher(u) = Launcher(t)
        PROVE  u = t \/ Earlier(u, t) \/ Earlier(t, u)
    <2>1. PICK a \in App : a = Launcher(u) /\ a = Launcher(t)
      BY <1>3, LauncherFacts
    <2>2. PICK i \in DOMAIN Program[a] : Program[a][i] = u
      BY <2>1, LauncherFacts
    <2>3. PICK j \in DOMAIN Program[a] : Program[a][j] = t
      BY <2>1, LauncherFacts
    <2>4. i < j \/ j < i \/ i = j
      BY <1>1
    <2>5. QED
      BY <2>2, <2>3, <2>4 DEF Earlier
  <1>4. ASSUME NEW u \in Task, NEW v \in Task, NEW t \in Task, Earlier(u, v), Earlier(v, t)
        PROVE  Earlier(u, t)
    <2>1. PICK a \in App : \E i, j \in DOMAIN Program[a] :
                             i < j /\ Program[a][i] = u /\ Program[a][j] = v
      BY <1>4 DEF Earlier
    <2>2. PICK b \in App : \E i, j \in DOMAIN Program[b] :
                             i < j /\ Program[b][i] = v /\ Program[b][j] = t
      BY <1>4 DEF Earlier
    <2>3. a = b
      BY <2>1, <2>2, ProgramFacts
    <2>4. PICK i \in DOMAIN Program[a] : \E j \in DOMAIN Program[a] :
                             i < j /\ Program[a][i] = u /\ Program[a][j] = v
      BY <2>1
    <2>5. PICK j \in DOMAIN Program[a] : i < j /\ Program[a][i] = u /\ Program[a][j] = v
      BY <2>4
    <2>6. PICK k \in DOMAIN Program[a] : j < k /\ Program[a][k] = t
      BY <2>2, <2>3, <2>5, ProgramFacts
    <2>7. i < k
      BY <1>1, <2>5, <2>6
    <2>8. QED
      BY <2>5, <2>6, <2>7 DEF Earlier
  <1>5. QED
    BY <1>2, <1>3, <1>4

\* The task that a thread launches next.
LEMMA LaunchedNext ==
  ASSUME NEW a \in App, NEW t \in Task, NextLaunch(a, t)
  PROVE  /\ Launcher(t) = a /\ state[t] = UNINITIALIZED
         /\ \A u \in Task : Earlier(u, t) => state[u] # UNINITIALIZED
  <1>1. PICK i \in DOMAIN Program[a] :
          /\ Program[a][i] = t /\ state[t] = UNINITIALIZED
          /\ \A j \in 1..i - 1 : state[Program[a][j]] # UNINITIALIZED
    BY DEF NextLaunch
  <1>2. Launcher(t) = a
    BY <1>1, LauncherFacts
  <1>3. ASSUME NEW u \in Task, Earlier(u, t) PROVE state[u] # UNINITIALIZED
    <2>1. PICK b \in App : \E k, j \in DOMAIN Program[b] :
                             k < j /\ Program[b][k] = u /\ Program[b][j] = t
      BY <1>3 DEF Earlier
    <2>a. PICK n \in DOMAIN Program[b], j \in DOMAIN Program[b] :
            n < j /\ Program[b][n] = u /\ Program[b][j] = t
      BY <2>1
    <2>b. a = b /\ i = j
      BY <1>1, <2>a, ProgramFacts
    <2>2. PICK k \in DOMAIN Program[a] : k < i /\ Program[a][k] = u
      BY <2>a, <2>b
    <2>3. k \in 1..i - 1
      BY <2>2, ProgramFacts
    <2>4. QED
      BY <1>1, <2>2, <2>3
  <1>4. QED
    BY <1>1, <1>2, <1>3

LEMMA ElementsMore ==
  /\ \A q \in Seq(Task) : q # <<>> =>
       Head(q) \in Elements(q) /\ Elements(Tail(q)) \subseteq Elements(q)
  /\ \A q \in Seq(Task), r \in Seq(Task) : Elements(q \o r) = Elements(q) \cup Elements(r)
  /\ \A q \in Seq(Task), n \in Nat :
       n < Len(q) => Elements(SubSeq(q, n + 1, Len(q))) \subseteq Elements(q)
  <1>1. ASSUME NEW q \in Seq(Task), q # <<>>
        PROVE  Head(q) \in Elements(q) /\ Elements(Tail(q)) \subseteq Elements(q)
    <2>1. /\ Head(q) = q[1] /\ 1 \in DOMAIN q /\ DOMAIN q = 1..Len(q)
          /\ DOMAIN Tail(q) = 1..Len(q) - 1
          /\ \A i \in 1..Len(q) - 1 : Tail(q)[i] = q[i + 1]
          /\ Len(q) \in Nat
      BY <1>1
    <2>2. \A i \in 1..Len(q) - 1 : i + 1 \in DOMAIN q
      BY <2>1
    <2>3. QED
      BY <2>1, <2>2 DEF Elements
  <1>2. ASSUME NEW q \in Seq(Task), NEW r \in Seq(Task)
        PROVE  Elements(q \o r) = Elements(q) \cup Elements(r)
    <2>1. /\ DOMAIN q = 1..Len(q) /\ DOMAIN r = 1..Len(r)
          /\ DOMAIN (q \o r) = 1..Len(q) + Len(r)
          /\ Len(q) \in Nat /\ Len(r) \in Nat
      OBVIOUS
    <2>2. \A i \in 1..Len(q) : (q \o r)[i] = q[i]
      OBVIOUS
    <2>3. \A i \in 1..Len(r) : (q \o r)[Len(q) + i] = r[i]
      OBVIOUS
    <2>4. \A i \in 1..Len(q) + Len(r) :
            i \in 1..Len(q) \/ \E j \in 1..Len(r) : i = Len(q) + j
      <3> SUFFICES ASSUME NEW i \in 1..Len(q) + Len(r), ~(i \in 1..Len(q))
                   PROVE  \E j \in 1..Len(r) : i = Len(q) + j
        OBVIOUS
      <3>1. i - Len(q) \in 1..Len(r) /\ i = Len(q) + (i - Len(q))
        BY <2>1
      <3>2. QED
        BY <3>1
    <2>5. /\ \A i \in 1..Len(q) : i \in 1..Len(q) + Len(r)
          /\ \A i \in 1..Len(r) : Len(q) + i \in 1..Len(q) + Len(r)
      BY <2>1
    <2>6. Elements(q \o r) \subseteq Elements(q) \cup Elements(r)
      BY <2>1, <2>2, <2>3, <2>4, SMTT(30) DEF Elements
    <2>7. Elements(q) \cup Elements(r) \subseteq Elements(q \o r)
      BY <2>1, <2>2, <2>3, <2>5 DEF Elements
    <2>8. QED
      BY <2>6, <2>7
  <1>3. ASSUME NEW q \in Seq(Task), NEW n \in Nat, n < Len(q)
        PROVE  Elements(SubSeq(q, n + 1, Len(q))) \subseteq Elements(q)
    <2>1. /\ DOMAIN SubSeq(q, n + 1, Len(q)) = 1..Len(q) - n
          /\ \A i \in 1..Len(q) - n : SubSeq(q, n + 1, Len(q))[i] = q[n + i]
          /\ \A i \in 1..Len(q) - n : n + i \in DOMAIN q
      BY <1>3
    <2>2. QED
      BY <2>1 DEF Elements
  <1>4. QED
    BY <1>1, <1>2, <1>3

-------------------------------------------------------------------------------
(***************************************************************************)
(* The steps that neither launch nor try a task.                           *)
(***************************************************************************)
Listed == UNION {Elements(runningOrdered[g]) : g \in Group}

Quiescent ==
  /\ \A a \in App : thread'[a] # thread[a] =>
       /\ thread[a].at \notin {"count", "try"}
       /\ thread'[a].at \in TaskLabels =>
            /\ thread'[a].at \in Dispatching \ {"push"} /\ thread[a].at \in Dispatching
            /\ thread'[a].task = thread[a].task
       /\ thread'[a].at \notin TaskLabels =>
            thread'[a].task = NoTask \/
            (thread'[a].task = thread[a].task /\ thread[a].at \notin TaskLabels)
  /\ \A t \in Task : state'[t] = UNINITIALIZED <=> state[t] = UNINITIALIZED
  /\ Linked' \subseteq Linked
  /\ \A g \in Group : Elements(runningOrdered'[g]) \subseteq Elements(runningOrdered[g])
  /\ thread'[Callback].at = "try" =>
       \/ thread[Callback].at = "try" /\ thread'[Callback].task = thread[Callback].task
       \/ thread'[Callback].task \in Linked \cup Listed
       \/ Made(thread'[Callback].task)

LEMMA RestTask ==
  ASSUME Types, NEW h \in Thread, Rest(h)
  PROVE  thread'[h].at = "idle" /\ thread'[h].task = NoTask
  <1>1. thread'[h] = Frame("idle", NoTask, NoGroup, "launch")
    BY DEF Rest, Idle, Types, ThreadsTyped
  <1>2. QED
    BY <1>1 DEF Frame

LEMMA AppEndsTry ==
  ASSUME Types, NEW a \in App, NEW b \in BOOLEAN, EndTry(a, b)
  PROVE  thread'[a].at = "idle" /\ thread'[a].task = NoTask
  <1>1. thread[a].via = "launch" /\ a \in Thread
    BY ThreadAssumption DEF Types, ThreadsTyped
  <1>2. Rest(a)
    BY <1>1 DEF EndTry
  <1>3. QED
    BY <1>1, <1>2, RestTask

LEMMA SmallFacts ==
  /\ Callback \in Thread /\ \A a \in App : a \in Thread /\ a # Callback
  /\ NoTask \notin Task /\ NoGroup \notin Group
  /\ \A t \in Task : GroupOf[t] \in Group
  /\ OrderedGroup \subseteq Group
  BY ThreadAssumption, GroupTaskAssumption

\* Lists that no step but those of the handler and of attempts changes.
LEMMA LinkedSame ==
  ASSUME UNCHANGED <<readyQueue, tempList, toVisit, groupSuccessors>>
  PROVE  Linked' = Linked
  BY DEF Linked

\* Thread h moves, and the others stay.
LEMMA QuietMove ==
  ASSUME NEW h \in Thread,
         \A i \in Thread : i # h => thread'[i] = thread[i],
         h \in App =>
           /\ thread[h].at \notin {"count", "try"}
           /\ thread'[h].at \in TaskLabels =>
                /\ thread'[h].at \in Dispatching \ {"push"} /\ thread[h].at \in Dispatching
                /\ thread'[h].task = thread[h].task
           /\ thread'[h].at \notin TaskLabels =>
                thread'[h].task = NoTask \/
                (thread'[h].task = thread[h].task /\ thread[h].at \notin TaskLabels),
         h = Callback /\ thread'[h].at = "try" =>
           thread'[h].task \in Linked \cup Listed \/ Made(thread'[h].task),
         \A t \in Task : state'[t] = UNINITIALIZED <=> state[t] = UNINITIALIZED,
         Linked' \subseteq Linked,
         \A g \in Group : Elements(runningOrdered'[g]) \subseteq Elements(runningOrdered[g])
  PROVE  Quiescent
  BY SmallFacts DEF Quiescent

LEMMA QuietSync ==
  ASSUME Types, Callers, NEW a \in App, Sync(a) \/ (\E g \in Group : CallSync(a, g))
  PROVE  Quiescent
  <1>0. a \in Thread /\ a # Callback
    BY SmallFacts
  <1>1. PICK L : L = {"idle", "sync", "waiting", "clearing"}
    OBVIOUS
  <1>2. Step(a, L, {}) /\ UNCHANGED <<taskVars, handlerVars, groupSuccessors, readyQueue>>
    BY <1>1, TypesSync
  <1>3. UNCHANGED <<state, readyQueue, tempList, toVisit, groupSuccessors>>
    BY <1>2 DEF taskVars, handlerVars
  <1>4. thread[a].at \in L
    BY <1>1 DEF Sync, SyncCounted, SyncWaited, SyncForgetsLast, SyncClears, CallSync,
                WaitedForAll, At
  <1>5. \A l \in L : l \notin TaskLabels
    BY <1>1 DEF TaskLabels, Dispatching
  <1>6. \A g \in Group : Elements(runningOrdered'[g]) \subseteq Elements(runningOrdered[g])
    <2>1. runningOrdered' = runningOrdered
          \/ \E g : runningOrdered' = [runningOrdered EXCEPT ![g] = <<>>]
      BY DEF Sync, SyncCounted, SyncWaited, SyncForgetsLast, SyncClears, CallSync, listVars
    <2>2. QED
      BY <2>1, ElementsOf DEF Types, GroupsTyped
  <1>7. thread'[a].task = NoTask \/ thread'[a].task = thread[a].task
    <2>1. ASSUME NEW g \in Group, CallSync(a, g) PROVE thread'[a].task = NoTask
      <3>1. thread'[a] = Frame("sync", NoTask, g, "launch")
        BY <1>0, <2>1 DEF CallSync, Types, ThreadsTyped
      <3>2. QED
        BY <3>1 DEF Frame
    <2>2. SyncClears(a) => thread'[a].task = NoTask
      BY <1>0, RestTask DEF SyncClears
    <2>3. SyncCounted(a) \/ SyncForgetsLast(a) => thread'[a].task = thread[a].task
      BY <1>0, GotoMoves, TypesGiveShape DEF SyncCounted, SyncForgetsLast
    <2>4. SyncWaited(a) => thread'[a].task = thread[a].task
      BY DEF SyncWaited
    <2>5. QED
      BY <2>1, <2>2, <2>3, <2>4 DEF Sync
  <1>8. /\ \A i \in Thread : i # a => thread'[i] = thread[i]
        /\ thread'[a].at \in L
    BY <1>2 DEF Step
  <1>9. thread[a].at \notin TaskLabels /\ thread'[a].at \notin TaskLabels
        /\ thread[a].at \notin {"count", "try"}
    BY <1>1, <1>4, <1>5, <1>8
  <1>10. QED
    BY <1>0, <1>3, <1>6, <1>7, <1>8, <1>9, LinkedSame, QuietMove

LEMMA QuietDispatch ==
  ASSUME Types, NEW h \in Thread, Dispatch(h),
         state[thread[h].task] # UNINITIALIZED
  PROVE  Quiescent
  <1>1. Step(h, (Dispatching \ {"push"}) \cup Outside, Dispatching)
    BY TypesDispatch
  <1>2. thread[h].at \in Dispatching
    BY DEF Dispatch, JoinRunning, MarkDispatched, Publish, TestAndSet, RegisterHandler, At,
           Dispatching
  <1>3. UNCHANGED <<readyQueue, tempList, toVisit, groupSuccessors, runningOrdered>>
    BY DEF Dispatch, JoinRunning, MarkDispatched, Publish, TestAndSet, RegisterHandler,
           DispatchLeavesUnchanged, handlerVars
  <1>4. \A t \in Task : state'[t] = UNINITIALIZED <=> state[t] = UNINITIALIZED
    <2>1. \/ state' = state
          \/ \E t : t = thread[h].task /\ state' = [state EXCEPT ![t] = DISPATCHED]
      BY DEF Dispatch, JoinRunning, MarkDispatched, Publish, TestAndSet, RegisterHandler
    <2>2. QED
      BY <2>1, ReadyStates DEF Types, TasksTyped
  <1>5. h \in App /\ thread'[h].at \notin Dispatching => thread'[h].task = NoTask
    <2>1. \/ \E l \in Dispatching : Goto(h, l)
          \/ EndTry(h, TRUE)
      BY DEF Dispatch, JoinRunning, MarkDispatched, Publish, TestAndSet, RegisterHandler,
             Dispatching
    <2>2. ASSUME NEW l \in Dispatching, Goto(h, l) PROVE thread'[h].at \in Dispatching
      BY <2>2, GotoMoves, TypesGiveShape DEF Moves
    <2>3. QED
      BY <2>1, <2>2, AppEndsTry
  <1>6. /\ \A i \in Thread : i # h => thread'[i] = thread[i]
        /\ thread'[h].at \in (Dispatching \ {"push"}) \cup Outside
        /\ thread'[h].at \in Dispatching => thread'[h].task = thread[h].task
    BY <1>1 DEF Step
  <1>7. h \in App =>
           /\ thread[h].at \notin {"count", "try"}
           /\ thread'[h].at \in TaskLabels =>
                /\ thread'[h].at \in Dispatching \ {"push"} /\ thread[h].at \in Dispatching
                /\ thread'[h].task = thread[h].task
           /\ thread'[h].at \notin TaskLabels => thread'[h].task = NoTask
    <2>1. "count" \notin Dispatching /\ "try" \notin Dispatching
          /\ Outside \cap Dispatching = {}
      BY DEF Dispatching, Outside
    <2>2. h \in App /\ thread'[h].at \in Outside => thread'[h].at = "idle"
      <3>1. h \in App => (EndTry(h, TRUE) => thread'[h].at = "idle")
        BY AppEndsTry
      <3>2. \/ \E l \in Dispatching : Goto(h, l)
            \/ EndTry(h, TRUE)
        BY DEF Dispatch, JoinRunning, MarkDispatched, Publish, TestAndSet, RegisterHandler,
               Dispatching
      <3>3. ASSUME NEW l \in Dispatching, Goto(h, l) PROVE thread'[h].at \in Dispatching
        BY <3>3, GotoMoves, TypesGiveShape DEF Moves
      <3>4. QED
        BY <2>1, <3>1, <3>2, <3>3
    <2>3. "idle" \notin TaskLabels /\ Dispatching \subseteq TaskLabels
      BY DEF TaskLabels, Dispatching
    <2>4. QED
      BY <1>2, <1>5, <1>6, <2>1, <2>2, <2>3
  <1>8. thread'[h].at # "try"
    BY <1>6 DEF Dispatching, Outside
  <1>9. QED
    BY <1>3, <1>4, <1>6, <1>7, <1>8, LinkedSame, QuietMove

LEMMA ReleaseMoves ==
  ASSUME Types, ReleaseTasks
  PROVE  /\ \A i \in Thread : i # Callback => thread'[i] = thread[i]
         /\ thread'[Callback].at \in {"discount", "progress"}
         /\ thread'[Callback].group = thread[Callback].group
  <1>1. PICK t : Goto(Callback, "discount") \/ Work(Callback, "progress", t, "launch")
    BY DEF ReleaseTasks
  <1>2. Moves(Callback, {"discount"}) \/ Moves(Callback, {"progress"})
    BY <1>1, SmallFacts, GotoMoves, WorkMoves, TypesGiveShape
  <1>3. /\ \A i \in Thread : i # Callback => thread'[i] = thread[i]
        /\ thread'[Callback].at \in {"discount", "progress"}
    BY <1>2 DEF Moves, Types, ThreadsTyped
  <1>4. thread'[Callback].group = thread[Callback].group
    <2>1. CASE Goto(Callback, "discount")
      BY <2>1, SmallFacts, GotoMoves, TypesGiveShape
    <2>2. CASE Work(Callback, "progress", t, "launch")
      <3>1. thread'[Callback] = Frame("progress", t, thread[Callback].group, "launch")
        BY <2>2, SmallFacts DEF Work, Types, ThreadsTyped
      <3>2. QED
        BY <3>1 DEF Frame
    <2>3. QED
      BY <1>1, <2>1, <2>2
  <1>5. QED
    BY <1>3, <1>4

LEMMA QuietProgress ==
  ASSUME Types, DoProgress \/ TakeFront \/ PopReady
  PROVE  Quiescent
  <1>0. Callback \in Thread /\ Callback \notin App
    BY SmallFacts
  <1>1. /\ Step(Callback, Outside \cup {"try"}, {"front"})
        /\ UNCHANGED <<taskVars, listVars, groupSuccessors>>
    BY TypesProgress
  <1>2. UNCHANGED <<state, runningOrdered, groupSuccessors, tempList, toVisit>>
    BY <1>1 DEF taskVars, listVars, DoProgress, TakeFront, PopReady, ProgressLeavesUnchanged
  <1>3. Linked' \subseteq Linked
    <2>1. readyQueue' = readyQueue \/ (readyQueue # <<>> /\ readyQueue' = Tail(readyQueue))
      BY DEF DoProgress, TakeFront, PopReady
    <2>2. Elements(readyQueue') \subseteq Elements(readyQueue)
      BY <2>1, ElementsMore DEF Types, ListsTyped
    <2>3. QED
      BY <1>2, <2>2 DEF Linked
  <1>4. thread'[Callback].at = "try" =>
          thread'[Callback].task \in Linked \cup Listed \/ Made(thread'[Callback].task)
    <2>0. ASSUME EndProgress PROVE thread'[Callback].at # "try"
      BY <2>0, ProgressMoves, TypesGiveShape DEF Moves, Outside
    <2>1. CASE DoProgress
      <3>1. Goto(Callback, "front") \/ Goto(Callback, "pop")
        BY <2>1 DEF DoProgress
      <3>2. QED
        BY <1>0, <3>1, GotoMoves, TypesGiveShape DEF Moves
    <2>2. CASE TakeFront
      <3>1. PICK g \in Group : g = GroupOf[thread[Callback].task]
        BY <1>0, <2>2, TaskInHand DEF TakeFront, At, TaskLabels
      <3>2. EndProgress \/ \E t \in Fronts(g) : t # NoTask /\ Work(Callback, "try", t, "front")
        BY <2>2, <3>1 DEF TakeFront
      <3>3. ASSUME NEW t \in Fronts(g), t # NoTask, Work(Callback, "try", t, "front")
            PROVE  thread'[Callback].task = t /\ (t \in Listed \/ Made(t))
        <4>1. thread'[Callback] = Frame("try", t, thread[Callback].group, "front")
          BY <1>0, <3>3 DEF Work, Types, ThreadsTyped
        <4>2. t \in Listed \/ Made(t)
          BY <3>3, FrontsMade DEF Listed
        <4>3. QED
          BY <4>1, <4>2 DEF Frame
      <3>4. QED
        BY <2>0, <3>2, <3>3
    <2>3. CASE PopReady
      <3>1. PICK q \in Seq(Task) : q = readyQueue
        BY DEF Types, ListsTyped
      <3>2. EndProgress \/ (q # <<>> /\ Work(Callback, "try", Head(q), "pop"))
        BY <2>3, <3>1 DEF PopReady
      <3>3. q # <<>> => Head(q) \in Linked
        BY <3>1, ElementsMore DEF Linked
      <3>4. ASSUME Work(Callback, "try", Head(q), "pop") PROVE thread'[Callback].task = Head(q)
        <4>1. thread'[Callback] = Frame("try", Head(q), thread[Callback].group, "pop")
          BY <1>0, <3>4 DEF Work, Types, ThreadsTyped
        <4>2. QED
          BY <4>1 DEF Frame
      <3>5. QED
        BY <2>0, <3>2, <3>3, <3>4
    <2>4. QED
      BY <2>1, <2>2, <2>3
  <1>5. \A i \in Thread : i # Callback => thread'[i] = thread[i]
    BY <1>1 DEF Step
  <1>6. QED
    BY <1>0, <1>2, <1>3, <1>4, <1>5, QuietMove

LEMMA QuietFinish ==
  ASSUME Types,
         DiscountTasks \/ LoadCount \/ ClearSuccessors \/ BeginVisits \/ VisitSuccessor
         \/ PushReady
  PROVE  Quiescent
  <1>0. Callback \in Thread /\ Callback \notin App
    BY SmallFacts
  <1>1. PICK L : L = {"idle", "load", "clear", "visit", "unlink", "progress"}
    OBVIOUS
  <1>2. Step(Callback, L, {}) /\ UNCHANGED <<state, listVars>>
    BY <1>1, TypesFinish
  <1>3. UNCHANGED <<state, runningOrdered>>
    BY <1>2 DEF listVars
  <1>4. PICK d \in Group : d = thread[Callback].group
    <2>1. thread[Callback].at \in GroupLabels
      BY DEF DiscountTasks, LoadCount, ClearSuccessors, BeginVisits, VisitSuccessor, PushReady,
             At, GroupLabels
    <2>2. QED
      BY <1>0, <2>1, GroupInHand
  <1>5. Linked' \subseteq Linked
    <2>1. CASE DiscountTasks \/ LoadCount
      BY <2>1, LinkedSame DEF DiscountTasks, LoadCount, handlerVars
    <2>2. CASE ClearSuccessors
      <3>1. /\ groupSuccessors' = [groupSuccessors EXCEPT ![d] = <<>>]
            /\ UNCHANGED <<readyQueue, tempList, toVisit>>
        BY <1>4, <2>2 DEF ClearSuccessors, handlerVars
      <3>2. \A g \in Group : Elements(groupSuccessors'[g]) \subseteq Elements(groupSuccessors[g])
        BY <3>1, ElementsOf DEF Types, GroupsTyped
      <3>3. QED
        BY <3>1, <3>2 DEF Linked
    <2>3. CASE BeginVisits
      <3>1. /\ toVisit' = groupSuccessors[d]
            /\ UNCHANGED <<readyQueue, tempList, groupSuccessors>>
        BY <1>4, <2>3 DEF BeginVisits
      <3>2. QED
        BY <3>1 DEF Linked
    <2>4. CASE VisitSuccessor
      <3>1. PICK q \in Seq(Task), r \in Seq(Task) : q = toVisit /\ r = tempList
        BY DEF Types, ListsTyped
      <3>2. /\ q # <<>> /\ toVisit' = Tail(q)
            /\ tempList' = Append(r, Head(q)) \/ tempList' = r
            /\ UNCHANGED <<readyQueue, groupSuccessors>>
        BY <2>4, <3>1 DEF VisitSuccessor
      <3>3. Head(q) \in Elements(q) /\ Elements(Tail(q)) \subseteq Elements(q)
        BY <3>2, ElementsMore
      <3>4. Elements(tempList') \subseteq Elements(r) \cup Elements(q)
        <4>1. Head(q) \in Task
          BY <3>2, SequenceTypes
        <4>2. Elements(Append(r, Head(q))) = Elements(r) \cup {Head(q)}
          BY <4>1, ElementsOf
        <4>3. QED
          BY <3>2, <3>3, <4>2
      <3>5. QED
        BY <3>1, <3>2, <3>3, <3>4 DEF Linked
    <2>5. CASE PushReady
      <3>1. PICK q \in Seq(Task), r \in Seq(Task) : q = readyQueue /\ r = tempList
        BY DEF Types, ListsTyped
      <3>2. /\ readyQueue' = q \o r /\ tempList' = <<>>
            /\ UNCHANGED <<toVisit, groupSuccessors>>
        BY <2>5, <3>1 DEF PushReady
      <3>3. Elements(readyQueue') \subseteq Elements(q) \cup Elements(r) /\ Elements(tempList') = {}
        BY <3>2, ElementsMore, ElementsOf
      <3>4. QED
        BY <3>1, <3>2, <3>3 DEF Linked
    <2>6. QED
      BY <2>1, <2>2, <2>3, <2>4, <2>5
  <1>6. thread'[Callback].at # "try" /\ \A i \in Thread : i # Callback => thread'[i] = thread[i]
    BY <1>1, <1>2 DEF Step
  <1>7. QED
    BY <1>0, <1>3, <1>5, <1>6, QuietMove

\* The handler takes the running tasks and completes them; a device works.
LEMMA QuietHandler ==
  ASSUME OwnersInv,
         \/ \E g \in Group : HandleGroupSignal(g)
         \/ LockGroup \/ TakeRunning \/ ReleaseTasks
         \/ \E t \in Task : CompletePacket(t)
  PROVE  Quiescent
  <1>0. Types /\ Callback \in Thread /\ Callback \notin App
    BY SmallFacts DEF OwnersInv
  <1>1. UNCHANGED <<readyQueue, groupSuccessors, tempList, toVisit>>
    BY DEF HandleGroupSignal, LockGroup, TakeRunning, ReleaseTasks, CompletePacket, handlerVars
  <1>2. Linked' \subseteq Linked
    BY <1>1, LinkedSame
  <1>3. CASE ReleaseTasks
    <2>1. \A t \in Elements(groupTasks) : t \in Task => state[t] # UNINITIALIZED
      BY <1>3, ReadyStates DEF ReleaseTasks, OwnersInv, RunningUnfinished, Running
    <2>2. \A t \in Task : state'[t] = UNINITIALIZED <=> state[t] = UNINITIALIZED
      BY <1>3, <2>1, ReadyStates DEF ReleaseTasks
    <2>3. UNCHANGED runningOrdered
      BY <1>3 DEF ReleaseTasks, listVars
    <2>4. /\ \A i \in Thread : i # Callback => thread'[i] = thread[i]
          /\ thread'[Callback].at # "try"
      BY <1>0, <1>3, ReleaseMoves
    <2>5. QED
      BY <1>0, <1>2, <2>2, <2>3, <2>4, QuietMove
  <1>4. CASE (\E g \in Group : HandleGroupSignal(g)) \/ LockGroup \/ TakeRunning
    <2>1. UNCHANGED state
      BY <1>4 DEF HandleGroupSignal, LockGroup, TakeRunning, taskVars
    <2>2. Step(Callback, {"enter", "drain", "release"}, {})
      BY <1>0, <1>4, TypesTake
    <2>3. \A g \in Group : Elements(runningOrdered'[g]) \subseteq Elements(runningOrdered[g])
      <3>1. CASE (\E g \in Group : HandleGroupSignal(g)) \/ LockGroup
        BY <3>1 DEF HandleGroupSignal, LockGroup, listVars
      <3>2. CASE TakeRunning
        <4>1. PICK d \in Group : d = thread[Callback].group
          BY <1>0, <3>2, GroupInHand DEF TakeRunning, At, GroupLabels
        <4>2. PICK q \in Seq(Task), n \in Nat : q = runningOrdered[d] /\ n = Len(runningGroupable[d])
          BY <1>0, SequenceTypes DEF Types, GroupsTyped
        <4>3. \/ runningOrdered' = runningOrdered
              \/ runningOrdered' = [runningOrdered EXCEPT ![d] =
                                      IF n < Len(q) THEN SubSeq(q, n + 1, Len(q)) ELSE <<>>]
          BY <3>2, <4>1, <4>2 DEF TakeRunning
        <4>4. PICK r : r = IF n < Len(q) THEN SubSeq(q, n + 1, Len(q)) ELSE <<>>
          OBVIOUS
        <4>5. Elements(r) \subseteq Elements(q)
          BY <4>4, ElementsMore, ElementsOf
        <4>6. runningOrdered' = runningOrdered \/ runningOrdered' = [runningOrdered EXCEPT ![d] = r]
          BY <4>3, <4>4
        <4>7. QED
          BY <1>0, <4>2, <4>5, <4>6 DEF Types, GroupsTyped
      <3>3. QED
        BY <1>4, <3>1, <3>2
    <2>4. QED
      BY <1>0, <1>2, <2>1, <2>2, <2>3, QuietMove DEF Step
  <1>5. CASE \E t \in Task : CompletePacket(t)
    <2>1. UNCHANGED <<state, thread, runningOrdered>>
      BY <1>5 DEF CompletePacket, taskVars, listVars
    <2>2. QED
      BY <1>0, <1>2, <2>1 DEF Quiescent
  <1>6. QED
    BY <1>3, <1>4, <1>5

\* A step launches a task, counts it, tries one, or is quiet.
LEMMA QuietSteps ==
  ASSUME OwnersInv, [Next]_vars
  PROVE  \/ Quiescent
         \/ \E a \in App : CountTask(a) \/ Launch(a)
         \/ \E h \in Thread : TryDispatch(h)
  <1>0. /\ Types /\ Callers
        /\ Callback \in Thread /\ \A a \in App : a \in Thread
    BY SmallFacts DEF OwnersInv
  <1>1. ASSUME NEW h \in Thread, Dispatch(h) PROVE Quiescent
    <2>1. thread[h].at \in Dispatching
      BY <1>1 DEF Dispatch, JoinRunning, MarkDispatched, Publish, TestAndSet, RegisterHandler,
                  At, Dispatching
    <2>2. state[thread[h].task] # UNINITIALIZED
      BY <2>1, ReadyStates DEF OwnersInv, DispatchersApart
    <2>3. QED
      BY <1>0, <1>1, <2>2, QuietDispatch
  <1>2. CASE \E a \in App : Launch(a) \/ (\E g \in Group : CallSync(a, g)) \/ AppStep(a)
    BY <1>0, <1>1, <1>2, QuietSync DEF AppStep
  <1>3. CASE Handler
    BY <1>0, <1>1, <1>3, QuietProgress, QuietFinish, QuietHandler DEF Handler
  <1>4. CASE Device
    BY <1>4, QuietHandler DEF Device
  <1>5. CASE UNCHANGED vars
    <2>1. UNCHANGED <<thread, state, runningOrdered, readyQueue, tempList, toVisit,
                      groupSuccessors>>
      BY <1>5 DEF vars, taskVars, listVars, handlerVars
    <2>2. QED
      BY <2>1, LinkedSame DEF Quiescent
  <1>6. QED
    BY <1>2, <1>3, <1>4, <1>5 DEF Next

-------------------------------------------------------------------------------
(***************************************************************************)
(* The invariant of launching holds.  Only its constructor makes a task.   *)
(***************************************************************************)
MadeSame == \A t \in Task : Made(t)' <=> Made(t)

MadeMore(u) == \A t \in Task : Made(t)' <=> Made(t) \/ t = u

LEMMA LinkedTasks ==
  ASSUME Types
  PROVE  Linked \subseteq Task /\ Listed \subseteq Task
  BY ElementsOf DEF Types, GroupsTyped, ListsTyped, Linked, Listed

LEMMA LaunchQuiet ==
  ASSUME OwnersInv, LaunchInv, Types', Quiescent
  PROVE  LaunchInv' /\ MadeSame
  <1>0. Types
    BY DEF OwnersInv
  <1>1. MadeSame
    <2> SUFFICES ASSUME NEW t \in Task PROVE Made(t)' <=> Made(t)
      BY DEF MadeSame
    <2>1. PICK a \in App : a = Launcher(t)
      BY LauncherFacts
    <2>2. \/ thread'[a] = thread[a]
          \/ thread[a].at \notin {"count", "try"} /\ thread'[a].at \notin {"count", "try"}
      BY DEF Quiescent, Dispatching, TaskLabels
    <2>3. state'[t] = UNINITIALIZED <=> state[t] = UNINITIALIZED
      BY DEF Quiescent
    <2>4. QED
      BY <2>1, <2>2, <2>3 DEF Made
  <1>2. LaunchersOwn'
    <2> SUFFICES ASSUME NEW a \in App
                 PROVE  /\ thread'[a].at \in TaskLabels => Launcher(thread'[a].task) = a
                        /\ thread'[a].at \notin TaskLabels => thread'[a].task = NoTask
      BY DEF LaunchersOwn
    <2>1. /\ thread[a].at \in TaskLabels => Launcher(thread[a].task) = a
          /\ thread[a].at \notin TaskLabels => thread[a].task = NoTask
      BY DEF LaunchInv, LaunchersOwn
    <2>2. QED
      BY <2>1 DEF Quiescent, TaskLabels
  <1>3. LaunchedInOrder'
    BY <1>1 DEF LaunchInv, LaunchedInOrder, MadeSame, Quiescent
  <1>4. LinkedTried'
    BY <1>0, LinkedTasks DEF LaunchInv, LinkedTried, Quiescent
  <1>5. ListedMade'
    <2> SUFFICES ASSUME NEW g \in Group, NEW t \in Elements(runningOrdered'[g])
                 PROVE  GroupOf[t] = g /\ g \in OrderedGroup /\ Made(t)'
      BY DEF ListedMade
    <2>1. t \in Elements(runningOrdered[g])
      BY DEF Quiescent
    <2>2. t \in Task /\ GroupOf[t] = g /\ g \in OrderedGroup /\ Made(t)
      BY <1>0, <2>1, LinkedTasks DEF LaunchInv, ListedMade, Listed
    <2>3. QED
      BY <1>1, <2>2 DEF MadeSame
  <1>6. HandlerTriesMade'
    <2> SUFFICES ASSUME thread'[Callback].at = "try", NEW u \in Task, u = thread'[Callback].task
                 PROVE  Made(u)'
      BY SmallFacts DEF HandlerTriesMade, At, Types, ThreadsTyped, Control, TaskLabels
    <2>1. CASE thread[Callback].at = "try" /\ thread'[Callback].task = thread[Callback].task
      BY <1>1, <2>1 DEF LaunchInv, HandlerTriesMade, At, MadeSame
    <2>2. CASE u \in Linked \cup Listed
      <3>1. Made(u)
        BY <2>2 DEF LaunchInv, LinkedTried, ListedMade, Listed, Made
      <3>2. QED
        BY <1>1, <3>1 DEF MadeSame
    <2>3. CASE Made(u)
      BY <1>1, <2>3 DEF MadeSame
    <2>4. QED
      BY <2>1, <2>2, <2>3 DEF Quiescent
  <1>7. QED
    BY <1>1, <1>2, <1>3, <1>4, <1>5, <1>6 DEF LaunchInv

LEMMA MoveBy ==
  ASSUME NEW h \in Thread, NEW L, NEW K, Step(h, L, K)
  PROVE  /\ \A i \in Thread : i # h => thread'[i] = thread[i]
         /\ thread'[h].at \in L
         /\ thread'[h].at \in K => thread'[h].task = thread[h].task
  BY DEF Step

\* The constructor.
LEMMA LaunchConstruct ==
  ASSUME OwnersInv, LaunchInv, NEW a \in App, NEW t \in Task, Construct(a, t)
  PROVE  LaunchInv' /\ MadeMore(t) /\ ~Made(t) /\ Launcher(t) = a
  <1>0. Types /\ a \in Thread /\ a # Callback /\ Callback \in Thread
    BY SmallFacts DEF OwnersInv
  <1>1. Step(a, {"count"}, {}) /\ thread'[a].task = t /\ Types'
    BY <1>0, TypesConstruct
  <1>2. /\ \A i \in Thread : i # a => thread'[i] = thread[i]
        /\ thread'[a].at = "count" /\ thread'[a].task = t
    BY <1>0, <1>1, MoveBy
  <1>3. /\ Launcher(t) = a /\ state[t] = UNINITIALIZED
        /\ \A u \in Task : Earlier(u, t) => state[u] # UNINITIALIZED
    BY LaunchedNext DEF Construct
  <1>4. /\ thread[a].at = "idle"
        /\ UNCHANGED <<state, readyQueue, groupSuccessors, tempList, toVisit>>
    BY DEF Construct, At, handlerVars
  <1>5. PICK g \in Group : g = GroupOf[t]
    BY SmallFacts
  <1>6. \/ runningOrdered' = runningOrdered
        \/ runningOrdered' = [runningOrdered EXCEPT ![g] = Append(@, t)] /\ g \in OrderedGroup
    BY <1>5 DEF Construct, Ordered
  <1>7. ~Made(t)
    BY <1>3, <1>4 DEF Made
  <1>8. MadeMore(t)
    <2> SUFFICES ASSUME NEW u \in Task PROVE Made(u)' <=> Made(u) \/ u = t
      BY DEF MadeMore
    <2>1. PICK b \in App : b = Launcher(u)
      BY LauncherFacts
    <2>2. CASE b # a
      <3>1. thread'[b] = thread[b] /\ u # t
        BY <1>2, <1>3, <2>1, <2>2, SmallFacts
      <3>2. QED
        BY <1>4, <2>1, <3>1 DEF Made
    <2>3. CASE b = a
      BY <1>2, <1>4, <2>1, <2>3 DEF Made
    <2>4. QED
      BY <2>2, <2>3
  <1>9. LaunchersOwn'
    <2>1. \A b \in App : b # a => thread'[b] = thread[b]
      BY <1>2, SmallFacts
    <2>2. "count" \in TaskLabels
      BY DEF TaskLabels
    <2>3. QED
      BY <1>2, <1>3, <2>1, <2>2 DEF LaunchInv, LaunchersOwn
  <1>10. LaunchedInOrder'
    <2> SUFFICES ASSUME NEW u \in Task, NEW v \in Task, Earlier(u, v), Made(v)'
                 PROVE  state'[u] # UNINITIALIZED
      BY DEF LaunchedInOrder
    <2>1. Made(v) \/ v = t
      BY <1>8 DEF MadeMore
    <2>2. QED
      BY <1>3, <1>4, <2>1 DEF LaunchInv, LaunchedInOrder
  <1>11. LinkedTried'
    <2>1. Linked' = Linked
      BY <1>4, LinkedSame
    <2>2. QED
      BY <1>4, <2>1 DEF LaunchInv, LinkedTried
  <1>12. ListedMade'
    <2> SUFFICES ASSUME NEW k \in Group, NEW u \in Elements(runningOrdered'[k])
                 PROVE  GroupOf[u] = k /\ k \in OrderedGroup /\ Made(u)'
      BY DEF ListedMade
    <2>1. u \in Elements(runningOrdered[k]) \/ (u = t /\ k = g /\ g \in OrderedGroup)
      <3>1. runningOrdered[k] \in Seq(Task) /\ runningOrdered \in [Group -> Seq(Task)]
        BY <1>0 DEF Types, GroupsTyped
      <3>2. CASE runningOrdered' = runningOrdered
        BY <3>2
      <3>3. CASE runningOrdered' = [runningOrdered EXCEPT ![g] = Append(@, t)] /\ g \in OrderedGroup
        <4>1. runningOrdered'[k] = IF k = g THEN Append(runningOrdered[k], t) ELSE runningOrdered[k]
          BY <3>1, <3>3
        <4>2. Elements(Append(runningOrdered[k], t)) = Elements(runningOrdered[k]) \cup {t}
          BY <3>1, ElementsOf
        <4>3. QED
          BY <3>3, <4>1, <4>2
      <3>4. QED
        BY <1>6, <3>2, <3>3
    <2>2. u \in Elements(runningOrdered[k]) => u \in Task
      BY <1>0, LinkedTasks DEF Listed
    <2>3. QED
      BY <1>5, <1>8, <2>1, <2>2 DEF LaunchInv, ListedMade, MadeMore
  <1>13. HandlerTriesMade'
    <2>1. thread'[Callback] = thread[Callback]
      BY <1>0, <1>2
    <2>2. thread[Callback].at = "try" => thread[Callback].task \in Task
      BY <1>0, TaskInHand DEF TaskLabels
    <2>3. QED
      BY <1>8, <2>1, <2>2 DEF LaunchInv, HandlerTriesMade, At, MadeMore
  <1>14. QED
    BY <1>3, <1>7, <1>8, <1>9, <1>10, <1>11, <1>12, <1>13 DEF LaunchInv

LEMMA LaunchCount ==
  ASSUME OwnersInv, LaunchInv, NEW a \in App, CountTask(a)
  PROVE  LaunchInv' /\ MadeSame
  <1>0. Types /\ a \in Thread /\ a # Callback /\ Callback \in Thread
    BY SmallFacts DEF OwnersInv
  <1>1. Step(a, {"try"}, {"try"})
    BY <1>0, TypesCount
  <1>2. /\ \A i \in Thread : i # a => thread'[i] = thread[i]
        /\ thread'[a].at = "try" /\ thread'[a].task = thread[a].task
    BY <1>0, <1>1, MoveBy
  <1>3. /\ thread[a].at = "count"
        /\ UNCHANGED <<state, readyQueue, groupSuccessors, tempList, toVisit, runningOrdered>>
    BY DEF CountTask, At, handlerVars, taskVars, listVars
  <1>4. MadeSame
    <2> SUFFICES ASSUME NEW u \in Task PROVE Made(u)' <=> Made(u)
      BY DEF MadeSame
    <2>1. PICK b \in App : b = Launcher(u)
      BY LauncherFacts
    <2>2. \/ thread'[b] = thread[b]
          \/ /\ thread[b].at = "count" /\ thread'[b].at = "try"
             /\ thread'[b].task = thread[b].task
      BY <1>2, <1>3, SmallFacts
    <2>3. QED
      BY <1>3, <2>1, <2>2 DEF Made
  <1>5. LaunchersOwn'
    <2>1. \A b \in App : b # a => thread'[b] = thread[b]
      BY <1>2, SmallFacts
    <2>2. "count" \in TaskLabels /\ "try" \in TaskLabels
      BY DEF TaskLabels
    <2>3. QED
      BY <1>2, <1>3, <2>1, <2>2 DEF LaunchInv, LaunchersOwn
  <1>6. LaunchedInOrder'
    BY <1>3, <1>4 DEF LaunchInv, LaunchedInOrder, MadeSame
  <1>7. LinkedTried'
    BY <1>3, LinkedSame DEF LaunchInv, LinkedTried
  <1>8. ListedMade'
    <2> SUFFICES ASSUME NEW k \in Group, NEW u \in Elements(runningOrdered[k])
                 PROVE  GroupOf[u] = k /\ k \in OrderedGroup /\ Made(u)'
      BY <1>3 DEF ListedMade
    <2>1. u \in Task
      BY <1>0, LinkedTasks DEF Listed
    <2>2. QED
      BY <1>4, <2>1 DEF LaunchInv, ListedMade, MadeSame
  <1>9. HandlerTriesMade'
    <2>1. thread'[Callback] = thread[Callback]
      BY <1>0, <1>2
    <2>2. thread[Callback].at = "try" => thread[Callback].task \in Task
      BY <1>0, TaskInHand DEF TaskLabels
    <2>3. QED
      BY <1>4, <2>1, <2>2 DEF LaunchInv, HandlerTriesMade, At, MadeSame
  <1>10. QED
    BY <1>4, <1>5, <1>6, <1>7, <1>8, <1>9 DEF LaunchInv

\* What an attempt does to the task t in hand.
LEMMA TryEffect ==
  ASSUME OwnersInv, NEW h \in Thread, TryDispatch(h)
  PROVE  \E t \in Task :
           /\ t = thread[h].task /\ thread[h].at = "try"
           /\ \A i \in Thread : i # h => thread'[i] = thread[i]
           /\ thread'[h].at \in Outside \cup {"push"}
           /\ thread'[h].at = "push" => TryAcquires(h) /\ thread'[h].task = t
           /\ h \in App /\ thread'[h].at # "push" =>
                thread'[h].at = "idle" /\ thread'[h].task = NoTask
           /\ state'[t] # UNINITIALIZED
           /\ \A u \in Task : u # t => state'[u] = state[u]
           /\ Linked' \subseteq Linked \cup {t}
           /\ \A g \in Group : Elements(runningOrdered'[g]) \subseteq Elements(runningOrdered[g])
  <1>0. Types
    BY DEF OwnersInv
  <1>1. thread[h].at = "try"
    BY DEF TryDispatch, TryWaitsForGroup, TryWaitsForPrevious, TryLacksResources, TryTaken,
           TryAcquires, KeepForLater, At
  <1>2. PICK t \in Task : t = thread[h].task
    BY <1>0, <1>1, TaskInHand DEF TaskLabels
  <1>3. /\ state'[t] # UNINITIALIZED
        /\ \A u \in Task : u # t => state'[u] = state[u]
    <2>1. \/ state' = [state EXCEPT ![t] = INITIALIZED]
          \/ state' = state /\ state[t] >= READY
          \/ state' = [state EXCEPT ![t] = READY]
      BY <1>2 DEF TryDispatch, TryWaitsForGroup, TryWaitsForPrevious, TryLacksResources,
                  TryTaken, TryAcquires, KeepForLater
    <2>2. QED
      BY <1>0, <2>1, ReadyStates DEF Types, TasksTyped
  <1>4. UNCHANGED <<tempList, toVisit>>
    <2>1. TryLeavesUnchanged
      BY DEF TryDispatch, TryWaitsForGroup, TryWaitsForPrevious, TryLacksResources, TryTaken,
             TryAcquires, KeepForLater
    <2>2. QED
      BY <2>1 DEF TryLeavesUnchanged, handlerVars
  <1>5. Linked' \subseteq Linked \cup {t}
    <2>1. Elements(readyQueue') \subseteq Elements(readyQueue) \cup {t}
      <3>1. readyQueue' = readyQueue \/ readyQueue' = Append(readyQueue, t)
        BY <1>2 DEF TryDispatch, TryWaitsForGroup, TryWaitsForPrevious, TryLacksResources,
                    TryTaken, TryAcquires
      <3>2. QED
        BY <1>0, <3>1, ElementsOf DEF Types, ListsTyped
    <2>2. \A g \in Group :
            Elements(groupSuccessors'[g]) \subseteq Elements(groupSuccessors[g]) \cup {t}
      <3>1. ASSUME NEW g \in Group
            PROVE  groupSuccessors'[g] = groupSuccessors[g]
                   \/ groupSuccessors'[g] = Append(groupSuccessors[g], t)
        BY <1>2, <3>1 DEF TryDispatch, TryWaitsForGroup, TryWaitsForPrevious,
                          TryLacksResources, TryTaken, TryAcquires
      <3>2. \A g \in Group : groupSuccessors[g] \in Seq(Task)
        BY <1>0 DEF Types, GroupsTyped
      <3>3. QED
        BY <3>1, <3>2, ElementsOf
    <2>3. QED
      BY <1>4, <2>1, <2>2 DEF Linked
  <1>6. \A g \in Group : Elements(runningOrdered'[g]) \subseteq Elements(runningOrdered[g])
    <2>1. PICK d \in Group : d = GroupOf[t]
      BY SmallFacts
    <2>2. runningOrdered' = runningOrdered \/ PopFront(d)
      BY <1>2, <2>1 DEF TryDispatch, TryWaitsForGroup, TryWaitsForPrevious, TryLacksResources,
                        TryTaken, TryAcquires, KeepForLater
    <2>3. \/ runningOrdered' = runningOrdered
          \/ /\ runningOrdered[d] # <<>>
             /\ runningOrdered' = [runningOrdered EXCEPT ![d] = Tail(@)]
      BY <2>2 DEF PopFront
    <2>4. runningOrdered \in [Group -> Seq(Task)]
      BY <1>0 DEF Types, GroupsTyped
    <2>5. runningOrdered[d] # <<>> =>
            Elements(Tail(runningOrdered[d])) \subseteq Elements(runningOrdered[d])
      BY <2>4, ElementsMore
    <2>6. QED
      BY <2>3, <2>4, <2>5
  <1>7. CASE TryAcquires(h)
    <2>1. Step(h, {"push"}, {"push"})
      BY <1>0, <1>7, TypesAcquire
    <2>2. QED
      BY <1>1, <1>2, <1>3, <1>5, <1>6, <1>7, <2>1, MoveBy
  <1>8. CASE ~TryAcquires(h)
    <2>1. Step(h, Outside, {})
      BY <1>0, <1>8, TypesTry DEF TryDispatch
    <2>2. EndTry(h, FALSE)
      BY <1>8 DEF TryDispatch, TryWaitsForGroup, TryWaitsForPrevious, TryLacksResources,
                  TryTaken, KeepForLater
    <2>3. h \in App => thread'[h].at = "idle" /\ thread'[h].task = NoTask
      BY <1>0, <2>2, AppEndsTry
    <2>4. thread'[h].at # "push"
      BY <2>1, MoveBy DEF Outside
    <2>5. QED
      BY <1>1, <1>2, <1>3, <1>5, <1>6, <2>1, <2>3, <2>4, MoveBy
  <1>9. QED
    BY <1>7, <1>8

LEMMA LaunchTry ==
  ASSUME OwnersInv, LaunchInv, NEW h \in Thread, TryDispatch(h), Types'
  PROVE  LaunchInv' /\ MadeSame
  <1>0. Types
    BY DEF OwnersInv
  <1>1. PICK t \in Task :
           /\ t = thread[h].task /\ thread[h].at = "try"
           /\ \A i \in Thread : i # h => thread'[i] = thread[i]
           /\ thread'[h].at \in Outside \cup {"push"}
           /\ thread'[h].at = "push" => TryAcquires(h) /\ thread'[h].task = t
           /\ h \in App /\ thread'[h].at # "push" =>
                thread'[h].at = "idle" /\ thread'[h].task = NoTask
           /\ state'[t] # UNINITIALIZED
           /\ \A u \in Task : u # t => state'[u] = state[u]
           /\ Linked' \subseteq Linked \cup {t}
           /\ \A g \in Group : Elements(runningOrdered'[g]) \subseteq Elements(runningOrdered[g])
    BY TryEffect
  <1>2. Made(t)
    <2>1. CASE h = Callback
      BY <1>1, <2>1 DEF LaunchInv, HandlerTriesMade, At
    <2>2. CASE h \in App
      <3>1. Launcher(t) = h
        BY <1>1, <2>2 DEF LaunchInv, LaunchersOwn, TaskLabels
      <3>2. QED
        BY <1>1, <3>1 DEF Made
    <2>3. QED
      BY <2>1, <2>2 DEF Thread
  <1>3. MadeSame
    <2> SUFFICES ASSUME NEW u \in Task PROVE Made(u)' <=> Made(u)
      BY DEF MadeSame
    <2>1. CASE u = t
      BY <1>1, <1>2, <2>1 DEF Made
    <2>2. CASE u # t
      <3>1. PICK a \in App : a = Launcher(u)
        BY LauncherFacts
      <3>2. \/ thread'[a] = thread[a]
            \/ /\ thread[a].task # u
               /\ thread'[a].at \notin {"count", "try"}
        BY <1>1, <2>2, SmallFacts DEF Outside
      <3>3. state'[u] = state[u]
        BY <1>1, <2>2
      <3>4. QED
        BY <3>1, <3>2, <3>3 DEF Made
    <2>3. QED
      BY <2>1, <2>2
  <1>4. LaunchersOwn'
    <2> SUFFICES ASSUME NEW a \in App
                 PROVE  /\ thread'[a].at \in TaskLabels => Launcher(thread'[a].task) = a
                        /\ thread'[a].at \notin TaskLabels => thread'[a].task = NoTask
      BY DEF LaunchersOwn
    <2>1. /\ thread[a].at \in TaskLabels => Launcher(thread[a].task) = a
          /\ thread[a].at \notin TaskLabels => thread[a].task = NoTask
      BY DEF LaunchInv, LaunchersOwn
    <2>2. "try" \in TaskLabels /\ "push" \in TaskLabels /\ "idle" \notin TaskLabels
      BY DEF TaskLabels, Dispatching
    <2>3. CASE h = a
      BY <1>1, <2>1, <2>2, <2>3
    <2>4. CASE h # a
      BY <1>1, <2>1, <2>4, SmallFacts
    <2>5. QED
      BY <2>3, <2>4
  <1>5. LaunchedInOrder'
    <2> SUFFICES ASSUME NEW u \in Task, NEW v \in Task, Earlier(u, v), Made(v)'
                 PROVE  state'[u] # UNINITIALIZED
      BY DEF LaunchedInOrder
    <2>1. state[u] # UNINITIALIZED
      BY <1>3 DEF LaunchInv, LaunchedInOrder, MadeSame
    <2>2. QED
      BY <1>1, <2>1
  <1>6. LinkedTried'
    <2> SUFFICES ASSUME NEW u \in Linked' PROVE state'[u] # UNINITIALIZED
      BY DEF LinkedTried
    <2>1. u \in Linked \/ u = t
      BY <1>1
    <2>2. u \in Linked => u \in Task /\ state[u] # UNINITIALIZED
      BY <1>0, LinkedTasks DEF LaunchInv, LinkedTried
    <2>3. QED
      BY <1>1, <2>1, <2>2
  <1>7. ListedMade'
    <2> SUFFICES ASSUME NEW k \in Group, NEW u \in Elements(runningOrdered'[k])
                 PROVE  GroupOf[u] = k /\ k \in OrderedGroup /\ Made(u)'
      BY DEF ListedMade
    <2>1. u \in Elements(runningOrdered[k])
      BY <1>1
    <2>2. u \in Task
      BY <1>0, <2>1, LinkedTasks DEF Listed
    <2>3. QED
      BY <1>3, <2>1, <2>2 DEF LaunchInv, ListedMade, MadeSame
  <1>8. HandlerTriesMade'
    <2>1. CASE h = Callback
      BY <1>1, <2>1 DEF HandlerTriesMade, At, Outside
    <2>2. CASE h # Callback
      <3>1. thread'[Callback] = thread[Callback]
        BY <1>1, <2>2, SmallFacts
      <3>2. thread[Callback].at = "try" => thread[Callback].task \in Task
        BY <1>0, TaskInHand, SmallFacts DEF TaskLabels
      <3>3. QED
        BY <1>3, <3>1, <3>2 DEF LaunchInv, HandlerTriesMade, At, MadeSame
    <2>3. QED
      BY <2>1, <2>2
  <1>9. QED
    BY <1>3, <1>4, <1>5, <1>6, <1>7, <1>8 DEF LaunchInv

LEMMA LaunchInit == Init => LaunchInv
  <1> SUFFICES ASSUME Init PROVE LaunchInv
    OBVIOUS
  <1>1. \A h \in Thread : thread[h].at = "idle" /\ thread[h].task = NoTask
    BY DEF Init, Idle, Frame
  <1>2. \A t \in Task : state[t] = UNINITIALIZED /\ ~Made(t)
    <2>1. \A a \in App : thread[a].at = "idle"
      BY <1>1, SmallFacts
    <2>2. QED
      BY <2>1, LauncherFacts DEF Init, Made
  <1>3. Linked = {} /\ \A g \in Group : Elements(runningOrdered[g]) = {}
    <2>1. /\ Elements(readyQueue) = {} /\ Elements(tempList) = {} /\ Elements(toVisit) = {}
          /\ \A g \in Group : Elements(groupSuccessors[g]) = {} /\ Elements(runningOrdered[g]) = {}
      BY ElementsOf DEF Init
    <2>2. QED
      BY <2>1 DEF Linked
  <1>4. LaunchersOwn
    BY <1>1, SmallFacts DEF LaunchersOwn, TaskLabels, Dispatching
  <1>5. LaunchedInOrder
    BY <1>2 DEF LaunchedInOrder
  <1>6. HandlerTriesMade
    BY <1>1, SmallFacts DEF HandlerTriesMade, At
  <1>7. QED
    BY <1>3, <1>4, <1>5, <1>6 DEF LaunchInv, LinkedTried, ListedMade

LEMMA LaunchStep ==
  ASSUME OwnersInv, OwnersInv', LaunchInv, [Next]_vars
  PROVE  LaunchInv'
  <1>1. Types'
    BY DEF OwnersInv
  <1>2. QED
    BY <1>1, QuietSteps, LaunchQuiet, LaunchConstruct, LaunchCount, LaunchTry DEF Launch

-------------------------------------------------------------------------------
(***************************************************************************)
(* The effects of the steps that dispatch and complete tasks.              *)
(***************************************************************************)
\* The steps of dispatch() on task t by thread h, which leaves for a label of L.
Dispatches(h, t, l, L) ==
  /\ t = thread[h].task /\ thread[h].at = l
  /\ \A i \in Thread : i # h => thread'[i] = thread[i]
  /\ thread'[h].at \in L /\ thread'[h].task = t
  /\ UNCHANGED groupTasks

LEMMA DispatchEffect ==
  ASSUME Types, NEW h \in Thread,
         JoinRunning(h) \/ MarkDispatched(h) \/ Publish(h)
  PROVE  \E t \in Task :
           \/ /\ Dispatches(h, t, "push", {"mark", "publish"})
              /\ state' = state
              /\ runningGroupable' = [runningGroupable EXCEPT ![GroupOf[t]] = Append(@, t)]
           \/ /\ Dispatches(h, t, "mark", {"arm", "publish"})
              /\ state' = [state EXCEPT ![t] = DISPATCHED]
              /\ UNCHANGED runningGroupable
           \/ /\ Dispatches(h, t, "publish", {"mark", "arm"})
              /\ UNCHANGED <<state, runningGroupable>>
  <1>1. thread[h].at \in {"push", "mark", "publish"}
    BY DEF JoinRunning, MarkDispatched, Publish, At
  <1>2. PICK t \in Task : t = thread[h].task
    BY <1>1, TaskInHand DEF TaskLabels, Dispatching
  <1>3. \A i \in Thread : i # h => thread'[i] = thread[i]
    BY TypesDispatch, MoveBy DEF Dispatch
  <1>4. \A l : Goto(h, l) => thread'[h].at = l /\ thread'[h].task = t
    BY <1>2, GotoMoves, TypesGiveShape DEF Moves
  <1>5. UNCHANGED groupTasks
    BY DEF JoinRunning, MarkDispatched, Publish, DispatchLeavesUnchanged, handlerVars
  <1>6. CASE JoinRunning(h)
    <2>1. /\ thread[h].at = "push" /\ state' = state
          /\ runningGroupable' = [runningGroupable EXCEPT ![GroupOf[t]] = Append(@, t)]
          /\ Goto(h, "mark") \/ Goto(h, "publish")
      BY <1>2, <1>6 DEF JoinRunning, At
    <2>2. Dispatches(h, t, "push", {"mark", "publish"})
      BY <1>2, <1>3, <1>4, <1>5, <2>1 DEF Dispatches
    <2>3. QED
      BY <2>1, <2>2
  <1>7. CASE MarkDispatched(h)
    <2>1. /\ thread[h].at = "mark" /\ state' = [state EXCEPT ![t] = DISPATCHED]
          /\ UNCHANGED runningGroupable
          /\ Goto(h, "arm") \/ Goto(h, "publish")
      BY <1>2, <1>7 DEF MarkDispatched, At
    <2>2. Dispatches(h, t, "mark", {"arm", "publish"})
      BY <1>2, <1>3, <1>4, <1>5, <2>1 DEF Dispatches
    <2>3. QED
      BY <2>1, <2>2
  <1>8. CASE Publish(h)
    <2>1. /\ thread[h].at = "publish" /\ UNCHANGED <<state, runningGroupable>>
          /\ Goto(h, "arm") \/ Goto(h, "mark")
      BY <1>2, <1>8 DEF Publish, At
    <2>2. Dispatches(h, t, "publish", {"mark", "arm"})
      BY <1>2, <1>3, <1>4, <1>5, <2>1 DEF Dispatches
    <2>3. QED
      BY <2>1, <2>2
  <1>9. QED
    BY <1>6, <1>7, <1>8

LEMMA AcquireEffect ==
  ASSUME Types, NEW h \in Thread, TryAcquires(h)
  PROVE  \E t \in Task :
           /\ Dispatches(h, t, "try", {"push"})
           /\ state[t] < READY /\ ~PrevBlocks(t)
           /\ state' = [state EXCEPT ![t] = READY]
           /\ UNCHANGED runningGroupable
  <1>1. thread[h].at = "try"
    BY DEF TryAcquires, At
  <1>2. PICK t \in Task : t = thread[h].task
    BY <1>1, TaskInHand DEF TaskLabels
  <1>3. Step(h, {"push"}, {"push"})
    BY TypesAcquire
  <1>4. /\ state[t] < READY /\ ~PrevBlocks(t)
        /\ state' = [state EXCEPT ![t] = READY]
        /\ UNCHANGED <<runningGroupable, groupTasks>>
    BY <1>2 DEF TryAcquires, TryLeavesUnchanged, handlerVars
  <1>5. Dispatches(h, t, "try", {"push"})
    BY <1>1, <1>2, <1>3, <1>4, MoveBy DEF Dispatches
  <1>6. QED
    BY <1>4, <1>5

LEMMA TakeEffect ==
  ASSUME Types, TakeRunning
  PROVE  \E d \in Group :
           /\ d = thread[Callback].group
           /\ thread[Callback].at = "drain" /\ thread'[Callback].at = "release"
           /\ \A i \in Thread : i # Callback => thread'[i] = thread[i]
           /\ groupSignal[d] = 0
           /\ groupTasks' = runningGroupable[d]
           /\ runningGroupable' = [runningGroupable EXCEPT ![d] = <<>>]
           /\ UNCHANGED <<state, packetsLeft>>
  <1>0. Callback \in Thread
    BY SmallFacts
  <1>1. thread[Callback].at = "drain"
    BY DEF TakeRunning, At
  <1>2. PICK d \in Group : d = thread[Callback].group
    BY <1>0, <1>1, GroupInHand DEF GroupLabels
  <1>3. Step(Callback, {"enter", "drain", "release"}, {})
    BY TypesTake
  <1>4. thread'[Callback].at = "release"
    BY <1>0, GotoMoves, TypesGiveShape DEF TakeRunning, Moves
  <1>5. /\ groupSignal[d] = 0
        /\ groupTasks' = runningGroupable[d]
        /\ runningGroupable' = [runningGroupable EXCEPT ![d] = <<>>]
        /\ UNCHANGED <<state, packetsLeft>>
    BY <1>2 DEF TakeRunning, SignalDrained, ForgetRunning, taskVars, deviceVars
  <1>6. QED
    BY <1>0, <1>1, <1>2, <1>3, <1>4, <1>5, MoveBy

LEMMA ReleaseEffect ==
  ASSUME Types, ReleaseTasks
  PROVE  /\ thread[Callback].at = "release"
         /\ thread'[Callback].at \in {"discount", "progress"}
         /\ thread'[Callback].group = thread[Callback].group
         /\ \A i \in Thread : i # Callback => thread'[i] = thread[i]
         /\ \A t \in Task : state'[t] = IF t \in Elements(groupTasks) THEN COMPLETED ELSE state[t]
         /\ UNCHANGED <<runningGroupable, groupTasks>>
  <1>1. /\ thread[Callback].at = "release"
        /\ \A t \in Task : state'[t] = IF t \in Elements(groupTasks) THEN COMPLETED ELSE state[t]
        /\ UNCHANGED <<runningGroupable, groupTasks>>
    BY DEF ReleaseTasks, At, listVars, handlerVars
  <1>2. QED
    BY <1>1, ReleaseMoves

LEMMA DeviceEffect ==
  ASSUME NEW t \in Task, CompletePacket(t)
  PROVE  UNCHANGED <<state, thread, runningGroupable, groupTasks>>
  BY DEF CompletePacket, taskVars, listVars, handlerVars

-------------------------------------------------------------------------------
(***************************************************************************)
(* A task that is COMPLETED, and that no dispatcher will set back, is so   *)
(* for ever.  Only a CPU task is set back, by the thread that launched it: *)
(* the handler cannot complete a task that it dispatches itself.           *)
(***************************************************************************)
Settled(t) ==
  /\ state[t] = COMPLETED
  /\ ~(thread[Launcher(t)].at \in Joining /\ thread[Launcher(t)].task = t)

CallbackLive ==
  thread[Callback].at \in Dispatching => state[thread[Callback].task] # COMPLETED

LEMMA CallbackLiveKept ==
  ASSUME OwnersInv, OwnersInv', CallbackLive, [Next]_vars
  PROVE  CallbackLive'
  <1>0. Types /\ Types' /\ Callback \in Thread
    BY SmallFacts DEF OwnersInv
  <1>1. ASSUME NEW u \in Task, thread'[Callback].at \in Dispatching, u = thread'[Callback].task
        PROVE  state'[u] # COMPLETED
    <2>0. state \in [Task -> UNINITIALIZED..COMPLETED] /\ state[u] \in Int
      BY <1>0, ReadyStates DEF Types, TasksTyped
    <2>1. CASE Aside
      <3>1. /\ thread[Callback].at \in Dispatching /\ u = thread[Callback].task
            /\ state'[u] = state[u] \/ state'[u] = INITIALIZED
        BY <1>0, <1>1, <2>1 DEF Aside
      <3>2. QED
        BY <3>1, ReadyStates DEF CallbackLive
    <2>2. ASSUME NEW h \in Thread, TryAcquires(h) PROVE state'[u] # COMPLETED
      <3>1. PICK t \in Task : /\ Dispatches(h, t, "try", {"push"})
                              /\ state' = [state EXCEPT ![t] = READY]
        BY <1>0, <2>2, AcquireEffect
      <3>2. CASE u = t
        BY <2>0, <3>1, <3>2, ReadyStates
      <3>3. CASE u # t
        <4>1. h # Callback /\ thread'[Callback] = thread[Callback] /\ state'[u] = state[u]
          BY <1>0, <1>1, <2>0, <3>1, <3>3 DEF Dispatches
        <4>2. QED
          BY <1>1, <4>1 DEF CallbackLive
      <3>4. QED
        BY <3>2, <3>3
    <2>3. ASSUME NEW h \in Thread, JoinRunning(h) \/ MarkDispatched(h) \/ Publish(h)
          PROVE  state'[u] # COMPLETED
      <3>1. PICK t \in Task, l \in Dispatching :
              /\ \E L : Dispatches(h, t, l, L)
              /\ state' = state \/ state' = [state EXCEPT ![t] = DISPATCHED]
        BY <1>0, <2>3, DispatchEffect DEF Dispatching
      <3>2. thread[Callback].at \in Dispatching /\ u = thread[Callback].task
        BY <1>0, <1>1, <3>1 DEF Dispatches
      <3>3. state'[u] = state[u] \/ state'[u] = DISPATCHED
        BY <2>0, <3>1
      <3>4. QED
        BY <3>2, <3>3, ReadyStates DEF CallbackLive
    <2>4. CASE TakeRunning \/ ReleaseTasks
      BY <1>0, <1>1, <2>4, TakeEffect, ReleaseEffect DEF Dispatching
    <2>5. CASE \E t \in Task : CompletePacket(t)
      BY <1>1, <2>5, DeviceEffect DEF CallbackLive
    <2>6. QED
      BY <2>1, <2>2, <2>3, <2>4, <2>5, AsideSteps
  <1>2. thread'[Callback].at \in Dispatching => thread'[Callback].task \in Task
    BY <1>0 DEF Types, ThreadsTyped, Control, TaskLabels
  <1>3. QED
    BY <1>1, <1>2 DEF CallbackLive

LEMMA SettledKept ==
  ASSUME OwnersInv, LaunchersOwn, CallbackLive, [Next]_vars, NEW t \in Task, Settled(t)
  PROVE  Settled(t)'
  <1>0. Types /\ Callback \in Thread
    BY SmallFacts DEF OwnersInv
  <1>1. PICK a \in App : a = Launcher(t) /\ a \in Thread
    BY LauncherFacts, SmallFacts
  <1>2. /\ state[t] = COMPLETED /\ state \in [Task -> UNINITIALIZED..COMPLETED]
        /\ ~(thread[a].at \in Joining /\ thread[a].task = t)
    BY <1>0, <1>1 DEF Settled, Types, TasksTyped
  <1>3. SUFFICES state'[t] = COMPLETED /\ ~(thread'[a].at \in Joining /\ thread'[a].task = t)
    BY <1>1 DEF Settled
  <1>4. CASE Aside
    <2>1. state'[t] = COMPLETED
      BY <1>2, <1>4, ReadyStates DEF Aside
    <2>2. thread'[a].at \in Joining => thread[a].at \in Joining /\ thread'[a].task = thread[a].task
      BY <1>1, <1>4 DEF Aside
    <2>3. QED
      BY <1>2, <2>1, <2>2
  <1>5. ASSUME NEW h \in Thread, TryAcquires(h)
        PROVE  state'[t] = COMPLETED /\ ~(thread'[a].at \in Joining /\ thread'[a].task = t)
    <2>1. PICK u \in Task : /\ Dispatches(h, u, "try", {"push"})
                            /\ state[u] < READY /\ state' = [state EXCEPT ![u] = READY]
      BY <1>0, <1>5, AcquireEffect
    <2>2. u # t /\ state'[t] = COMPLETED
      BY <1>2, <2>1, ReadyStates
    <2>3. thread'[a] = thread[a] \/ thread'[a].task = u
      BY <1>1, <2>1 DEF Dispatches
    <2>4. QED
      BY <1>2, <2>2, <2>3
  <1>6. ASSUME NEW h \in Thread, JoinRunning(h) \/ MarkDispatched(h) \/ Publish(h)
        PROVE  state'[t] = COMPLETED /\ ~(thread'[a].at \in Joining /\ thread'[a].task = t)
    <2>1. PICK u \in Task, l \in Joining :
            /\ \E L : Dispatches(h, u, l, L)
            /\ state' = state \/ state' = [state EXCEPT ![u] = DISPATCHED]
      BY <1>0, <1>6, DispatchEffect DEF Joining
    <2>2. u # t
      <3>1. CASE h = Callback
        <4>1. state[u] # COMPLETED
          BY <2>1, <3>1 DEF CallbackLive, Dispatches, Joining, Dispatching
        <4>2. QED
          BY <1>2, <4>1
      <3>2. CASE h \in App
        <4>1. Launcher(u) = h
          BY <2>1, <3>2 DEF LaunchersOwn, Dispatches, TaskLabels, Joining, Dispatching
        <4>2. QED
          BY <1>1, <1>2, <2>1, <4>1 DEF Dispatches
      <3>3. QED
        BY <3>1, <3>2 DEF Thread
    <2>3. state'[t] = COMPLETED
      BY <1>2, <2>1, <2>2
    <2>4. thread'[a] = thread[a] \/ thread'[a].task = u
      BY <1>1, <2>1 DEF Dispatches
    <2>5. QED
      BY <1>2, <2>2, <2>3, <2>4
  <1>7. CASE TakeRunning \/ ReleaseTasks
    <2>1. thread'[a] = thread[a]
      BY <1>0, <1>1, <1>7, TakeEffect, ReleaseEffect, SmallFacts
    <2>2. state'[t] = COMPLETED
      BY <1>0, <1>2, <1>7, TakeEffect, ReleaseEffect
    <2>3. QED
      BY <1>2, <2>1, <2>2
  <1>8. CASE \E u \in Task : CompletePacket(u)
    BY <1>2, <1>8, DeviceEffect
  <1>9. QED
    BY <1>4, <1>5, <1>6, <1>7, <1>8, AsideSteps

-------------------------------------------------------------------------------
(***************************************************************************)
(* The steps of sync() and of the constructor, and the others.             *)
(***************************************************************************)
Elsewhere ==
  /\ UNCHANGED <<runningDefault, lastTask, prevOrdered, toWait>>
  /\ \A a \in App :
       thread[a].at \in {"waiting", "clearing"} \/ thread'[a].at \in {"waiting", "clearing"}
         => thread'[a] = thread[a]

LEMMA MadeSteps ==
  ASSUME OwnersInv, OwnersInv', LaunchInv, [Next]_vars
  PROVE  MadeSame \/ \E a \in App : Launch(a)
  <1>1. Types'
    BY DEF OwnersInv
  <1>2. QED
    BY <1>1, QuietSteps, LaunchQuiet, LaunchCount, LaunchTry

LEMMA ElsewhereMove ==
  ASSUME NEW h \in Thread, NEW L, NEW K, Step(h, L, K),
         UNCHANGED <<runningDefault, lastTask, prevOrdered, toWait>>,
         h \in App => thread[h].at \notin {"waiting", "clearing"},
         h \in App => L \cap {"waiting", "clearing"} = {}
  PROVE  Elsewhere
  BY MoveBy, SmallFacts DEF Elsewhere

LEMMA ElsewhereSteps ==
  ASSUME OwnersInv, [Next]_vars
  PROVE  \/ Elsewhere
         \/ \E a \in App : \/ Launch(a) \/ SyncCounted(a) \/ SyncWaited(a)
                           \/ SyncForgetsLast(a) \/ SyncClears(a)
  <1>0. /\ Types /\ Callers
        /\ Callback \in Thread /\ Callback \notin App /\ \A a \in App : a \in Thread
    BY SmallFacts DEF OwnersInv
  <1>1. ASSUME NEW h \in Thread, TryDispatch(h) \/ Dispatch(h) PROVE Elsewhere
    <2>1. UNCHANGED <<runningDefault, lastTask, prevOrdered, toWait>>
      <3>1. TryLeavesUnchanged \/ DispatchLeavesUnchanged
        BY <1>1 DEF TryDispatch, TryWaitsForGroup, TryWaitsForPrevious, TryLacksResources,
                    TryTaken, TryAcquires, KeepForLater, Dispatch, JoinRunning, MarkDispatched,
                    Publish, TestAndSet, RegisterHandler
      <3>2. QED
        BY <3>1 DEF TryLeavesUnchanged, DispatchLeavesUnchanged
    <2>2. thread[h].at \notin {"waiting", "clearing"}
      BY <1>1 DEF TryDispatch, TryWaitsForGroup, TryWaitsForPrevious, TryLacksResources,
                  TryTaken, TryAcquires, KeepForLater, Dispatch, JoinRunning, MarkDispatched,
                  Publish, TestAndSet, RegisterHandler, At
    <2>3. /\ Outside \cap {"waiting", "clearing"} = {}
          /\ ((Dispatching \ {"push"}) \cup Outside) \cap {"waiting", "clearing"} = {}
          /\ {"push"} \cap {"waiting", "clearing"} = {}
      BY DEF Outside, Dispatching
    <2>4. \/ Step(h, Outside, {}) \/ Step(h, {"push"}, {"push"})
          \/ Step(h, (Dispatching \ {"push"}) \cup Outside, Dispatching)
      BY <1>0, <1>1, TypesTry, TypesAcquire, TypesDispatch DEF TryDispatch
    <2>5. QED
      BY <2>1, <2>2, <2>3, <2>4, ElsewhereMove
  <1>2. ASSUME NEW a \in App, CountTask(a) PROVE Elsewhere
    <2>1. Step(a, {"try"}, {"try"})
      BY <1>0, <1>2, TypesCount
    <2>2. /\ UNCHANGED <<runningDefault, lastTask, prevOrdered, toWait>>
          /\ thread[a].at = "count"
      BY <1>2 DEF CountTask, taskVars, listVars, At
    <2>3. QED
      BY <1>0, <2>1, <2>2, ElsewhereMove
  <1>3. ASSUME NEW a \in App, NEW g \in Group, CallSync(a, g) PROVE Elsewhere
    <2>1. UNCHANGED <<runningDefault, lastTask, prevOrdered, toWait>> /\ thread[a].at = "idle"
      BY <1>3 DEF CallSync, SyncLeavesUnchanged, taskVars, listVars, At
    <2>2. thread'[a].at = "sync"
      <3>1. thread'[a] = Frame("sync", NoTask, g, "launch")
        BY <1>0, <1>3 DEF CallSync, Types, ThreadsTyped
      <3>2. QED
        BY <3>1 DEF Frame
    <2>3. \A b \in App : b # a => thread'[b] = thread[b]
      <3>1. Step(a, {"idle", "sync", "waiting", "clearing"}, {})
        BY <1>0, <1>3, TypesSync
      <3>2. QED
        BY <1>0, <3>1, MoveBy
    <2>4. QED
      BY <2>1, <2>2, <2>3 DEF Elsewhere
  <1>4. CASE Handler
    <2>1. CASE TryDispatch(Callback) \/ Dispatch(Callback)
      BY <1>0, <1>1, <2>1
    <2>2. CASE (\E g \in Group : HandleGroupSignal(g)) \/ LockGroup \/ TakeRunning
      <3>1. UNCHANGED <<runningDefault, lastTask, prevOrdered, toWait>>
        BY <2>2 DEF HandleGroupSignal, LockGroup, TakeRunning, taskVars, listVars
      <3>2. QED
        BY <1>0, <2>2, <3>1, TypesTake, ElsewhereMove
    <2>3. CASE ReleaseTasks
      <3>1. UNCHANGED <<runningDefault, lastTask, prevOrdered, toWait>>
        BY <2>3 DEF ReleaseTasks, listVars
      <3>2. QED
        BY <1>0, <2>3, <3>1, ReleaseEffect, SmallFacts DEF Elsewhere
    <2>4. CASE DoProgress \/ TakeFront \/ PopReady
      <3>1. UNCHANGED <<runningDefault, lastTask, prevOrdered, toWait>>
        BY <2>4 DEF DoProgress, TakeFront, PopReady, ProgressLeavesUnchanged, taskVars, listVars
      <3>2. QED
        BY <1>0, <2>4, <3>1, TypesProgress, ElsewhereMove
    <2>5. CASE \/ DiscountTasks \/ LoadCount \/ ClearSuccessors \/ BeginVisits
               \/ VisitSuccessor \/ PushReady
      <3>1. UNCHANGED <<runningDefault, lastTask, prevOrdered, toWait>>
        BY <2>5 DEF DiscountTasks, LoadCount, ClearSuccessors, BeginVisits, VisitSuccessor,
                    PushReady, taskVars, listVars
      <3>2. QED
        BY <1>0, <2>5, <3>1, TypesFinish, ElsewhereMove
    <2>6. QED
      BY <1>4, <2>1, <2>2, <2>3, <2>4, <2>5 DEF Handler
  <1>5. CASE Device \/ UNCHANGED vars
    BY <1>5 DEF Device, CompletePacket, vars, taskVars, listVars, Elsewhere
  <1>6. CASE \E a \in App : Launch(a) \/ (\E g \in Group : CallSync(a, g)) \/ AppStep(a)
    BY <1>0, <1>1, <1>2, <1>3, <1>6 DEF AppStep, Sync
  <1>7. QED
    BY <1>4, <1>5, <1>6 DEF Next

\* What sync() does, for the group d that thread a waits for.
Waits(a, d, L) ==
  /\ d = thread[a].group
  /\ \A b \in App : b # a => thread'[b] = thread[b]
  /\ thread'[a].at \in L
  /\ thread'[a].at # "idle" => thread'[a].group = d
  /\ UNCHANGED <<state, prevOrdered>>

LEMMA SyncEffect ==
  ASSUME OwnersInv, NEW a \in App, Sync(a)
  PROVE  \E d \in Group :
           /\ Syncer[d] = a /\ thread[a].at \notin TaskLabels
           /\ \/ /\ Waits(a, d, {"waiting"}) /\ thread[a].at = "sync"
                 /\ toWait' = [toWait EXCEPT ![a] = IF d \in OrderedGroup THEN <<lastTask[d]>>
                                                    ELSE runningDefault[d]]
                 /\ UNCHANGED <<runningDefault, lastTask>>
              \/ /\ Waits(a, d, {"waiting"}) /\ thread[a].at = "waiting"
                 /\ toWait[a] # <<>> /\ state[Head(toWait[a])] = COMPLETED
                 /\ toWait' = [toWait EXCEPT ![a] = Tail(@)]
                 /\ UNCHANGED <<runningDefault, lastTask>>
              \/ /\ Waits(a, d, {"clearing"}) /\ thread[a].at = "waiting"
                 /\ toWait[a] = <<>> /\ d \in OrderedGroup
                 /\ lastTask' = [lastTask EXCEPT ![d] = NoTask]
                 /\ UNCHANGED <<runningDefault, toWait>>
              \/ /\ Waits(a, d, {"idle"}) /\ WaitedForAll(a)
                 /\ runningDefault' = [runningDefault EXCEPT ![d] = <<>>]
                 /\ runningGroupable' = [runningGroupable EXCEPT ![d] = <<>>]
                 /\ UNCHANGED <<lastTask, toWait>>
  <1>0. Types /\ Callers /\ a \in Thread
    BY SmallFacts DEF OwnersInv
  <1>1. thread[a].at \in {"sync", "waiting", "clearing"}
    BY DEF Sync, SyncCounted, SyncWaited, SyncForgetsLast, SyncClears, WaitedForAll, At
  <1>2. PICK d \in Group : d = thread[a].group /\ Syncer[d] = a
    BY <1>0, <1>1, GroupInHand DEF GroupLabels, Callers
  <1>3. thread[a].at \notin TaskLabels
    BY <1>1 DEF TaskLabels, Dispatching
  <1>4. \A b \in App : b # a => thread'[b] = thread[b]
    <2>1. Step(a, {"idle", "sync", "waiting", "clearing"}, {})
      BY <1>0, TypesSync
    <2>2. QED
      BY <1>0, <2>1, MoveBy, SmallFacts
  <1>5. UNCHANGED <<state, prevOrdered>>
    BY DEF Sync, SyncCounted, SyncWaited, SyncForgetsLast, SyncClears, SyncLeavesUnchanged,
           taskVars
  <1>6. \A l : Goto(a, l) => thread'[a].at = l /\ thread'[a].group = d
    BY <1>0, <1>2, GotoMoves, TypesGiveShape DEF Moves
  <1>7. CASE SyncCounted(a)
    <2>1. Goto(a, "waiting")
      BY <1>7 DEF SyncCounted
    <2>2. Waits(a, d, {"waiting"})
      BY <1>2, <1>4, <1>5, <1>6, <2>1 DEF Waits
    <2>3. QED
      BY <1>2, <1>3, <1>7, <2>2 DEF SyncCounted, At, listVars
  <1>8. CASE SyncWaited(a)
    <2>1. thread' = thread /\ thread[a].at = "waiting"
      BY <1>8 DEF SyncWaited, At
    <2>2. Waits(a, d, {"waiting"})
      BY <1>2, <1>4, <1>5, <2>1 DEF Waits
    <2>3. QED
      BY <1>2, <1>3, <1>8, <2>1, <2>2 DEF SyncWaited, listVars
  <1>9. CASE SyncForgetsLast(a)
    <2>1. Goto(a, "clearing")
      BY <1>9 DEF SyncForgetsLast
    <2>2. Waits(a, d, {"clearing"})
      BY <1>2, <1>4, <1>5, <1>6, <2>1 DEF Waits
    <2>3. QED
      BY <1>2, <1>3, <1>9, <2>2 DEF SyncForgetsLast, At
  <1>10. CASE SyncClears(a)
    <2>1. thread'[a].at = "idle"
      BY <1>0, <1>10, RestTask DEF SyncClears
    <2>2. Waits(a, d, {"idle"})
      BY <1>2, <1>4, <1>5, <2>1 DEF Waits
    <2>3. QED
      BY <1>2, <1>3, <1>10, <2>2 DEF SyncClears
  <1>11. QED
    BY <1>7, <1>8, <1>9, <1>10 DEF Sync

-------------------------------------------------------------------------------
(***************************************************************************)
(* What sync() may rely on.  Of an unordered group, the tasks that are not *)
(* in running_default_tasks_ any more, or not among those that it has      *)
(* still to wait for, are settled.  Of an ordered group it waits for the   *)
(* last task only: last_task_ and prev_ordered_task_ chain the tasks in    *)
(* the order in which they were launched, from the last settled one, and   *)
(* they are made ready, and completed, in that order.                      *)
(*                                                                         *)
(* The premise: the tasks of an ordered group are no CPU tasks, which may  *)
(* be set back to DISPATCHED, and the thread that waits for the group      *)
(* launches them.                                                          *)
(***************************************************************************)
Own(t) == Launcher(t) = Syncer[GroupOf[t]]

OrderedAlone == \A t \in Task : Ordered(t) => KindOf[t] # "cpu" /\ Own(t)

Before(u, t) == Ordered(t) /\ GroupOf[u] = GroupOf[t] /\ Earlier(u, t)

DefaultKept ==
  \A t \in Task : ~Ordered(t) /\ Own(t) /\ Made(t) =>
    t \in Elements(runningDefault[GroupOf[t]]) \/ Settled(t)

WaitsForAll ==
  \A a \in App : thread[a].at = "waiting" /\ thread[a].group \notin OrderedGroup =>
    \A t \in Task : GroupOf[t] = thread[a].group /\ Launcher(t) = a /\ Made(t) =>
      t \in Elements(toWait[a]) \/ Settled(t)

\* p is the last of the tasks that u is one of, if any of them is left.
LastOf(p, u) == IF p = NoTask THEN Settled(u) ELSE u = p \/ Before(u, p)

LastIsLast ==
  \A g \in OrderedGroup :
    /\ lastTask[g] # NoTask => GroupOf[lastTask[g]] = g /\ Made(lastTask[g])
    /\ \A u \in Task : GroupOf[u] = g /\ Made(u) => LastOf(lastTask[g], u)

PrevIsPrev ==
  \A t \in Task : Ordered(t) /\ Made(t) =>
    /\ prevOrdered[t] # NoTask => Before(prevOrdered[t], t)
    /\ \A u \in Task : Before(u, t) => LastOf(prevOrdered[t], u)

WaitsForLast ==
  \A a \in App : thread[a].at = "waiting" /\ thread[a].group \in OrderedGroup =>
    \E p \in Task :
      /\ p = lastTask[thread[a].group]
      /\ toWait[a] = <<p>> \/ (toWait[a] = <<>> /\ Settled(p))

LastForgotten ==
  \A a \in App : thread[a].at = "clearing" =>
    thread[a].group \in OrderedGroup /\ lastTask[thread[a].group] = NoTask

SyncLists ==
  /\ DefaultKept /\ WaitsForAll /\ LastIsLast /\ PrevIsPrev /\ WaitsForLast
  /\ LastForgotten

ReadyInOrder ==
  \A u, t \in Task : Before(u, t) /\ state[t] >= READY => state[u] >= READY

DoneInOrder ==
  \A u, t \in Task : Before(u, t) =>
    /\ state[t] = COMPLETED => state[u] = COMPLETED
    /\ Done(t) => Done(u)

Pushing(t) == \E h \in Thread : thread[h].at = "push" /\ thread[h].task = t

AcquiredRun ==
  \A t \in Task :
    /\ Own(t) /\ state[t] >= READY /\ state[t] # COMPLETED
    /\ state[t] = DISPATCHED => KindOf[t] # "cpu"
    => Running(t) \/ Pushing(t)

SyncInv == CallbackLive /\ SyncLists /\ ReadyInOrder /\ DoneInOrder /\ AcquiredRun

SettledSame == \A t \in Task : Settled(t) => Settled(t)'

LEMMA BeforeFacts ==
  ASSUME OrderedAlone, NEW u \in Task, NEW t \in Task, GroupOf[u] = GroupOf[t], Ordered(t)
  PROVE  /\ Ordered(u) /\ KindOf[u] # "cpu" /\ Own(u) /\ Own(t) /\ Launcher(u) = Launcher(t)
         /\ u = t \/ Before(u, t) \/ Before(t, u)
         /\ Before(u, t) => u # t
  BY EarlierFacts DEF OrderedAlone, Ordered, Own, Before

LEMMA SettledIsCompleted ==
  ASSUME OwnersInv, PacketsInv, NEW t \in Task, KindOf[t] # "cpu", state[t] = COMPLETED
  PROVE  Settled(t)
  <1>1. packetsLeft[t] = 0
    BY DEF PacketsInv, DoneEmpty, Done
  <1>2. PICK a \in App : a = Launcher(t) /\ a \in Thread
    BY LauncherFacts, SmallFacts
  <1>3. thread[a].at \in Joining /\ thread[a].task = t => Unseen(a)
    BY DEF Joining, Unseen
  <1>4. ~(thread[a].at \in Joining /\ thread[a].task = t)
    BY <1>1, <1>2, <1>3 DEF PacketsInv, UnseenKept
  <1>5. QED
    BY <1>2, <1>4 DEF Settled

\* When each of these keeps.
LEMMA DefaultSame ==
  ASSUME SyncLists, SettledSame,
         \A t \in Task : ~Ordered(t) /\ Made(t)' => Made(t),
         \A g \in Group : Elements(runningDefault[g]) \subseteq Elements(runningDefault'[g])
  PROVE  DefaultKept'
  BY SmallFacts DEF SyncLists, DefaultKept, SettledSame

LEMMA ForAllSame ==
  ASSUME SyncLists, SettledSame,
         \A b \in App : thread'[b].at = "waiting" =>
           /\ thread'[b] = thread[b] /\ toWait'[b] = toWait[b]
           /\ \A t \in Task : Launcher(t) = b /\ Made(t)' => Made(t)
  PROVE  WaitsForAll'
  BY DEF SyncLists, WaitsForAll, SettledSame

LEMMA LastSame ==
  ASSUME OwnersInv, SyncLists, SettledSame, UNCHANGED lastTask,
         \A t \in Task : Ordered(t) => (Made(t)' <=> Made(t))
  PROVE  LastIsLast'
  <1> SUFFICES ASSUME NEW g \in OrderedGroup
               PROVE  /\ lastTask[g] # NoTask => GroupOf[lastTask[g]] = g /\ Made(lastTask[g])'
                      /\ \A u \in Task : GroupOf[u] = g /\ Made(u)' => LastOf(lastTask[g], u)'
    BY DEF LastIsLast, LastOf
  <1>1. /\ lastTask[g] # NoTask => GroupOf[lastTask[g]] = g /\ Made(lastTask[g])
        /\ \A u \in Task : GroupOf[u] = g /\ Made(u) => LastOf(lastTask[g], u)
    BY DEF SyncLists, LastIsLast
  <1>2. lastTask[g] # NoTask => lastTask[g] \in Task
    BY SmallFacts DEF OwnersInv, Types, GroupsTyped
  <1>3. QED
    BY <1>1, <1>2 DEF SettledSame, LastOf, Ordered

LEMMA PrevSame ==
  ASSUME SyncLists, SettledSame, UNCHANGED prevOrdered,
         \A t \in Task : Ordered(t) => (Made(t)' <=> Made(t))
  PROVE  PrevIsPrev'
  <1> SUFFICES ASSUME NEW t \in Task, Ordered(t), Made(t)'
               PROVE  /\ prevOrdered[t] # NoTask => Before(prevOrdered[t], t)
                      /\ \A u \in Task : Before(u, t) => LastOf(prevOrdered[t], u)'
    BY DEF PrevIsPrev, LastOf
  <1>1. /\ prevOrdered[t] # NoTask => Before(prevOrdered[t], t)
        /\ \A u \in Task : Before(u, t) => LastOf(prevOrdered[t], u)
    BY DEF SyncLists, PrevIsPrev
  <1>2. QED
    BY <1>1 DEF SettledSame, LastOf

LEMMA ForLastSame ==
  ASSUME SyncLists, SettledSame,
         \A b \in App : thread'[b].at = "waiting" /\ thread'[b].group \in OrderedGroup =>
           /\ thread'[b] = thread[b] /\ toWait'[b] = toWait[b]
           /\ lastTask'[thread'[b].group] = lastTask[thread'[b].group]
  PROVE  WaitsForLast'
  <1> SUFFICES ASSUME NEW a \in App, thread'[a].at = "waiting", thread'[a].group \in OrderedGroup
               PROVE  \E p \in Task :
                        /\ p = lastTask'[thread'[a].group]
                        /\ toWait'[a] = <<p>> \/ (toWait'[a] = <<>> /\ Settled(p)')
    BY DEF WaitsForLast
  <1>1. /\ thread'[a] = thread[a] /\ toWait'[a] = toWait[a]
        /\ lastTask'[thread[a].group] = lastTask[thread[a].group]
    OBVIOUS
  <1>2. PICK p \in Task : /\ p = lastTask[thread[a].group]
                          /\ toWait[a] = <<p>> \/ (toWait[a] = <<>> /\ Settled(p))
    BY <1>1 DEF SyncLists, WaitsForLast
  <1>3. Settled(p) => Settled(p)'
    BY DEF SettledSame
  <1>4. QED
    BY <1>1, <1>2, <1>3

LEMMA ForgottenSame ==
  ASSUME SyncLists,
         \A b \in App : thread'[b].at = "clearing" =>
           /\ thread'[b] = thread[b]
           /\ lastTask'[thread'[b].group] = lastTask[thread'[b].group]
  PROVE  LastForgotten'
  BY DEF SyncLists, LastForgotten

\* A step of neither sync() nor a constructor.
LEMMA ListsElsewhere ==
  ASSUME OwnersInv, SyncLists, SettledSame, MadeSame, Elsewhere
  PROVE  SyncLists'
  <1>1. /\ UNCHANGED <<runningDefault, lastTask, prevOrdered, toWait>>
        /\ \A a \in App : thread'[a].at \in {"waiting", "clearing"} => thread'[a] = thread[a]
    BY DEF Elsewhere
  <1>2. \A t \in Task : Made(t)' <=> Made(t)
    BY DEF MadeSame
  <1>3. DefaultKept' /\ WaitsForAll' /\ LastIsLast' /\ PrevIsPrev' /\ WaitsForLast' /\ LastForgotten'
    BY <1>1, <1>2, DefaultSame, ForAllSame, LastSame, PrevSame, ForLastSame, ForgottenSame
  <1>4. QED
    BY <1>3 DEF SyncLists

\* The constructor of the task t.
LEMMA ListsConstruct ==
  ASSUME OrderedAlone, OwnersInv, LaunchInv, SyncLists, SettledSame,
         NEW a \in App, NEW t \in Task, Construct(a, t)
  PROVE  SyncLists'
  <1>0. Types /\ Callers /\ a \in Thread /\ OrderedGroup \subseteq Group
    BY SmallFacts DEF OwnersInv
  <1>1. PICK g \in Group : g = GroupOf[t]
    BY SmallFacts
  <1>2. /\ Launcher(t) = a /\ ~Made(t)
        /\ \A u \in Task : Made(u)' <=> Made(u) \/ u = t
    BY LaunchConstruct DEF MadeMore
  <1>3. \A u \in Task : Earlier(u, t) => Made(u)
    BY LaunchedNext DEF Construct, Made
  <1>4. \A u \in Task : Made(u) => ~Earlier(t, u)
    BY <1>2 DEF LaunchInv, LaunchedInOrder, Made
  <1>5. /\ thread'[a].at = "count" /\ UNCHANGED toWait
        /\ \A b \in App : b # a => thread'[b] = thread[b]
    <2>1. Step(a, {"count"}, {})
      BY <1>0, TypesConstruct
    <2>2. QED
      BY <1>0, <2>1, MoveBy, SmallFacts DEF Construct
  <1>6. \A b \in App : thread'[b].at \in {"waiting", "clearing"} =>
          thread'[b] = thread[b] /\ b # a /\ Syncer[thread[b].group] = b
    BY <1>0, <1>5 DEF Callers
  <1>7. WaitsForAll'
    <2>1. \A b \in App : thread'[b].at = "waiting" =>
            /\ thread'[b] = thread[b] /\ toWait'[b] = toWait[b]
            /\ \A u \in Task : Launcher(u) = b /\ Made(u)' => Made(u)
      BY <1>2, <1>5, <1>6
    <2>2. QED
      BY <2>1, ForAllSame
  <1>8. CASE ~Ordered(t)
    <2>1. /\ runningDefault' = [runningDefault EXCEPT ![g] = Append(@, t)]
          /\ UNCHANGED <<prevOrdered, lastTask>>
      BY <1>1, <1>8 DEF Construct
    <2>2. \A k \in Group : runningDefault[k] \in Seq(Task)
      BY <1>0 DEF Types, GroupsTyped
    <2>3. \A k \in Group :
            runningDefault'[k] = IF k = g THEN Append(runningDefault[k], t) ELSE runningDefault[k]
      BY <1>0, <2>1 DEF Types, GroupsTyped
    <2>4. \A k \in Group :
            Elements(runningDefault'[k]) = Elements(runningDefault[k]) \cup
                                           (IF k = g THEN {t} ELSE {})
      BY <2>2, <2>3, ElementsOf
    <2>5. DefaultKept'
      <3> SUFFICES ASSUME NEW u \in Task, ~Ordered(u), Own(u), Made(u)'
                   PROVE  u \in Elements(runningDefault'[GroupOf[u]]) \/ Settled(u)'
        BY DEF DefaultKept
      <3>1. CASE u = t
        BY <1>1, <2>4, <3>1
      <3>2. CASE u # t
        <4>1. u \in Elements(runningDefault[GroupOf[u]]) \/ Settled(u)
          BY <1>2, <3>2 DEF SyncLists, DefaultKept
        <4>2. QED
          BY <2>4, <4>1, SmallFacts DEF SettledSame
      <3>3. QED
        BY <3>1, <3>2
    <2>6. \A u \in Task : Ordered(u) => (Made(u)' <=> Made(u))
      BY <1>2, <1>8
    <2>7. LastIsLast' /\ PrevIsPrev'
      BY <2>1, <2>6, LastSame, PrevSame
    <2>8. WaitsForLast' /\ LastForgotten'
      BY <1>5, <1>6, <2>1, ForLastSame, ForgottenSame
    <2>9. QED
      BY <1>7, <2>5, <2>7, <2>8 DEF SyncLists
  <1>9. CASE Ordered(t)
    <2>0. /\ g \in OrderedGroup
          /\ lastTask \in [Group -> Task \cup {NoTask}]
          /\ prevOrdered \in [Task -> Task \cup {NoTask}]
      BY <1>0, <1>1, <1>9 DEF Ordered, Types, GroupsTyped, TasksTyped
    <2>1. /\ prevOrdered' = [prevOrdered EXCEPT ![t] = lastTask[g]]
          /\ lastTask' = [lastTask EXCEPT ![g] = t]
          /\ UNCHANGED runningDefault
      BY <1>1, <1>9 DEF Construct
    <2>2. \A u \in Task : GroupOf[u] = g /\ Made(u) => Before(u, t)
      BY <1>1, <1>2, <1>4, <1>9, BeforeFacts DEF Before
    <2>3. DefaultKept'
      BY <1>2, <1>9, <2>1, DefaultSame
    <2>4. LastIsLast'
      <3> SUFFICES ASSUME NEW k \in OrderedGroup
                   PROVE  \E p \in Task \cup {NoTask} :
                            /\ p = lastTask'[k]
                            /\ p # NoTask => GroupOf[p] = k /\ Made(p)'
                            /\ \A u \in Task : GroupOf[u] = k /\ Made(u)' => LastOf(p, u)'
        BY DEF LastIsLast, LastOf, Made
      <3>1. CASE k = g
        <4>1. lastTask'[k] = t /\ t # NoTask
          BY <2>0, <2>1, <3>1, SmallFacts
        <4>2. \A u \in Task : GroupOf[u] = k /\ Made(u)' => u = t \/ Before(u, t)
          BY <1>2, <2>2, <3>1
        <4>3. Made(t)'
          BY <1>2
        <4>4. \A u \in Task : GroupOf[u] = k /\ Made(u)' => LastOf(t, u)'
          BY <4>1, <4>2 DEF LastOf
        <4>5. QED
          BY <1>1, <3>1, <4>1, <4>3, <4>4
      <3>2. CASE k # g
        <4>1. lastTask'[k] = lastTask[k] /\ k \in Group
          BY <1>0, <2>0, <2>1, <3>2
        <4>2. PICK p \in Task \cup {NoTask} : p = lastTask[k]
          BY <2>0, <4>1
        <4>3. /\ p # NoTask => GroupOf[p] = k /\ Made(p)
              /\ \A u \in Task : GroupOf[u] = k /\ Made(u) => LastOf(p, u)
          BY <4>2 DEF SyncLists, LastIsLast
        <4>4. \A u \in Task : GroupOf[u] = k => (Made(u)' <=> Made(u))
          BY <1>1, <1>2, <3>2
        <4>5. \A u \in Task : LastOf(p, u) => LastOf(p, u)'
          BY DEF SettledSame, LastOf
        <4>6. QED
          BY <4>1, <4>2, <4>3, <4>4, <4>5
      <3>3. QED
        BY <3>1, <3>2
    <2>5. PrevIsPrev'
      <3> SUFFICES ASSUME NEW v \in Task, Ordered(v), Made(v)'
                   PROVE  \E p \in Task \cup {NoTask} :
                            /\ p = prevOrdered'[v]
                            /\ p # NoTask => Before(p, v)
                            /\ \A u \in Task : Before(u, v) => LastOf(p, u)'
        BY DEF PrevIsPrev, LastOf
      <3>1. CASE v = t
        <4>1. PICK p \in Task \cup {NoTask} : p = lastTask[g] /\ p = prevOrdered'[v]
          BY <2>0, <2>1, <3>1
        <4>2. /\ p # NoTask => GroupOf[p] = g /\ Made(p)
              /\ \A u \in Task : GroupOf[u] = g /\ Made(u) => LastOf(p, u)
          BY <2>0, <4>1 DEF SyncLists, LastIsLast
        <4>3. p # NoTask => Before(p, v)
          BY <2>2, <3>1, <4>2
        <4>4. \A u \in Task : Before(u, v) => LastOf(p, u)
          BY <1>1, <1>3, <3>1, <4>2 DEF Before
        <4>5. \A u \in Task : LastOf(p, u) => LastOf(p, u)'
          BY DEF SettledSame, LastOf
        <4>6. QED
          BY <4>1, <4>3, <4>4, <4>5
      <3>2. CASE v # t
        <4>1. prevOrdered'[v] = prevOrdered[v] /\ Made(v)
          BY <1>2, <2>0, <2>1, <3>2
        <4>2. PICK p \in Task \cup {NoTask} : p = prevOrdered[v]
          BY <2>0
        <4>3. /\ p # NoTask => Before(p, v)
              /\ \A u \in Task : Before(u, v) => LastOf(p, u)
          BY <4>1, <4>2 DEF SyncLists, PrevIsPrev
        <4>4. \A u \in Task : LastOf(p, u) => LastOf(p, u)'
          BY DEF SettledSame, LastOf
        <4>5. QED
          BY <4>1, <4>2, <4>3, <4>4
      <3>3. QED
        BY <3>1, <3>2
    <2>6. \A b \in App : thread'[b].at \in {"waiting", "clearing"} =>
            lastTask'[thread'[b].group] = lastTask[thread'[b].group]
      <3>1. Syncer[g] = a
        BY <1>1, <1>2, <1>9 DEF OrderedAlone, Own
      <3>2. QED
        BY <1>6, <2>0, <2>1, <3>1
    <2>7. WaitsForLast' /\ LastForgotten'
      BY <1>5, <1>6, <2>6, ForLastSame, ForgottenSame
    <2>8. QED
      BY <1>7, <2>3, <2>4, <2>5, <2>7 DEF SyncLists
  <1>10. QED
    BY <1>8, <1>9

\* What has been waited for is settled.
LEMMA WaitedSettled ==
  ASSUME SyncLists, NEW a \in App, WaitedForAll(a), NEW t \in Task,
         GroupOf[t] = thread[a].group, Launcher(t) = a, Made(t)
  PROVE  Settled(t)
  <1>1. CASE thread[a].at = "clearing"
    BY <1>1 DEF SyncLists, LastForgotten, LastIsLast, LastOf
  <1>2. CASE /\ thread[a].at = "waiting" /\ toWait[a] = <<>>
             /\ thread[a].group \notin OrderedGroup
    BY <1>2, ElementsOf DEF SyncLists, WaitsForAll
  <1>3. QED
    BY <1>1, <1>2 DEF WaitedForAll, At

\* sync().
LEMMA ListsSync ==
  ASSUME OrderedAlone, OwnersInv, OwnersInv', PacketsInv, LaunchInv, SyncLists, DoneInOrder,
         SettledSame, NEW a \in App, Sync(a)
  PROVE  SyncLists'
  <1>0. /\ Types /\ Types' /\ Callers /\ OrderedGroup \subseteq Group /\ NoTask \notin Task
        /\ lastTask \in [Group -> Task \cup {NoTask}] /\ toWait \in [App -> Seq(Task)]
        /\ runningDefault \in [Group -> Seq(Task)]
    BY SmallFacts DEF OwnersInv, Types, GroupsTyped, ListsTyped
  <1>1. \A t \in Task : Made(t)' <=> Made(t)
    <2>1. Quiescent
      BY <1>0, QuietSync
    <2>2. QED
      BY <1>0, <2>1, LaunchQuiet DEF MadeSame
  <1>2. \A b \in App : thread[b].at \in {"waiting", "clearing"} => Syncer[thread[b].group] = b
    BY <1>0 DEF Callers
  <1>3. \A t \in Task : Ordered(t) /\ state[t] = COMPLETED => Settled(t)
    BY SettledIsCompleted DEF OrderedAlone
  <1>4. PICK d \in Group :
           /\ Syncer[d] = a /\ thread[a].at \notin TaskLabels
           /\ \/ /\ Waits(a, d, {"waiting"}) /\ thread[a].at = "sync"
                 /\ toWait' = [toWait EXCEPT ![a] = IF d \in OrderedGroup THEN <<lastTask[d]>>
                                                    ELSE runningDefault[d]]
                 /\ UNCHANGED <<runningDefault, lastTask>>
              \/ /\ Waits(a, d, {"waiting"}) /\ thread[a].at = "waiting"
                 /\ toWait[a] # <<>> /\ state[Head(toWait[a])] = COMPLETED
                 /\ toWait' = [toWait EXCEPT ![a] = Tail(@)]
                 /\ UNCHANGED <<runningDefault, lastTask>>
              \/ /\ Waits(a, d, {"clearing"}) /\ thread[a].at = "waiting"
                 /\ toWait[a] = <<>> /\ d \in OrderedGroup
                 /\ lastTask' = [lastTask EXCEPT ![d] = NoTask]
                 /\ UNCHANGED <<runningDefault, toWait>>
              \/ /\ Waits(a, d, {"idle"}) /\ WaitedForAll(a)
                 /\ runningDefault' = [runningDefault EXCEPT ![d] = <<>>]
                 /\ runningGroupable' = [runningGroupable EXCEPT ![d] = <<>>]
                 /\ UNCHANGED <<lastTask, toWait>>
    BY SyncEffect
  <1>5. /\ d = thread[a].group /\ UNCHANGED <<state, prevOrdered>>
        /\ \A b \in App : b # a => thread'[b] = thread[b]
        /\ thread'[a].at # "idle" => thread'[a].group = d
    BY <1>4 DEF Waits
  <1>6. PrevIsPrev'
    BY <1>1, <1>5, PrevSame
  <1>7. CASE /\ Waits(a, d, {"waiting"}) /\ thread[a].at = "sync"
             /\ toWait' = [toWait EXCEPT ![a] = IF d \in OrderedGroup THEN <<lastTask[d]>>
                                                ELSE runningDefault[d]]
             /\ UNCHANGED <<runningDefault, lastTask>>
    <2>1. thread'[a].at = "waiting" /\ \A b \in App : b # a => toWait'[b] = toWait[b]
      BY <1>0, <1>7 DEF Waits
    <2>2. DefaultKept' /\ LastIsLast' /\ LastForgotten'
      BY <1>1, <1>5, <1>7, <2>1, DefaultSame, LastSame, ForgottenSame
    <2>3. WaitsForAll'
      <3> SUFFICES ASSUME NEW b \in App, thread'[b].at = "waiting",
                          thread'[b].group \notin OrderedGroup,
                          NEW t \in Task, GroupOf[t] = thread'[b].group, Launcher(t) = b, Made(t)'
                   PROVE  t \in Elements(toWait'[b]) \/ Settled(t)
        BY DEF WaitsForAll, SettledSame
      <3>1. Made(t)
        BY <1>1
      <3>2. CASE b = a
        <4>1. toWait'[a] = runningDefault[d] /\ GroupOf[t] = d /\ ~Ordered(t)
          BY <1>0, <1>5, <1>7, <2>1, <3>2 DEF Ordered
        <4>2. Own(t)
          BY <1>4, <3>2, <4>1 DEF Own
        <4>3. QED
          BY <3>1, <3>2, <4>1, <4>2 DEF SyncLists, DefaultKept
      <3>3. CASE b # a
        <4>1. thread'[b] = thread[b] /\ toWait'[b] = toWait[b]
          BY <1>5, <2>1, <3>3
        <4>2. QED
          BY <3>1, <4>1 DEF SyncLists, WaitsForAll
      <3>4. QED
        BY <3>2, <3>3
    <2>4. WaitsForLast'
      <3> SUFFICES ASSUME NEW b \in App, thread'[b].at = "waiting",
                          thread'[b].group \in OrderedGroup
                   PROVE  \E p \in Task :
                            /\ p = lastTask'[thread'[b].group]
                            /\ toWait'[b] = <<p>> \/ (toWait'[b] = <<>> /\ Settled(p)')
        BY DEF WaitsForLast
      <3>1. CASE b = a
        <4>1. d \in OrderedGroup /\ toWait'[a] = <<lastTask[d]>> /\ lastTask[d] # NoTask
          BY <1>0, <1>5, <1>7, <2>1, <3>1 DEF Callers
        <4>2. QED
          BY <1>0, <1>5, <1>7, <2>1, <3>1, <4>1
      <3>2. CASE b # a
        <4>1. thread'[b] = thread[b] /\ toWait'[b] = toWait[b] /\ lastTask' = lastTask
          BY <1>5, <1>7, <2>1, <3>2
        <4>2. PICK p \in Task : /\ p = lastTask[thread[b].group]
                                /\ toWait[b] = <<p>> \/ (toWait[b] = <<>> /\ Settled(p))
          BY <4>1 DEF SyncLists, WaitsForLast
        <4>3. QED
          BY <4>1, <4>2 DEF SettledSame
      <3>3. QED
        BY <3>1, <3>2
    <2>5. QED
      BY <1>6, <2>2, <2>3, <2>4 DEF SyncLists
  <1>8. CASE /\ Waits(a, d, {"waiting"}) /\ thread[a].at = "waiting"
             /\ toWait[a] # <<>> /\ state[Head(toWait[a])] = COMPLETED
             /\ toWait' = [toWait EXCEPT ![a] = Tail(@)]
             /\ UNCHANGED <<runningDefault, lastTask>>
    <2>1. thread'[a].at = "waiting" /\ \A b \in App : b # a => toWait'[b] = toWait[b]
      BY <1>0, <1>8 DEF Waits
    <2>2. DefaultKept' /\ LastIsLast' /\ LastForgotten'
      BY <1>1, <1>5, <1>8, <2>1, DefaultSame, LastSame, ForgottenSame
    <2>3. PICK q \in Seq(Task) : q = toWait[a] /\ q # <<>> /\ toWait'[a] = Tail(q)
                                 /\ state[Head(q)] = COMPLETED
      BY <1>0, <1>8
    <2>4. WaitsForAll'
      <3> SUFFICES ASSUME NEW b \in App, thread'[b].at = "waiting",
                          thread'[b].group \notin OrderedGroup,
                          NEW t \in Task, GroupOf[t] = thread'[b].group, Launcher(t) = b, Made(t)'
                   PROVE  t \in Elements(toWait'[b]) \/ Settled(t)
        BY DEF WaitsForAll, SettledSame
      <3>1. Made(t)
        BY <1>1
      <3>2. CASE b = a
        <4>1. t \in Elements(q) \/ Settled(t)
          BY <1>5, <1>8, <2>1, <2>3, <3>1, <3>2 DEF SyncLists, WaitsForAll
        <4>2. \A u \in Elements(q) : u = Head(q) \/ u \in Elements(Tail(q))
          <5> SUFFICES ASSUME NEW i \in DOMAIN q, q[i] # Head(q)
                       PROVE  \E j \in DOMAIN Tail(q) : Tail(q)[j] = q[i]
            BY DEF Elements
          <5>1. /\ i \in 1..Len(q) /\ i # 1 /\ Len(q) \in Nat
                /\ DOMAIN Tail(q) = 1..Len(q) - 1
                /\ \A j \in 1..Len(q) - 1 : Tail(q)[j] = q[j + 1]
            BY <2>3
          <5>2. i - 1 \in 1..Len(q) - 1 /\ (i - 1) + 1 = i
            BY <5>1
          <5>3. QED
            BY <5>1, <5>2
        <4>3. t = Head(q) => Settled(t)
          BY <1>8, <2>3, <3>2 DEF Settled, Joining
        <4>4. QED
          BY <2>3, <3>2, <4>1, <4>2, <4>3
      <3>3. CASE b # a
        <4>1. thread'[b] = thread[b] /\ toWait'[b] = toWait[b]
          BY <1>5, <2>1, <3>3
        <4>2. QED
          BY <3>1, <4>1 DEF SyncLists, WaitsForAll
      <3>4. QED
        BY <3>2, <3>3
    <2>5. WaitsForLast'
      <3> SUFFICES ASSUME NEW b \in App, thread'[b].at = "waiting",
                          thread'[b].group \in OrderedGroup
                   PROVE  \E p \in Task :
                            /\ p = lastTask'[thread'[b].group]
                            /\ toWait'[b] = <<p>> \/ (toWait'[b] = <<>> /\ Settled(p)')
        BY DEF WaitsForLast
      <3>1. /\ thread[b].at = "waiting" /\ thread[b].group = thread'[b].group
            /\ lastTask' = lastTask
        BY <1>5, <1>8, <2>1
      <3>2. PICK p \in Task : /\ p = lastTask[thread[b].group]
                              /\ toWait[b] = <<p>> \/ (toWait[b] = <<>> /\ Settled(p))
        BY <3>1 DEF SyncLists, WaitsForLast
      <3>3. CASE b = a
        <4>1. q = <<p>>
          BY <2>3, <3>2, <3>3
        <4>2. Head(q) = p /\ Tail(q) = <<>>
          BY <4>1
        <4>3. Ordered(p)
          BY <1>0, <3>1, <3>2 DEF SyncLists, LastIsLast, Ordered
        <4>4. Settled(p)'
          BY <1>3, <2>3, <4>2, <4>3 DEF SettledSame
        <4>5. QED
          BY <2>3, <3>1, <3>2, <3>3, <4>2, <4>4
      <3>4. CASE b # a
        BY <2>1, <3>1, <3>2, <3>4 DEF SettledSame
      <3>5. QED
        BY <3>3, <3>4
    <2>6. QED
      BY <1>6, <2>2, <2>4, <2>5 DEF SyncLists
  <1>9. CASE /\ Waits(a, d, {"clearing"}) /\ thread[a].at = "waiting"
             /\ toWait[a] = <<>> /\ d \in OrderedGroup
             /\ lastTask' = [lastTask EXCEPT ![d] = NoTask]
             /\ UNCHANGED <<runningDefault, toWait>>
    <2>1. thread'[a].at = "clearing"
      BY <1>9 DEF Waits
    <2>2. /\ lastTask'[d] = NoTask
          /\ \A g \in Group : g # d => lastTask'[g] = lastTask[g]
      BY <1>0, <1>9
    <2>3. DefaultKept' /\ WaitsForAll'
      BY <1>1, <1>5, <1>9, <2>1, DefaultSame, ForAllSame
    <2>4. WaitsForLast'
      <3>1. \A b \in App : thread'[b].at = "waiting" /\ thread'[b].group \in OrderedGroup =>
              /\ thread'[b] = thread[b] /\ toWait'[b] = toWait[b]
              /\ thread'[b].group # d /\ thread'[b].group \in Group
        BY <1>0, <1>2, <1>4, <1>5, <1>9, <2>1
      <3>2. QED
        BY <2>2, <3>1, ForLastSame
    <2>5. LastForgotten'
      <3> SUFFICES ASSUME NEW b \in App, thread'[b].at = "clearing"
                   PROVE  thread'[b].group \in OrderedGroup /\ lastTask'[thread'[b].group] = NoTask
        BY DEF LastForgotten
      <3>1. CASE b = a
        BY <1>5, <1>9, <2>1, <2>2, <3>1
      <3>2. CASE b # a
        <4>1. thread'[b] = thread[b]
          BY <1>5, <3>2
        <4>2. thread[b].group \in OrderedGroup /\ lastTask[thread[b].group] = NoTask
          BY <4>1 DEF SyncLists, LastForgotten
        <4>3. QED
          BY <1>0, <2>2, <4>1, <4>2
      <3>3. QED
        BY <3>1, <3>2
    <2>6. \A u \in Task : GroupOf[u] = d /\ Made(u) => Settled(u)
      <3>1. PICK p \in Task : p = lastTask[d] /\ Settled(p)
        <4>1. PICK p \in Task : /\ p = lastTask[thread[a].group]
                                /\ toWait[a] = <<p>> \/ (toWait[a] = <<>> /\ Settled(p))
          BY <1>5, <1>9 DEF SyncLists, WaitsForLast
        <4>2. <<p>> # <<>>
          OBVIOUS
        <4>3. QED
          BY <1>5, <1>9, <4>1, <4>2
      <3>2. p # NoTask
        BY <1>0
      <3>3. \A u \in Task : GroupOf[u] = d /\ Made(u) => u = p \/ Before(u, p)
        BY <1>9, <3>1, <3>2 DEF SyncLists, LastIsLast, LastOf
      <3>4. \A u \in Task : Before(u, p) => state[u] = COMPLETED
        BY <3>1 DEF DoneInOrder, Settled
      <3>5. \A u \in Task : GroupOf[u] = d => Ordered(u)
        BY <1>9 DEF Ordered
      <3>6. QED
        BY <1>3, <3>1, <3>3, <3>4, <3>5
    <2>7. LastIsLast'
      <3> SUFFICES ASSUME NEW g \in OrderedGroup
                   PROVE  \E p \in Task \cup {NoTask} :
                            /\ p = lastTask'[g]
                            /\ p # NoTask => GroupOf[p] = g /\ Made(p)'
                            /\ \A u \in Task : GroupOf[u] = g /\ Made(u)' => LastOf(p, u)'
        BY DEF LastIsLast, LastOf, Made
      <3>1. CASE g = d
        <4>1. \A u \in Task : GroupOf[u] = g /\ Made(u)' => LastOf(NoTask, u)'
          BY <1>1, <2>6, <3>1 DEF LastOf, SettledSame
        <4>2. QED
          BY <2>2, <3>1, <4>1
      <3>2. CASE g # d
        <4>1. PICK p \in Task \cup {NoTask} : p = lastTask[g] /\ p = lastTask'[g]
          BY <1>0, <2>2, <3>2
        <4>2. /\ p # NoTask => GroupOf[p] = g /\ Made(p)
              /\ \A u \in Task : GroupOf[u] = g /\ Made(u) => LastOf(p, u)
          BY <4>1 DEF SyncLists, LastIsLast
        <4>3. \A u \in Task : LastOf(p, u) => LastOf(p, u)'
          BY DEF SettledSame, LastOf
        <4>4. QED
          BY <1>1, <4>1, <4>2, <4>3
      <3>3. QED
        BY <3>1, <3>2
    <2>8. QED
      BY <1>6, <2>3, <2>4, <2>5, <2>7 DEF SyncLists
  <1>10. CASE /\ Waits(a, d, {"idle"}) /\ WaitedForAll(a)
              /\ runningDefault' = [runningDefault EXCEPT ![d] = <<>>]
              /\ runningGroupable' = [runningGroupable EXCEPT ![d] = <<>>]
              /\ UNCHANGED <<lastTask, toWait>>
    <2>1. thread'[a].at = "idle"
      BY <1>10 DEF Waits
    <2>2. WaitsForAll' /\ LastIsLast' /\ WaitsForLast' /\ LastForgotten'
      BY <1>1, <1>5, <1>10, <2>1, ForAllSame, LastSame, ForLastSame, ForgottenSame
    <2>3. DefaultKept'
      <3> SUFFICES ASSUME NEW t \in Task, ~Ordered(t), Own(t), Made(t)'
                   PROVE  t \in Elements(runningDefault'[GroupOf[t]]) \/ Settled(t)
        BY DEF DefaultKept, SettledSame
      <3>1. Made(t) /\ GroupOf[t] \in Group
        BY <1>1, SmallFacts
      <3>2. CASE GroupOf[t] = d
        <4>1. Launcher(t) = a
          BY <1>4, <3>2 DEF Own
        <4>2. QED
          BY <1>5, <1>10, <3>1, <3>2, <4>1, WaitedSettled
      <3>3. CASE GroupOf[t] # d
        <4>1. runningDefault'[GroupOf[t]] = runningDefault[GroupOf[t]]
          BY <1>0, <1>10, <3>1, <3>3
        <4>2. QED
          BY <3>1, <4>1 DEF SyncLists, DefaultKept
      <3>4. QED
        BY <3>2, <3>3
    <2>4. QED
      BY <1>6, <2>2, <2>3 DEF SyncLists
  <1>11. QED
    BY <1>4, <1>7, <1>8, <1>9, <1>10

LEMMA ListsStep ==
  ASSUME OrderedAlone, OwnersInv, OwnersInv', PacketsInv, LaunchInv, SyncLists, DoneInOrder,
         SettledSame, [Next]_vars
  PROVE  SyncLists'
  <1>1. CASE \E a \in App : Launch(a)
    BY <1>1, ListsConstruct DEF Launch
  <1>2. CASE \E a \in App : \/ SyncCounted(a) \/ SyncWaited(a) \/ SyncForgetsLast(a)
                            \/ SyncClears(a)
    BY <1>2, ListsSync DEF Sync
  <1>3. CASE Elsewhere /\ MadeSame
    BY <1>3, ListsElsewhere
  <1>4. QED
    BY <1>1, <1>2, <1>3, ElsewhereSteps, MadeSteps

-------------------------------------------------------------------------------
(***************************************************************************)
(* The order in which the tasks of an ordered group become ready.          *)
(***************************************************************************)
LEMMA TriedMade ==
  ASSUME OwnersInv, LaunchInv, NEW h \in Thread, thread[h].at = "try",
         NEW t \in Task, t = thread[h].task
  PROVE  Made(t)
  <1>1. CASE h = Callback
    BY <1>1 DEF LaunchInv, HandlerTriesMade, At
  <1>2. CASE h \in App
    <2>1. Launcher(t) = h
      BY <1>2 DEF LaunchInv, LaunchersOwn, TaskLabels
    <2>2. QED
      BY <2>1 DEF Made
  <1>3. QED
    BY <1>1, <1>2 DEF Thread

LEMMA ReadyOrderKept ==
  ASSUME OwnersInv, LaunchInv, SyncLists, ReadyInOrder, [Next]_vars
  PROVE  ReadyInOrder'
  <1>0. /\ Types /\ state \in [Task -> UNINITIALIZED..COMPLETED]
        /\ prevOrdered \in [Task -> Task \cup {NoTask}]
        /\ \A t \in Task : state[t] \in Int
    BY ReadyStates DEF OwnersInv, Types, TasksTyped
  <1>1. SUFFICES /\ \A u \in Task : state[u] >= READY => state'[u] >= READY
                 /\ \A t \in Task : state'[t] >= READY =>
                      \/ state[t] >= READY
                      \/ \A u \in Task : Before(u, t) => state[u] >= READY
    BY DEF ReadyInOrder, Before
  <1>2. CASE Aside
    BY <1>0, <1>2, ReadyStates DEF Aside
  <1>3. ASSUME NEW h \in Thread, TryAcquires(h)
        PROVE  /\ \A u \in Task : state[u] >= READY => state'[u] >= READY
               /\ \A t \in Task : state'[t] >= READY =>
                    \/ state[t] >= READY
                    \/ \A u \in Task : Before(u, t) => state[u] >= READY
    <2>1. PICK t \in Task : /\ Dispatches(h, t, "try", {"push"})
                            /\ ~PrevBlocks(t) /\ state' = [state EXCEPT ![t] = READY]
      BY <1>0, <1>3, AcquireEffect
    <2>2. Made(t)
      BY <2>1, TriedMade DEF Dispatches
    <2>3. ASSUME NEW u \in Task, Before(u, t) PROVE state[u] >= READY
      <3>1. PICK p \in Task \cup {NoTask} : p = prevOrdered[t] /\ LastOf(p, u)
        BY <1>0, <2>2, <2>3 DEF SyncLists, PrevIsPrev, Before
      <3>2. CASE p = NoTask
        BY <3>1, <3>2, ReadyStates DEF LastOf, Settled
      <3>3. CASE p # NoTask
        <4>1. ~(IF KindOf[p] = KindOf[t] THEN state[p] < READY ELSE state[p] < EXECUTED)
          BY <2>1, <3>1, <3>3 DEF PrevBlocks
        <4>2. p \in Task /\ state[p] \in Int
          BY <1>0, <3>3
        <4>3. state[p] >= READY
          BY <4>1, <4>2, ReadyStates
        <4>4. u = p \/ Before(u, p)
          BY <3>1, <3>3 DEF LastOf
        <4>5. QED
          BY <4>2, <4>3, <4>4 DEF ReadyInOrder
      <3>4. QED
        BY <3>2, <3>3
    <2>4. QED
      BY <1>0, <2>1, <2>3, ReadyStates
  <1>4. ASSUME NEW h \in Thread, JoinRunning(h) \/ MarkDispatched(h) \/ Publish(h)
        PROVE  \A u \in Task : state[u] >= READY <=> state'[u] >= READY
    <2>1. PICK t \in Task, l \in Dispatching :
            /\ \E L : Dispatches(h, t, l, L)
            /\ state' = state \/ state' = [state EXCEPT ![t] = DISPATCHED]
      BY <1>0, <1>4, DispatchEffect DEF Dispatching
    <2>2. state[t] >= READY
      BY <2>1 DEF OwnersInv, DispatchersApart, Dispatches
    <2>3. QED
      BY <1>0, <2>1, <2>2, ReadyStates
  <1>5. CASE TakeRunning
    BY <1>0, <1>5, TakeEffect
  <1>6. CASE ReleaseTasks
    <2>1. \A t \in Task : t \in Elements(groupTasks) => state[t] \in {READY, DISPATCHED}
      BY <1>0, <1>6, ReleaseEffect DEF OwnersInv, RunningUnfinished, Running, At
    <2>2. \A t \in Task : state'[t] = IF t \in Elements(groupTasks) THEN COMPLETED ELSE state[t]
      BY <1>0, <1>6, ReleaseEffect
    <2>3. QED
      BY <1>0, <2>1, <2>2, ReadyStates
  <1>7. CASE \E t \in Task : CompletePacket(t)
    BY <1>7, DeviceEffect
  <1>8. QED
    BY <1>2, <1>3, <1>4, <1>5, <1>6, <1>7, AsideSteps

-------------------------------------------------------------------------------
(***************************************************************************)
(* The order in which they are completed: the handler takes the tasks that *)
(* run when the signal is at 0, so it takes all that are ready.            *)
(***************************************************************************)
LEMMA DoneSteps ==
  ASSUME OwnersInv, [Next]_vars, NEW t \in Task
  PROVE  /\ At(Callback, "release") /\ t \in Elements(groupTasks) =>
              \/ state'[t] = COMPLETED
              \/ At(Callback, "release")' /\ t \in Elements(groupTasks')
         /\ Done(t)' => Done(t) \/ TakeRunning
         /\ state'[t] = COMPLETED =>
              state[t] = COMPLETED \/ (ReleaseTasks /\ t \in Elements(groupTasks))
  <1>0. /\ Types /\ Callback \in Thread
        /\ state \in [Task -> UNINITIALIZED..COMPLETED]
    BY SmallFacts DEF OwnersInv, Types, TasksTyped
  <1>1. CASE Aside
    <2>1. state'[t] = state[t] \/ state'[t] = INITIALIZED
      BY <1>1 DEF Aside
    <2>2. thread[Callback].at = "release" \/ thread'[Callback].at = "release" =>
            thread'[Callback].at = thread[Callback].at /\ groupTasks' = groupTasks
      BY <1>1 DEF Aside
    <2>3. QED
      BY <2>1, <2>2, ReadyStates DEF Done, At
  <1>2. ASSUME NEW h \in Thread,
               TryAcquires(h) \/ JoinRunning(h) \/ MarkDispatched(h) \/ Publish(h)
        PROVE  /\ state'[t] = COMPLETED => state[t] = COMPLETED
               /\ thread[Callback].at = "release" \/ thread'[Callback].at = "release" =>
                    thread'[Callback].at = thread[Callback].at /\ groupTasks' = groupTasks
    <2>1. PICK u \in Task, l \in Dispatching \cup {"try"} :
            /\ \E L \in SUBSET Dispatching : Dispatches(h, u, l, L)
            /\ \/ state' = state \/ state' = [state EXCEPT ![u] = READY]
               \/ state' = [state EXCEPT ![u] = DISPATCHED]
      <3>1. /\ {"push"} \in SUBSET Dispatching /\ {"mark", "publish"} \in SUBSET Dispatching
            /\ {"arm", "publish"} \in SUBSET Dispatching /\ {"mark", "arm"} \in SUBSET Dispatching
            /\ "push" \in Dispatching /\ "mark" \in Dispatching /\ "publish" \in Dispatching
        BY DEF Dispatching
      <3>2. CASE TryAcquires(h)
        BY <1>0, <3>1, <3>2, AcquireEffect
      <3>3. CASE JoinRunning(h) \/ MarkDispatched(h) \/ Publish(h)
        BY <1>0, <3>1, <3>3, DispatchEffect
      <3>4. QED
        BY <1>2, <3>2, <3>3
    <2>2. state'[t] = COMPLETED => state[t] = COMPLETED
      BY <1>0, <2>1, ReadyStates
    <2>3. /\ thread[h].at # "release" /\ thread'[h].at # "release"
          /\ \A i \in Thread : i # h => thread'[i] = thread[i]
          /\ groupTasks' = groupTasks
      BY <2>1 DEF Dispatches, Dispatching
    <2>4. QED
      BY <1>0, <2>2, <2>3
  <1>3. CASE TakeRunning
    BY <1>0, <1>3, TakeEffect DEF At
  <1>4. CASE ReleaseTasks
    <2>1. /\ thread[Callback].at = "release"
          /\ thread'[Callback].at # "release"
          /\ state'[t] = IF t \in Elements(groupTasks) THEN COMPLETED ELSE state[t]
      BY <1>0, <1>4, ReleaseEffect
    <2>2. QED
      BY <1>4, <2>1 DEF Done, At
  <1>5. CASE \E u \in Task : CompletePacket(u)
    BY <1>5, DeviceEffect DEF Done, At
  <1>6. QED
    BY <1>1, <1>2, <1>3, <1>4, <1>5, AsideSteps DEF Done, At

\* When the handler takes the tasks of a group none has packets left.
LEMMA TakenEmpty ==
  ASSUME OwnersInv, PacketsInv, NEW d \in Group, groupSignal[d] = 0,
         NEW t \in Task, GroupOf[t] = d
  PROVE  packetsLeft[t] = 0 /\ ~Pushing(t)
  <1>1. Outstanding(d) = {}
    BY FS_EmptySet DEF PacketsInv, SignalCounts
  <1>2. packetsLeft[t] = 0
    <2> SUFFICES ASSUME packetsLeft[t] # 0 PROVE FALSE
      OBVIOUS
    <2>1. packetsLeft[t] \in Nat
      BY DEF OwnersInv, Types, TasksTyped
    <2>2. <<t, 1>> \in Outstanding(d)
      BY <2>1 DEF Outstanding
    <2>3. QED
      BY <1>1, <2>2
  <1>3. ASSUME NEW h \in Thread, thread[h].at = "push", thread[h].task = t PROVE FALSE
    <2>1. packetsLeft[t] > 0
      BY <1>3 DEF PacketsInv, UnseenKept, Unseen
    <2>2. QED
      BY <1>2, <2>1
  <1>4. QED
    BY <1>2, <1>3 DEF Pushing

LEMMA DoneOrderKept ==
  ASSUME OrderedAlone, OwnersInv, PacketsInv, ReadyInOrder, DoneInOrder, AcquiredRun,
         SettledSame, [Next]_vars
  PROVE  DoneInOrder'
  <1>0. Types /\ \A t \in Task : state[t] \in Int
    BY ReadyStates DEF OwnersInv, Types, TasksTyped
  <1>1. SUFFICES ASSUME NEW u \in Task, NEW t \in Task, Before(u, t)
                 PROVE  /\ state'[t] = COMPLETED => state'[u] = COMPLETED
                        /\ Done(t)' => Done(u)'
    BY DEF DoneInOrder, Before
  <1>2. KindOf[u] # "cpu" /\ Own(u) /\ GroupOf[u] = GroupOf[t] /\ Before(u, t)
    BY <1>1, BeforeFacts DEF Before
  <1>3. /\ state[t] = COMPLETED => state[u] = COMPLETED
        /\ Done(t) => Done(u)
    BY <1>2 DEF DoneInOrder
  <1>4. state[u] = COMPLETED => state'[u] = COMPLETED
    BY <1>2, SettledIsCompleted DEF SettledSame, Settled
  <1>5. Done(u) => Done(u)'
    BY <1>4, DoneSteps DEF Done
  <1>6. state'[t] = COMPLETED => state'[u] = COMPLETED
    <2>1. CASE state[t] = COMPLETED
      BY <1>3, <1>4, <2>1
    <2>2. CASE ReleaseTasks /\ t \in Elements(groupTasks)
      <3>1. /\ thread[Callback].at = "release"
            /\ state'[u] = IF u \in Elements(groupTasks) THEN COMPLETED ELSE state[u]
        BY <1>0, <2>2, ReleaseEffect
      <3>2. Done(u)
        BY <1>3, <2>2, <3>1 DEF Done, At
      <3>3. QED
        BY <3>1, <3>2 DEF Done
    <2>3. QED
      BY <2>1, <2>2, DoneSteps
  <1>7. ASSUME TakeRunning, Done(t)', ~Done(t), state[u] # COMPLETED PROVE Done(u)'
    <2>1. PICK d \in Group :
             /\ thread[Callback].at = "drain" /\ thread'[Callback].at = "release"
             /\ groupSignal[d] = 0 /\ groupTasks' = runningGroupable[d] /\ state' = state
      BY <1>0, <1>7, TakeEffect
    <2>2. t \in Elements(runningGroupable[d])
      BY <1>7, <2>1 DEF Done, At
    <2>3. GroupOf[t] = d /\ GroupOf[u] = d
      BY <1>2, <2>2 DEF OwnersInv, ListsOwn
    <2>4. state[t] \in {READY, DISPATCHED}
      BY <2>2, <2>3 DEF OwnersInv, RunningUnfinished, Running
    <2>5. state[u] >= READY
      BY <1>2, <2>4, ReadyStates DEF ReadyInOrder
    <2>6. Running(u) \/ Pushing(u)
      BY <1>2, <1>7, <2>5 DEF AcquiredRun
    <2>7. ~Pushing(u)
      BY <2>1, <2>3, TakenEmpty
    <2>8. u \in Elements(groupTasks')
      BY <2>1, <2>3, <2>6, <2>7 DEF Running, At
    <2>9. QED
      BY <2>1, <2>8 DEF Done, At
  <1>8. Done(t)' => Done(u)'
    <2>1. state[u] = COMPLETED => Done(u)
      BY DEF Done
    <2>2. QED
      BY <1>3, <1>5, <1>7, <2>1, DoneSteps
  <1>9. QED
    BY <1>6, <1>8

-------------------------------------------------------------------------------
(***************************************************************************)
(* A task that is ready and not completed is in the hands of a dispatcher  *)
(* or of the handler, now and to come.                                     *)
(***************************************************************************)
Acquired(t) ==
  /\ Own(t) /\ state[t] >= READY /\ state[t] # COMPLETED
  /\ state[t] = DISPATCHED => KindOf[t] # "cpu"

\* A step that leaves t with whom it is.
LEMMA HandsKept ==
  ASSUME OwnersInv, NEW t \in Task, Running(t) \/ Pushing(t),
         \A h \in Thread : thread[h].at = "push" /\ thread[h].task = t =>
           thread'[h].at = "push" /\ thread'[h].task = t,
         thread[Callback].at = "release" =>
           thread'[Callback].at = "release" /\ groupTasks' = groupTasks,
         Elements(runningGroupable[GroupOf[t]]) \subseteq Elements(runningGroupable'[GroupOf[t]])
  PROVE  Running(t)' \/ Pushing(t)'
  BY DEF Running, Pushing, At

LEMMA AcquiredAside ==
  ASSUME OwnersInv, SyncLists, AcquiredRun, Aside, NEW t \in Task, Acquired(t)'
  PROVE  Running(t)' \/ Pushing(t)'
  <1>0. /\ Types /\ state \in [Task -> UNINITIALIZED..COMPLETED]
        /\ runningGroupable \in [Group -> Seq(Task)] /\ GroupOf[t] \in Group
    BY SmallFacts DEF OwnersInv, Types, TasksTyped, GroupsTyped
  <1>1. state'[t] = state[t]
    BY <1>0, ReadyStates DEF Aside, Acquired
  <1>2. Acquired(t)
    BY <1>1 DEF Acquired, Own
  <1>3. Running(t) \/ Pushing(t)
    BY <1>2 DEF AcquiredRun, Acquired
  <1>4. /\ \A h \in Thread : thread[h].at = "push" /\ thread[h].task = t =>
             thread'[h].at = "push" /\ thread'[h].task = t
        /\ thread[Callback].at = "release" =>
             thread'[Callback].at = "release" /\ groupTasks' = groupTasks
    BY DEF Aside, Joining
  <1>5. runningGroupable'[GroupOf[t]] = runningGroupable[GroupOf[t]]
    <2>1. CASE runningGroupable' = runningGroupable
      BY <2>1
    <2>2. ASSUME NEW a \in App, SyncClears(a)
          PROVE  runningGroupable'[GroupOf[t]] = runningGroupable[GroupOf[t]]
      <3>1. PICK d : d = thread[a].group
        OBVIOUS
      <3>2. WaitedForAll(a) /\ runningGroupable' = [runningGroupable EXCEPT ![d] = <<>>]
        BY <2>2, <3>1 DEF SyncClears
      <3>3. Syncer[d] = a
        BY <3>1, <3>2 DEF WaitedForAll, At, OwnersInv, Callers
      <3>4. GroupOf[t] # d
        <4> SUFFICES ASSUME GroupOf[t] = d PROVE FALSE
          OBVIOUS
        <4>1. Launcher(t) = a
          BY <1>2, <3>3 DEF Acquired, Own
        <4>2. Made(t)
          BY <1>0, <1>2, ReadyStates DEF Acquired, Made
        <4>3. Settled(t)
          BY <3>1, <3>2, <4>1, <4>2, WaitedSettled
        <4>4. QED
          BY <1>2, <4>3 DEF Acquired, Settled
      <3>5. QED
        BY <1>0, <3>2, <3>4
    <2>3. QED
      BY <2>1, <2>2 DEF Aside
  <1>6. QED
    BY <1>3, <1>4, <1>5, HandsKept

LEMMA AcquiredDispatch ==
  ASSUME OwnersInv, PacketsInv, AcquiredRun, NEW h \in Thread,
         TryAcquires(h) \/ JoinRunning(h) \/ MarkDispatched(h) \/ Publish(h),
         NEW t \in Task, Acquired(t)'
  PROVE  Running(t)' \/ Pushing(t)'
  <1>0. /\ Types /\ state \in [Task -> UNINITIALIZED..COMPLETED]
        /\ runningGroupable \in [Group -> Seq(Task)] /\ GroupOf[t] \in Group
        /\ Callback \in Thread
    BY SmallFacts DEF OwnersInv, Types, TasksTyped, GroupsTyped
  <1>1. Acquired(t) => Running(t) \/ Pushing(t)
    BY DEF AcquiredRun, Acquired
  <1>2. state'[t] = state[t] => Acquired(t)
    BY DEF Acquired, Own
  <1>3. PICK u \in Task :
           /\ u = thread[h].task /\ thread[h].at # "release"
           /\ \A i \in Thread : i # h => thread'[i] = thread[i]
           /\ UNCHANGED groupTasks
           /\ \/ /\ thread[h].at = "try" /\ thread'[h].at = "push" /\ thread'[h].task = u
                 /\ state' = [state EXCEPT ![u] = READY] /\ UNCHANGED runningGroupable
              \/ /\ thread[h].at = "push" /\ state' = state
                 /\ runningGroupable' = [runningGroupable EXCEPT ![GroupOf[u]] = Append(@, u)]
              \/ /\ thread[h].at = "mark" /\ state' = [state EXCEPT ![u] = DISPATCHED]
                 /\ UNCHANGED runningGroupable
              \/ thread[h].at = "publish" /\ UNCHANGED <<state, runningGroupable>>
    <2>1. CASE TryAcquires(h)
      BY <1>0, <2>1, AcquireEffect DEF Dispatches
    <2>2. CASE JoinRunning(h) \/ MarkDispatched(h) \/ Publish(h)
      BY <1>0, <2>2, DispatchEffect DEF Dispatches
    <2>3. QED
      BY <2>1, <2>2
  <1>4. thread[Callback].at = "release" =>
          thread'[Callback].at = "release" /\ groupTasks' = groupTasks
    BY <1>0, <1>3
  <1>5. Elements(runningGroupable[GroupOf[t]]) \subseteq Elements(runningGroupable'[GroupOf[t]])
    <2>1. \/ runningGroupable' = runningGroupable
          \/ runningGroupable' = [runningGroupable EXCEPT ![GroupOf[u]] = Append(@, u)]
      BY <1>3
    <2>2. \A q \in Seq(Task) : Elements(q) \subseteq Elements(Append(q, u))
      BY ElementsOf
    <2>3. \/ runningGroupable'[GroupOf[t]] = runningGroupable[GroupOf[t]]
          \/ runningGroupable'[GroupOf[t]] = Append(runningGroupable[GroupOf[t]], u)
      BY <1>0, <2>1
    <2>4. QED
      BY <1>0, <2>2, <2>3
  <1>6. CASE u # t
    <2>1. state'[t] = state[t]
      BY <1>0, <1>3, <1>6
    <2>2. \A i \in Thread : thread[i].at = "push" /\ thread[i].task = t =>
            thread'[i].at = "push" /\ thread'[i].task = t
      BY <1>3, <1>6
    <2>3. QED
      BY <1>1, <1>2, <1>4, <1>5, <2>1, <2>2, HandsKept
  <1>7. CASE u = t /\ thread[h].at = "try"
    BY <1>3, <1>7 DEF Pushing
  <1>8. CASE u = t /\ thread[h].at = "push"
    <2>1. runningGroupable'[GroupOf[t]] = Append(runningGroupable[GroupOf[t]], t)
      BY <1>0, <1>3, <1>8
    <2>2. t \in Elements(runningGroupable'[GroupOf[t]])
      BY <1>0, <2>1, ElementsOf
    <2>3. QED
      BY <2>2 DEF Running
  <1>9. CASE u = t /\ thread[h].at \in {"mark", "publish"}
    <2>1. ~Pushing(t)
      BY <1>3, <1>9 DEF Pushing, OwnersInv, DispatchersApart, Dispatching
    <2>2. Acquired(t)
      <3>1. CASE thread[h].at = "publish"
        BY <1>2, <1>3, <3>1
      <3>2. CASE thread[h].at = "mark"
        <4>1. state'[t] = DISPATCHED
          BY <1>0, <1>3, <1>9, <3>2
        <4>2. KindOf[t] # "cpu" /\ Own(t)
          BY <4>1 DEF Acquired, Own
        <4>3. packetsLeft[t] > 0
          BY <1>3, <1>9, <3>2, <4>2 DEF PacketsInv, UnseenKept, Unseen
        <4>4. state[t] # COMPLETED
          BY <4>3 DEF PacketsInv, DoneEmpty, Done
        <4>5. state[t] = READY
          BY <1>3, <1>9, <3>2, <4>4 DEF PacketsInv, MarkedOnce
        <4>6. QED
          BY <4>2, <4>5, ReadyStates DEF Acquired
      <3>3. QED
        BY <1>9, <3>1, <3>2
    <2>3. Running(t)
      BY <1>1, <2>1, <2>2
    <2>4. Running(t)'
      BY <1>4, <1>5, <2>3 DEF Running, At
    <2>5. QED
      BY <2>4
  <1>10. QED
    BY <1>3, <1>6, <1>7, <1>8, <1>9

LEMMA AcquiredKept ==
  ASSUME OwnersInv, PacketsInv, SyncLists, AcquiredRun, [Next]_vars
  PROVE  AcquiredRun'
  <1>0. Types /\ runningGroupable \in [Group -> Seq(Task)] /\ Callback \in Thread
    BY SmallFacts DEF OwnersInv, Types, GroupsTyped
  <1>1. SUFFICES ASSUME NEW t \in Task, Acquired(t)'
                 PROVE  Running(t)' \/ Pushing(t)'
    BY DEF AcquiredRun, Acquired
  <1>2. state'[t] = state[t] => Running(t) \/ Pushing(t)
    BY <1>1 DEF AcquiredRun, Acquired, Own
  <1>3. CASE Aside
    BY <1>1, <1>3, AcquiredAside
  <1>4. ASSUME NEW h \in Thread,
               TryAcquires(h) \/ JoinRunning(h) \/ MarkDispatched(h) \/ Publish(h)
        PROVE  Running(t)' \/ Pushing(t)'
    BY <1>1, <1>4, AcquiredDispatch
  <1>5. CASE TakeRunning
    <2>1. PICK d \in Group :
             /\ thread[Callback].at = "drain" /\ thread'[Callback].at = "release"
             /\ \A i \in Thread : i # Callback => thread'[i] = thread[i]
             /\ groupTasks' = runningGroupable[d]
             /\ runningGroupable' = [runningGroupable EXCEPT ![d] = <<>>]
             /\ state' = state
      BY <1>0, <1>5, TakeEffect
    <2>2. CASE Pushing(t)
      <3>1. PICK h \in Thread : thread[h].at = "push" /\ thread[h].task = t
        BY <2>2 DEF Pushing
      <3>2. thread'[h] = thread[h]
        BY <2>1, <3>1
      <3>3. QED
        BY <3>1, <3>2 DEF Pushing
    <2>3. CASE Running(t)
      <3>1. t \in Elements(runningGroupable[GroupOf[t]]) /\ GroupOf[t] \in Group
        BY <2>1, <2>3, SmallFacts DEF Running, At
      <3>2. CASE GroupOf[t] = d
        BY <2>1, <3>1, <3>2 DEF Running, At
      <3>3. CASE GroupOf[t] # d
        <4>1. runningGroupable'[GroupOf[t]] = runningGroupable[GroupOf[t]]
          BY <1>0, <2>1, <3>1, <3>3
        <4>2. QED
          BY <3>1, <4>1 DEF Running
      <3>4. QED
        BY <3>2, <3>3
    <2>4. QED
      BY <1>2, <2>1, <2>2, <2>3
  <1>6. CASE ReleaseTasks
    <2>1. /\ thread[Callback].at = "release"
          /\ \A i \in Thread : i # Callback => thread'[i] = thread[i]
          /\ state'[t] = IF t \in Elements(groupTasks) THEN COMPLETED ELSE state[t]
          /\ UNCHANGED runningGroupable
      BY <1>0, <1>6, ReleaseEffect
    <2>2. t \notin Elements(groupTasks) /\ state'[t] = state[t]
      BY <1>1, <2>1 DEF Acquired
    <2>3. Running(t) => Running(t)'
      BY <2>1, <2>2 DEF Running
    <2>4. Pushing(t) => Pushing(t)'
      <3>1. \A h \in Thread : thread[h].at = "push" => thread'[h] = thread[h]
        BY <2>1
      <3>2. QED
        BY <3>1 DEF Pushing
    <2>5. QED
      BY <1>2, <2>2, <2>3, <2>4
  <1>7. CASE \E u \in Task : CompletePacket(u)
    BY <1>2, <1>7, DeviceEffect DEF Running, Pushing, At
  <1>8. QED
    BY <1>3, <1>4, <1>5, <1>6, <1>7, AsideSteps

-------------------------------------------------------------------------------
LEMMA SyncInit == Init => SyncInv
  <1> SUFFICES ASSUME Init PROVE SyncInv
    OBVIOUS
  <1>1. \A h \in Thread : thread[h].at = "idle"
    BY DEF Init, Idle, Frame
  <1>2. \A t \in Task : state[t] = UNINITIALIZED /\ ~Made(t)
    <2>1. \A a \in App : thread[a].at = "idle"
      BY <1>1, SmallFacts
    <2>2. QED
      BY <2>1, LauncherFacts DEF Init, Made
  <1>3. CallbackLive
    BY <1>1, SmallFacts DEF CallbackLive, Dispatching
  <1>4. SyncLists
    <2>1. DefaultKept /\ PrevIsPrev
      BY <1>2 DEF DefaultKept, PrevIsPrev
    <2>2. WaitsForAll /\ WaitsForLast /\ LastForgotten
      BY <1>1, SmallFacts DEF WaitsForAll, WaitsForLast, LastForgotten
    <2>3. LastIsLast
      BY <1>2, SmallFacts DEF LastIsLast, Init
    <2>4. QED
      BY <2>1, <2>2, <2>3 DEF SyncLists
  <1>5. ReadyInOrder /\ AcquiredRun
    BY <1>2, ReadyStates DEF ReadyInOrder, AcquiredRun
  <1>6. DoneInOrder
    <2>1. \A t \in Task : ~Done(t)
      BY <1>1, <1>2, SmallFacts, ReadyStates DEF Done, At
    <2>2. QED
      BY <1>2, <2>1, ReadyStates DEF DoneInOrder
  <1>7. QED
    BY <1>3, <1>4, <1>5, <1>6 DEF SyncInv

LEMMA SyncStep ==
  ASSUME OrderedAlone, OwnersInv, OwnersInv', PacketsInv, LaunchInv, SyncInv, [Next]_vars
  PROVE  SyncInv'
  <1>1. CallbackLive /\ SyncLists /\ ReadyInOrder /\ DoneInOrder /\ AcquiredRun
    BY DEF SyncInv
  <1>2. CallbackLive'
    BY <1>1, CallbackLiveKept
  <1>3. SettledSame
    BY <1>1, SettledKept DEF SettledSame, LaunchInv
  <1>4. SyncLists' /\ ReadyInOrder' /\ DoneInOrder' /\ AcquiredRun'
    BY <1>1, <1>3, ListsStep, ReadyOrderKept, DoneOrderKept, AcquiredKept
  <1>5. QED
    BY <1>2, <1>4 DEF SyncInv

LEMMA SyncAlways ==
  OrderedAlone => (Spec => [](OwnersInv /\ PacketsInv /\ LaunchInv /\ SyncInv))
  <1> SUFFICES ASSUME OrderedAlone
               PROVE  Spec => [](OwnersInv /\ PacketsInv /\ LaunchInv /\ SyncInv)
    OBVIOUS
  <1>1. Init => OwnersInv /\ PacketsInv /\ LaunchInv /\ SyncInv
    BY OwnersInit, PacketsInit, LaunchInit, SyncInit
  <1>2. OwnersInv /\ PacketsInv /\ LaunchInv /\ SyncInv /\ [Next]_vars
          => (OwnersInv /\ PacketsInv /\ LaunchInv /\ SyncInv)'
    BY OwnersStep, PacketsStep, LaunchStep, SyncStep
  <1>3. QED
    BY <1>1, <1>2, PTL DEF Spec

(***************************************************************************)
(* atmi_taskgroup_wait "Wait[s] for the launched task group": when sync()  *)
(* is about to return, every task that its caller launched in the group is *)
(* COMPLETED and has no packet left on a device, whatever the other        *)
(* threads launched in the group meanwhile, and although sync() looks at   *)
(* the last task only of an ordered group, and at running_default_tasks_,  *)
(* a list that it empties itself, of an unordered one (taskgroup.cpp).     *)
(* The premise OrderedAlone excludes CPU tasks of ordered groups, which    *)
(* dispatch() may set back after the handler completed them, and ordered   *)
(* groups that several threads launch into.                                *)
(***************************************************************************)
THEOREM SyncedTasksAreFinished == OrderedAlone => (Spec => []SyncedFinished)
  <1> SUFFICES ASSUME OrderedAlone PROVE Spec => []SyncedFinished
    OBVIOUS
  <1>1. PacketsInv /\ SyncInv => SyncedFinished
    <2> SUFFICES ASSUME PacketsInv, SyncInv, NEW a \in App, WaitedForAll(a), NEW t \in Task,
                        GroupOf[t] = thread[a].group, Launcher(t) = a,
                        state[t] # UNINITIALIZED
                 PROVE  state[t] = COMPLETED /\ packetsLeft[t] = 0
      BY DEF SyncedFinished
    <2>1. Settled(t)
      BY WaitedSettled DEF SyncInv, Made
    <2>2. QED
      BY <2>1 DEF Settled, PacketsInv, DoneEmpty, Done
  <1>2. QED
    BY <1>1, SyncAlways, PTL
-------------------------------------------------------------------------------
(***************************************************************************)
(* task_count_.  The handler holds the tasks that it took from the moment  *)
(* at which it takes them to the one at which it discounts them, through   *)
(* the loop in which it dispatches others; they are distinct, of the group *)
(* in hand, and over: completed, or set back after that.                   *)
(*                                                                         *)
(* The premise: each task is launched by the thread that waits for its     *)
(* group.  sync() empties running_groupable_tasks_, and forgets the        *)
(* running tasks that another thread launched in the group.                *)
(***************************************************************************)
AllOwn == \A t \in Task : Own(t)

Distinct(q) == \A i, j \in DOMAIN q : q[i] = q[j] => i = j

Over(t) == state[t] = COMPLETED \/ SetBack(t)

\* Where the handler may hold tasks, or is about to discount them.
Holding == {"release", "progress", "front", "pop", "try", "discount"} \cup Dispatching

HandlerLoops ==
  thread[Callback].at \in {"try"} \cup Dispatching => thread[Callback].via \in {"front", "pop"}

TasksHeld ==
  /\ HandlerLoops
  /\ groupTasks # <<>> =>
       thread[Callback].at \in Holding /\ thread[Callback].group \in Group
  /\ \A t \in Elements(groupTasks) : GroupOf[t] = thread[Callback].group
  /\ Distinct(groupTasks)
  /\ \A g \in Group : Distinct(runningGroupable[g])

HeldOver ==
  thread[Callback].at # "release" => \A t \in Elements(groupTasks) : Over(t)

\* A launcher makes the task that it takes in hand.
InHandMade == \A a \in App : \A t \in Task : thread[a].task = t => Made(t)

CountedIn(g) == {t \in Task : GroupOf[t] = g /\ Counted(t)}
DiscountedIn(g) == {t \in Task : GroupOf[t] = g /\ Discounted(t)}

CountInv == TasksHeld /\ HeldOver /\ InHandMade /\ TaskCountExact

\* A step of thread h that keeps its group and its loop, or makes it idle without a
\* group in hand.
Carries(h) ==
  \/ /\ thread'[h].at \in Holding /\ thread'[h].group = thread[h].group
     /\ thread'[h].at \in {"try"} \cup Dispatching => thread'[h].via \in {"front", "pop"}
  \/ thread'[h].at = "idle" /\ thread[h].group = NoGroup

LEMMA WorkCarries ==
  ASSUME Types, NEW h \in Thread, NEW l, NEW t, NEW v
  PROVE  /\ Goto(h, l) =>
              thread'[h].at = l /\ thread'[h].group = thread[h].group
                /\ thread'[h].via = thread[h].via
         /\ Work(h, l, t, v) =>
              thread'[h].at = l /\ thread'[h].group = thread[h].group /\ thread'[h].via = v
         /\ Rest(h) => thread'[h].at = "idle"
  <1>1. PICK f : f = thread[h] /\ f = Frame(f.at, f.task, f.group, f.via)
    BY DEF Types, ThreadsTyped, Control
  <1>2. thread = [i \in Thread |-> thread[i]]
    BY DEF Types, ThreadsTyped
  <1>3. ASSUME Goto(h, l)
        PROVE  thread'[h].at = l /\ thread'[h].group = thread[h].group
                 /\ thread'[h].via = thread[h].via
    <2>1. thread'[h] = [f EXCEPT !.at = l]
      BY <1>1, <1>2, <1>3 DEF Goto
    <2>2. [f EXCEPT !.at = l] = Frame(l, f.task, f.group, f.via)
      BY <1>1 DEF Frame
    <2>3. QED
      BY <1>1, <2>1, <2>2 DEF Frame
  <1>4. ASSUME Work(h, l, t, v)
        PROVE  thread'[h].at = l /\ thread'[h].group = thread[h].group /\ thread'[h].via = v
    <2>1. thread'[h] = Frame(l, t, thread[h].group, v)
      BY <1>2, <1>4 DEF Work
    <2>2. QED
      BY <2>1 DEF Frame
  <1>5. Rest(h) => thread'[h].at = "idle"
    BY RestTask
  <1>6. QED
    BY <1>3, <1>4, <1>5

LEMMA EndCarries ==
  ASSUME Types
  PROVE  /\ EndProgress => Carries(Callback)
         /\ \A b \in BOOLEAN :
              EndTry(Callback, b) /\ thread[Callback].via \in {"front", "pop"}
                => Carries(Callback)
  <1>0. Callback \in Thread
    BY SmallFacts
  <1>1. /\ {"discount", "front", "pop"} \subseteq Holding
        /\ {"discount", "front", "pop"} \cap ({"try"} \cup Dispatching) = {}
    BY DEF Holding, Dispatching
  <1>2. \A l \in {"discount", "front", "pop"} : Goto(Callback, l) => Carries(Callback)
    BY <1>0, <1>1, WorkCarries DEF Carries
  <1>3. EndProgress => Carries(Callback)
    BY <1>0, <1>2, WorkCarries DEF EndProgress, Carries
  <1>4. ASSUME NEW b \in BOOLEAN, EndTry(Callback, b), thread[Callback].via \in {"front", "pop"}
        PROVE  Carries(Callback)
    <2>1. Goto(Callback, "pop") \/ Goto(Callback, "front") \/ EndProgress
      BY <1>4 DEF EndTry
    <2>2. QED
      BY <1>2, <1>3, <2>1
  <1>5. QED
    BY <1>3, <1>4

LEMMA LoopCarries ==
  ASSUME Types, HandlerLoops,
         DoProgress \/ TakeFront \/ PopReady \/ TryDispatch(Callback) \/ Dispatch(Callback)
  PROVE  Carries(Callback) /\ UNCHANGED <<groupTasks, taskCount>> /\ thread[Callback].at \in Holding
  <1>0. Callback \in Thread
    BY SmallFacts
  <1>1. \A l, t : \A v \in {"front", "pop"} :
          l \in Holding /\ Work(Callback, l, t, v) => Carries(Callback)
    <2> SUFFICES ASSUME NEW l, NEW t, NEW v \in {"front", "pop"}, l \in Holding,
                        Work(Callback, l, t, v)
                 PROVE  Carries(Callback)
      OBVIOUS
    <2>1. /\ thread'[Callback].at = l /\ thread'[Callback].group = thread[Callback].group
          /\ thread'[Callback].via = v
      BY <1>0, WorkCarries
    <2>2. QED
      BY <2>1 DEF Carries
  <1>2. \A l : /\ l \in Holding /\ Goto(Callback, l)
               /\ l \in {"try"} \cup Dispatching => thread[Callback].via \in {"front", "pop"}
               => Carries(Callback)
    <2> SUFFICES ASSUME NEW l, l \in Holding, Goto(Callback, l),
                        l \in {"try"} \cup Dispatching => thread[Callback].via \in {"front", "pop"}
                 PROVE  Carries(Callback)
      OBVIOUS
    <2>1. /\ thread'[Callback].at = l /\ thread'[Callback].group = thread[Callback].group
          /\ thread'[Callback].via = thread[Callback].via
      BY <1>0, WorkCarries
    <2>2. QED
      BY <2>1 DEF Carries
  <1>3. CASE DoProgress \/ TakeFront \/ PopReady
    <2>1. /\ UNCHANGED <<groupTasks, taskCount>>
          /\ thread[Callback].at \in {"progress", "front", "pop"}
      BY <1>3 DEF DoProgress, TakeFront, PopReady, ProgressLeavesUnchanged, At
    <2>2. \/ Goto(Callback, "front") \/ Goto(Callback, "pop") \/ EndProgress
          \/ \E t : Work(Callback, "try", t, "front") \/ Work(Callback, "try", t, "pop")
      BY <1>3 DEF DoProgress, TakeFront, PopReady
    <2>3. /\ "front" \in Holding /\ "pop" \in Holding /\ "try" \in Holding
          /\ "front" \notin {"try"} \cup Dispatching /\ "pop" \notin {"try"} \cup Dispatching
      BY DEF Holding, Dispatching
    <2>4. Carries(Callback)
      BY <1>1, <1>2, <2>2, <2>3, EndCarries
    <2>5. QED
      BY <2>1, <2>4 DEF Holding
  <1>4. CASE TryDispatch(Callback)
    <2>1. /\ UNCHANGED <<groupTasks, taskCount>>
          /\ thread[Callback].at = "try"
          /\ EndTry(Callback, FALSE) \/ Goto(Callback, "push")
      BY <1>4 DEF TryDispatch, TryWaitsForGroup, TryWaitsForPrevious, TryLacksResources,
                  TryTaken, TryAcquires, KeepForLater, TryLeavesUnchanged, handlerVars, At
    <2>2. thread[Callback].via \in {"front", "pop"} /\ "push" \in Holding /\ "try" \in Holding
      BY <2>1 DEF HandlerLoops, Holding, Dispatching
    <2>3. QED
      BY <1>2, <2>1, <2>2, EndCarries
  <1>5. CASE Dispatch(Callback)
    <2>1. /\ UNCHANGED <<groupTasks, taskCount>>
          /\ thread[Callback].at \in Dispatching
          /\ EndTry(Callback, TRUE) \/ \E l \in Dispatching : Goto(Callback, l)
      BY <1>5 DEF Dispatch, JoinRunning, MarkDispatched, Publish, TestAndSet, RegisterHandler,
                  DispatchLeavesUnchanged, handlerVars, At, Dispatching
    <2>2. thread[Callback].via \in {"front", "pop"} /\ Dispatching \subseteq Holding
      BY <2>1 DEF HandlerLoops, Holding
    <2>3. QED
      BY <1>2, <2>1, <2>2, EndCarries
  <1>6. QED
    BY <1>3, <1>4, <1>5

\* Which steps touch the tasks taken, the count and the handler.
LEMMA HandlerAlone ==
  ASSUME OwnersInv, [Next]_vars
  PROVE  \/ /\ UNCHANGED <<groupTasks, taskCount>>
            /\ thread'[Callback] = thread[Callback]
         \/ /\ \E a \in App : CountTask(a)
            /\ groupTasks' = groupTasks /\ thread'[Callback] = thread[Callback]
         \/ Handler
  <1>0. /\ Types /\ Callers
        /\ Callback \in Thread /\ \A a \in App : a \in Thread /\ a # Callback
    BY SmallFacts DEF OwnersInv
  <1>1. ASSUME NEW a \in App, TryDispatch(a) \/ Dispatch(a)
        PROVE  UNCHANGED <<groupTasks, taskCount>> /\ thread'[Callback] = thread[Callback]
    <2>1. TryLeavesUnchanged \/ DispatchLeavesUnchanged
      BY <1>1 DEF TryDispatch, TryWaitsForGroup, TryWaitsForPrevious, TryLacksResources,
                  TryTaken, TryAcquires, KeepForLater, Dispatch, JoinRunning, MarkDispatched,
                  Publish, TestAndSet, RegisterHandler
    <2>2. \E L, K : Step(a, L, K)
      <3>1. CASE TryAcquires(a)
        BY <1>0, <3>1, TypesAcquire
      <3>2. CASE ~TryAcquires(a) /\ TryDispatch(a)
        BY <1>0, <3>2, TypesTry DEF TryDispatch
      <3>3. CASE Dispatch(a)
        BY <1>0, <3>3, TypesDispatch
      <3>4. QED
        BY <1>1, <3>1, <3>2, <3>3
    <2>3. thread'[Callback] = thread[Callback]
      BY <1>0, <2>2, MoveBy
    <2>4. QED
      BY <2>1, <2>3 DEF TryLeavesUnchanged, DispatchLeavesUnchanged, handlerVars
  <1>2. ASSUME NEW a \in App, Sync(a) \/ (\E g \in Group : CallSync(a, g))
        PROVE  UNCHANGED <<groupTasks, taskCount>> /\ thread'[Callback] = thread[Callback]
    <2>1. SyncLeavesUnchanged
      BY <1>2 DEF Sync, CallSync, SyncCounted, SyncWaited, SyncForgetsLast, SyncClears
    <2>2. QED
      BY <1>0, <1>2, <2>1, TypesSync, MoveBy DEF SyncLeavesUnchanged, handlerVars
  <1>3. ASSUME NEW a \in App, Launch(a)
        PROVE  UNCHANGED <<groupTasks, taskCount>> /\ thread'[Callback] = thread[Callback]
    <2>1. PICK t \in Task : Construct(a, t)
      BY <1>3 DEF Launch
    <2>2. UNCHANGED <<groupTasks, taskCount>>
      BY <2>1 DEF Construct, handlerVars
    <2>3. QED
      BY <1>0, <2>1, <2>2, TypesConstruct, MoveBy
  <1>4. ASSUME NEW a \in App, CountTask(a)
        PROVE  groupTasks' = groupTasks /\ thread'[Callback] = thread[Callback]
    <2>1. groupTasks' = groupTasks
      BY <1>4 DEF CountTask, handlerVars
    <2>2. QED
      BY <1>0, <1>4, <2>1, TypesCount, MoveBy
  <1>5. CASE Device \/ UNCHANGED vars
    BY <1>5 DEF Device, CompletePacket, vars, handlerVars
  <1>6. CASE \E a \in App : Launch(a) \/ (\E g \in Group : CallSync(a, g)) \/ AppStep(a)
    BY <1>1, <1>2, <1>3, <1>4, <1>6 DEF AppStep
  <1>7. QED
    BY <1>5, <1>6 DEF Next

LEMMA DistinctMore ==
  /\ Distinct(<<>>)
  /\ \A q \in Seq(Task), t \in Task : Distinct(q) /\ t \notin Elements(q) => Distinct(Append(q, t))
  <1>1. ASSUME NEW q \in Seq(Task), NEW t \in Task, Distinct(q), t \notin Elements(q)
        PROVE  Distinct(Append(q, t))
    <2>1. /\ Len(q) \in Nat /\ DOMAIN q = 1..Len(q)
          /\ DOMAIN Append(q, t) = 1..Len(q) + 1
          /\ \A i \in DOMAIN q : Append(q, t)[i] = q[i]
          /\ Append(q, t)[Len(q) + 1] = t
      BY SMTT(30)
    <2>2. \A i \in DOMAIN q : q[i] # t
      BY <1>1 DEF Elements
    <2>3. QED
      BY <1>1, <2>1, <2>2, SMTT(30) DEF Distinct
  <1>2. Distinct(<<>>)
    BY DEF Distinct
  <1>3. QED
    BY <1>1, <1>2

\* The lists of running tasks stay distinct.
LEMMA RunningDistinct ==
  ASSUME OwnersInv, TasksHeld, [Next]_vars
  PROVE  \A g \in Group : Distinct(runningGroupable'[g])
  <1>0. Types /\ runningGroupable \in [Group -> Seq(Task)]
    BY DEF OwnersInv, Types, GroupsTyped
  <1>1. \A g \in Group : Distinct(runningGroupable[g])
    BY DEF TasksHeld
  <1>2. CASE runningGroupable' = runningGroupable
    BY <1>1, <1>2
  <1>3. ASSUME NEW d, runningGroupable' = [runningGroupable EXCEPT ![d] = <<>>]
        PROVE  \A g \in Group : Distinct(runningGroupable'[g])
    BY <1>0, <1>1, <1>3, DistinctMore
  <1>4. ASSUME NEW h \in Thread, JoinRunning(h)
        PROVE  \A g \in Group : Distinct(runningGroupable'[g])
    <2>1. /\ At(h, "push")
          /\ runningGroupable' =
               [runningGroupable EXCEPT ![GroupOf[thread[h].task]] = Append(@, thread[h].task)]
      BY <1>4 DEF JoinRunning
    <2>2. PICK t \in Task : t = thread[h].task /\ GroupOf[t] \in Group
      BY <1>0, <2>1, TaskInHand DEF At, TaskLabels, Dispatching
    <2>3. t \notin Elements(runningGroupable[GroupOf[t]])
      BY <2>1, <2>2 DEF OwnersInv, PushedLater, Running, At
    <2>4. Distinct(Append(runningGroupable[GroupOf[t]], t))
      BY <1>0, <1>1, <2>2, <2>3, DistinctMore
    <2>5. QED
      BY <1>0, <1>1, <2>1, <2>2, <2>4
  <1>5. ASSUME NEW h \in Thread, TryAcquires(h) \/ MarkDispatched(h) \/ Publish(h)
        PROVE  runningGroupable' = runningGroupable
    BY <1>5 DEF TryAcquires, TryLeavesUnchanged, MarkDispatched, Publish
  <1>6. CASE TakeRunning
    BY <1>0, <1>3, <1>6, TakeEffect
  <1>7. CASE Aside
    <2>1. ASSUME NEW a \in App, SyncClears(a)
          PROVE  \E d : runningGroupable' = [runningGroupable EXCEPT ![d] = <<>>]
      BY <2>1 DEF SyncClears
    <2>2. QED
      BY <1>2, <1>3, <1>7, <2>1 DEF Aside
  <1>8. CASE ReleaseTasks \/ \E t \in Task : CompletePacket(t)
    BY <1>0, <1>2, <1>8, ReleaseEffect, DeviceEffect
  <1>9. QED
    BY <1>2, <1>4, <1>5, <1>6, <1>7, <1>8, AsideSteps

LEMMA HeldKept ==
  ASSUME OwnersInv, TasksHeld, [Next]_vars
  PROVE  TasksHeld'
  <1>0. /\ Types /\ Callback \in Thread /\ NoGroup \notin Group
        /\ HandlerLoops
        /\ groupTasks # <<>> => thread[Callback].at \in Holding /\ thread[Callback].group \in Group
        /\ \A t \in Elements(groupTasks) : GroupOf[t] = thread[Callback].group
        /\ Distinct(groupTasks)
    BY SmallFacts DEF OwnersInv, TasksHeld
  <1>1. \A g \in Group : Distinct(runningGroupable'[g])
    BY RunningDistinct
  <1>2. CASE groupTasks' = groupTasks /\ thread'[Callback] = thread[Callback]
    BY <1>0, <1>1, <1>2 DEF TasksHeld, HandlerLoops
  <1>3. CASE groupTasks' = groupTasks /\ Carries(Callback)
    BY <1>0, <1>1, <1>3 DEF TasksHeld, HandlerLoops, Carries, Elements, Dispatching
  <1>4. ASSUME groupTasks' = <<>>, thread'[Callback].at \notin {"try"} \cup Dispatching
        PROVE  TasksHeld'
    <2>1. Elements(groupTasks') = {} /\ Distinct(groupTasks')
      BY <1>4, ElementsOf, DistinctMore
    <2>2. QED
      BY <1>1, <1>4, <2>1 DEF TasksHeld, HandlerLoops
  <1>5. CASE (\E g \in Group : HandleGroupSignal(g)) \/ LockGroup
    <2>1. thread[Callback].at \in {"idle", "enter"} /\ groupTasks' = groupTasks
      BY <1>5 DEF HandleGroupSignal, LockGroup, handlerVars, At
    <2>2. groupTasks' = <<>>
      BY <1>0, <2>1 DEF Holding, Dispatching
    <2>3. thread'[Callback].at \in {"enter", "drain", "release"}
      BY <1>0, <1>5, TypesTake, MoveBy
    <2>4. QED
      BY <1>4, <2>2, <2>3 DEF Dispatching
  <1>6. CASE TakeRunning
    <2>1. PICK d \in Group :
             /\ d = thread[Callback].group
             /\ thread'[Callback].at = "release"
             /\ groupTasks' = runningGroupable[d]
      BY <1>0, <1>6, TakeEffect
    <2>2. thread'[Callback].group = d
      BY <1>0, <1>6, <2>1, WorkCarries DEF TakeRunning
    <2>3. Distinct(groupTasks') /\ \A t \in Elements(groupTasks') : GroupOf[t] = d
      BY <2>1 DEF TasksHeld, OwnersInv, ListsOwn
    <2>4. QED
      BY <1>1, <2>1, <2>2, <2>3 DEF TasksHeld, HandlerLoops, Holding, Dispatching
  <1>7. CASE ReleaseTasks
    <2>1. /\ thread'[Callback].at \in {"discount", "progress"}
          /\ thread'[Callback].group = thread[Callback].group
          /\ groupTasks' = groupTasks
      BY <1>0, <1>7, ReleaseEffect
    <2>2. Carries(Callback)
      BY <2>1 DEF Carries, Holding, Dispatching
    <2>3. QED
      BY <1>3, <2>1, <2>2
  <1>8. CASE DoProgress \/ TakeFront \/ PopReady \/ TryDispatch(Callback) \/ Dispatch(Callback)
    BY <1>0, <1>3, <1>8, LoopCarries
  <1>9. CASE \/ DiscountTasks \/ LoadCount \/ ClearSuccessors \/ BeginVisits \/ VisitSuccessor
             \/ PushReady
    <2>1. \/ groupTasks' = <<>>
          \/ groupTasks' = groupTasks /\ thread[Callback].at \in {"load", "clear", "visit", "unlink"}
      BY <1>9 DEF DiscountTasks, LoadCount, ClearSuccessors, BeginVisits, VisitSuccessor,
                  PushReady, handlerVars, At
    <2>2. groupTasks' = <<>>
      BY <1>0, <2>1 DEF Holding, Dispatching
    <2>3. thread'[Callback].at \in {"idle", "load", "clear", "visit", "unlink", "progress"}
      BY <1>0, <1>9, TypesFinish, MoveBy
    <2>4. QED
      BY <1>4, <2>2, <2>3 DEF Dispatching
  <1>10. CASE Handler
    BY <1>5, <1>6, <1>7, <1>8, <1>9, <1>10 DEF Handler
  <1>11. QED
    BY <1>2, <1>10, HandlerAlone

\* Under the premise, sync() finds no running task of its group to forget.
LEMMA ClearsNothing ==
  ASSUME AllOwn, OwnersInv, SyncLists, NEW a \in App, SyncClears(a), NEW t \in Task
  PROVE  t \in Elements(runningGroupable'[GroupOf[t]]) <=> t \in Elements(runningGroupable[GroupOf[t]])
  <1>0. /\ Types /\ runningGroupable \in [Group -> Seq(Task)] /\ GroupOf[t] \in Group
    BY SmallFacts DEF OwnersInv, Types, GroupsTyped
  <1>1. PICK d : d = thread[a].group
    OBVIOUS
  <1>2. WaitedForAll(a) /\ runningGroupable' = [runningGroupable EXCEPT ![d] = <<>>]
    BY <1>1 DEF SyncClears
  <1>3. CASE GroupOf[t] # d
    BY <1>0, <1>2, <1>3
  <1>4. CASE GroupOf[t] = d
    <2>1. Syncer[d] = a
      BY <1>1, <1>2 DEF WaitedForAll, At, OwnersInv, Callers
    <2>2. Launcher(t) = a
      BY <1>4, <2>1 DEF AllOwn, Own
    <2>3. Made(t) => state[t] = COMPLETED
      BY <1>1, <1>2, <1>4, <2>2, WaitedSettled DEF Settled
    <2>4. t \notin Elements(runningGroupable[GroupOf[t]])
      BY <2>3, ReadyStates DEF OwnersInv, RunningUnfinished, Running, Made
    <2>5. runningGroupable'[GroupOf[t]] = <<>>
      BY <1>0, <1>2, <1>4
    <2>6. QED
      BY <2>4, <2>5, ElementsOf
  <1>5. QED
    BY <1>3, <1>4

\* A step that leaves t with the handler or not, and over or not.
LEMMA OverSame ==
  ASSUME NEW t \in Task,
         state'[t] = state[t] \/ {state[t], state'[t]} \cap {DISPATCHED, COMPLETED} = {},
         Running(t)' <=> Running(t)
  PROVE  Over(t)' <=> Over(t)
  BY DEF Over, SetBack

LEMMA RunningNotOver ==
  ASSUME OwnersInv, NEW t \in Task, Running(t)
  PROVE  ~Over(t)
  BY ReadyStates DEF OwnersInv, RunningUnfinished, Over, SetBack

\* A task is over when the handler completes it, and for ever.
LEMMA OverDispatch ==
  ASSUME AllOwn, OwnersInv, PacketsInv, AcquiredRun, NEW h \in Thread,
         TryAcquires(h) \/ JoinRunning(h) \/ MarkDispatched(h) \/ Publish(h),
         NEW t \in Task
  PROVE  Over(t)' <=> Over(t)
  <1>0. /\ Types /\ state \in [Task -> UNINITIALIZED..COMPLETED] /\ Callback \in Thread
        /\ runningGroupable \in [Group -> Seq(Task)] /\ GroupOf[t] \in Group
        /\ state[t] \in Int
    <2>1. /\ Types /\ state \in [Task -> UNINITIALIZED..COMPLETED]
          /\ runningGroupable \in [Group -> Seq(Task)]
      BY DEF OwnersInv, Types, TasksTyped, GroupsTyped
    <2>2. state[t] \in Int
      BY <2>1, ReadyStates
    <2>3. QED
      BY <2>1, <2>2, SmallFacts
  <1>1. PICK u \in Task, l \in {"try", "push", "mark", "publish"} :
           /\ u = thread[h].task /\ thread[h].at = l
           /\ \A i \in Thread : i # h => thread'[i] = thread[i]
           /\ thread'[h].at # "release"
           /\ UNCHANGED groupTasks
           /\ \/ /\ l = "try" /\ state[u] < READY
                 /\ state' = [state EXCEPT ![u] = READY] /\ UNCHANGED runningGroupable
              \/ /\ l = "push" /\ state' = state
                 /\ runningGroupable' = [runningGroupable EXCEPT ![GroupOf[u]] = Append(@, u)]
              \/ /\ l = "mark" /\ state' = [state EXCEPT ![u] = DISPATCHED]
                 /\ UNCHANGED runningGroupable
              \/ l = "publish" /\ UNCHANGED <<state, runningGroupable>>
    <2>1. CASE TryAcquires(h)
      BY <1>0, <2>1, AcquireEffect DEF Dispatches
    <2>2. CASE JoinRunning(h) \/ MarkDispatched(h) \/ Publish(h)
      BY <1>0, <2>2, DispatchEffect DEF Dispatches
    <2>3. QED
      BY <2>1, <2>2
  <1>2. At(Callback, "release")' <=> At(Callback, "release")
    BY <1>0, <1>1 DEF At
  <1>3. u # t \/ l # "push" => (Running(t)' <=> Running(t))
    <2>1. CASE runningGroupable' = runningGroupable
      BY <1>1, <1>2, <2>1 DEF Running
    <2>2. CASE u # t /\ l = "push"
      <3>1. \/ runningGroupable'[GroupOf[t]] = runningGroupable[GroupOf[t]]
            \/ runningGroupable'[GroupOf[t]] = Append(runningGroupable[GroupOf[t]], u)
        BY <1>0, <1>1, <2>2
      <3>2. t \in Elements(runningGroupable'[GroupOf[t]])
              <=> t \in Elements(runningGroupable[GroupOf[t]])
        <4>1. PICK q \in Seq(Task) : q = runningGroupable[GroupOf[t]]
          BY <1>0
        <4>2. Elements(Append(q, u)) = Elements(q) \cup {u}
          BY ElementsOf
        <4>3. QED
          BY <2>2, <3>1, <4>1, <4>2
      <3>3. QED
        BY <1>1, <1>2, <3>2 DEF Running
    <2>3. QED
      BY <1>1, <2>1, <2>2
  <1>4. CASE u # t
    <2>1. state'[t] = state[t]
      BY <1>0, <1>1, <1>4
    <2>2. QED
      BY <1>3, <1>4, <2>1, OverSame
  <1>5. CASE u = t /\ l = "try"
    <2>1. state[t] < READY /\ state'[t] = READY
      BY <1>0, <1>1, <1>5
    <2>2. QED
      BY <1>0, <2>1, ReadyStates DEF Over, SetBack
  <1>6. CASE u = t /\ l = "push"
    <2>1. state[t] = READY /\ state'[t] = READY
      BY <1>1, <1>6 DEF OwnersInv, PushedLater
    <2>2. QED
      BY <2>1, ReadyStates DEF Over, SetBack
  <1>7. CASE u = t /\ l = "mark"
    <2>1. state[t] \in {READY, COMPLETED} /\ state'[t] = DISPATCHED
      BY <1>0, <1>1, <1>7 DEF PacketsInv, MarkedOnce
    <2>2. Running(t)' <=> Running(t)
      BY <1>3, <1>7
    <2>3. CASE state[t] = COMPLETED
      <3>1. ~Running(t)
        BY <2>3, RunningNotOver DEF Over
      <3>2. QED
        BY <2>1, <2>2, <2>3, <3>1 DEF Over, SetBack
    <2>4. CASE state[t] = READY
      <3>1. ~Pushing(t)
        BY <1>1, <1>7 DEF Pushing, OwnersInv, DispatchersApart, Dispatching
      <3>2. Running(t)
        BY <2>4, <3>1, ReadyStates DEF AcquiredRun, AllOwn
      <3>3. QED
        BY <2>1, <2>2, <2>4, <3>2, ReadyStates DEF Over, SetBack
    <2>5. QED
      BY <2>1, <2>3, <2>4
  <1>8. CASE u = t /\ l = "publish"
    <2>1. state'[t] = state[t]
      BY <1>1, <1>8
    <2>2. QED
      BY <1>3, <1>8, <2>1, OverSame
  <1>9. QED
    BY <1>1, <1>4, <1>5, <1>6, <1>7, <1>8

LEMMA OverSteps ==
  ASSUME AllOwn, OwnersInv, PacketsInv, SyncLists, AcquiredRun, TasksHeld, [Next]_vars,
         NEW t \in Task
  PROVE  Over(t)' <=> Over(t) \/ (ReleaseTasks /\ t \in Elements(groupTasks))
  <1>0. /\ Types /\ state \in [Task -> UNINITIALIZED..COMPLETED] /\ Callback \in Thread
        /\ runningGroupable \in [Group -> Seq(Task)] /\ GroupOf[t] \in Group
        /\ state[t] \in Int /\ \A a \in App : a \in Thread
    <2>1. /\ Types /\ state \in [Task -> UNINITIALIZED..COMPLETED]
          /\ runningGroupable \in [Group -> Seq(Task)]
      BY DEF OwnersInv, Types, TasksTyped, GroupsTyped
    <2>2. state[t] \in Int
      BY <2>1, ReadyStates
    <2>3. QED
      BY <2>1, <2>2, SmallFacts
  <1>1. CASE ReleaseTasks
    <2>1. /\ thread[Callback].at = "release" /\ thread'[Callback].at # "release"
          /\ state'[t] = IF t \in Elements(groupTasks) THEN COMPLETED ELSE state[t]
          /\ runningGroupable' = runningGroupable
      BY <1>0, <1>1, ReleaseEffect
    <2>2. CASE t \in Elements(groupTasks)
      BY <1>1, <2>1, <2>2 DEF Over
    <2>3. CASE t \notin Elements(groupTasks)
      <3>1. Running(t)' <=> Running(t)
        BY <2>1, <2>3 DEF Running, At
      <3>2. QED
        BY <2>1, <2>3, <3>1, OverSame
    <2>4. QED
      BY <2>2, <2>3
  <1>2. CASE TakeRunning
    <2>1. PICK d \in Group :
             /\ thread[Callback].at = "drain" /\ thread'[Callback].at = "release"
             /\ groupTasks' = runningGroupable[d]
             /\ runningGroupable' = [runningGroupable EXCEPT ![d] = <<>>]
             /\ UNCHANGED state
      BY <1>0, <1>2, TakeEffect
    <2>2. t \in Elements(runningGroupable[d]) => GroupOf[t] = d
      BY DEF OwnersInv, ListsOwn
    <2>3. Running(t)' <=> Running(t)
      <3>1. CASE GroupOf[t] = d
        BY <1>0, <2>1, <3>1, ElementsOf DEF Running, At
      <3>2. CASE GroupOf[t] # d
        <4>1. runningGroupable'[GroupOf[t]] = runningGroupable[GroupOf[t]]
          BY <1>0, <2>1, <3>2
        <4>2. QED
          BY <2>1, <2>2, <3>2, <4>1 DEF Running, At
      <3>3. QED
        BY <3>1, <3>2
    <2>4. ~ReleaseTasks
      BY <2>1 DEF ReleaseTasks, At
    <2>5. QED
      BY <2>1, <2>3, <2>4, OverSame
  <1>3. ASSUME NEW h \in Thread,
               TryAcquires(h) \/ JoinRunning(h) \/ MarkDispatched(h) \/ Publish(h),
               ~ReleaseTasks
        PROVE  Over(t)' <=> Over(t)
    BY <1>3, OverDispatch
  <1>4. ASSUME Aside, ~ReleaseTasks PROVE Over(t)' <=> Over(t)
    <2>1. At(Callback, "release")' <=> At(Callback, "release")
      BY <1>4 DEF Aside, At
    <2>2. At(Callback, "release") => groupTasks' = groupTasks
      BY <1>4 DEF Aside, At
    <2>3. t \in Elements(runningGroupable'[GroupOf[t]])
            <=> t \in Elements(runningGroupable[GroupOf[t]])
      BY <1>4, ClearsNothing DEF Aside
    <2>4. Running(t)' <=> Running(t)
      BY <2>1, <2>2, <2>3 DEF Running
    <2>5. state'[t] = state[t] \/ {state[t], state'[t]} \cap {DISPATCHED, COMPLETED} = {}
      BY <1>0, <1>4, ReadyStates DEF Aside
    <2>6. QED
      BY <2>4, <2>5, OverSame
  <1>5. ASSUME \E u \in Task : CompletePacket(u) PROVE Over(t)' <=> Over(t)
    <2>1. UNCHANGED <<state, thread, runningGroupable, groupTasks>>
      BY <1>5, DeviceEffect
    <2>2. QED
      BY <2>1 DEF Over, SetBack, Running, At
  <1>6. (\E u \in Task : CompletePacket(u)) => ~ReleaseTasks \/ Elements(groupTasks) = {}
    <2>1. ASSUME NEW u \in Task, CompletePacket(u), ReleaseTasks PROVE FALSE
      <3>1. thread' = thread /\ thread[Callback].at = "release"
        BY <2>1 DEF CompletePacket, ReleaseTasks, At
      <3>2. thread'[Callback].at # "release"
        BY <1>0, <2>1, ReleaseEffect
      <3>3. QED
        BY <3>1, <3>2
    <2>2. QED
      BY <2>1
  <1>7. QED
    BY <1>1, <1>2, <1>3, <1>4, <1>5, <1>6, AsideSteps

LEMMA HeldOverKept ==
  ASSUME AllOwn, OwnersInv, PacketsInv, SyncLists, AcquiredRun, TasksHeld, HeldOver, [Next]_vars
  PROVE  HeldOver'
  <1>0. /\ Types /\ Callback \in Thread /\ Elements(groupTasks) \subseteq Task
    BY SmallFacts, ElementsOf DEF OwnersInv, Types, ListsTyped
  <1>1. SUFFICES ASSUME thread'[Callback].at # "release", NEW t \in Elements(groupTasks')
                 PROVE  Over(t)'
    BY DEF HeldOver
  <1>2. ~TakeRunning
    BY <1>0, <1>1, TakeEffect
  <1>3. groupTasks' = groupTasks
    <2>1. CASE DiscountTasks
      <3>1. groupTasks' = <<>>
        BY <2>1 DEF DiscountTasks
      <3>2. QED
        BY <1>1, <3>1, ElementsOf
    <2>2. CASE Handler /\ ~DiscountTasks
      <3>1. CASE DoProgress \/ TakeFront \/ PopReady \/ TryDispatch(Callback) \/ Dispatch(Callback)
        BY <1>0, <3>1, LoopCarries DEF TasksHeld
      <3>2. CASE \/ (\E g \in Group : HandleGroupSignal(g)) \/ LockGroup \/ ReleaseTasks
                 \/ LoadCount \/ ClearSuccessors \/ BeginVisits \/ VisitSuccessor \/ PushReady
        BY <3>2 DEF HandleGroupSignal, LockGroup, ReleaseTasks, LoadCount, ClearSuccessors,
                    BeginVisits, VisitSuccessor, PushReady, handlerVars
      <3>3. QED
        BY <1>2, <2>2, <3>1, <3>2 DEF Handler
    <2>3. QED
      BY <2>1, <2>2, HandlerAlone
  <1>4. t \in Task /\ t \in Elements(groupTasks)
    BY <1>0, <1>1, <1>3
  <1>5. CASE thread[Callback].at # "release"
    <2>1. Over(t)
      BY <1>4, <1>5 DEF HeldOver
    <2>2. QED
      BY <1>4, <2>1, OverSteps
  <1>6. CASE thread[Callback].at = "release"
    <2>1. ReleaseTasks
      <3>1. Handler
        BY <1>1, <1>6, HandlerAlone
      <3>2. ~(DoProgress \/ TakeFront \/ PopReady \/ TryDispatch(Callback) \/ Dispatch(Callback))
        BY <1>6 DEF DoProgress, TakeFront, PopReady, TryDispatch, TryWaitsForGroup,
                    TryWaitsForPrevious, TryLacksResources, TryTaken, TryAcquires, KeepForLater,
                    Dispatch, JoinRunning, MarkDispatched, Publish, TestAndSet, RegisterHandler, At
      <3>3. ~((\E g \in Group : HandleGroupSignal(g)) \/ LockGroup \/ TakeRunning
              \/ DiscountTasks \/ LoadCount \/ ClearSuccessors \/ BeginVisits \/ VisitSuccessor
              \/ PushReady)
        BY <1>6 DEF HandleGroupSignal, LockGroup, TakeRunning, DiscountTasks, LoadCount,
                    ClearSuccessors, BeginVisits, VisitSuccessor, PushReady, At
      <3>4. QED
        BY <3>1, <3>2, <3>3 DEF Handler
    <2>2. QED
      BY <1>4, <2>1, OverSteps
  <1>7. QED
    BY <1>5, <1>6

\* What a launcher has counted.
Counting(t) == thread[Launcher(t)].at = "count" /\ thread[Launcher(t)].task = t

LEMMA CountedIs ==
  ASSUME InHandMade, NEW t \in Task
  PROVE  Counted(t) <=> Made(t) /\ ~Counting(t)
  BY LauncherFacts DEF InHandMade, Counted, Made, Counting, At

LEMMA CountedSteps ==
  ASSUME OwnersInv, OwnersInv', LaunchInv, InHandMade, [Next]_vars
  PROVE  /\ InHandMade'
         /\ \/ /\ \A t \in Task : Counted(t)' <=> Counted(t)
               /\ ~\E a \in App : CountTask(a)
            \/ \E a \in App, u \in Task :
                 /\ CountTask(a) /\ u = thread[a].task /\ ~Counted(u)
                 /\ \A t \in Task : Counted(t)' <=> Counted(t) \/ t = u
  <1>0. /\ Types /\ Types' /\ \A a \in App : a \in Thread /\ a # Callback
        /\ NoTask \notin Task
        /\ \A t \in Task : Launcher(t) \in App
    BY SmallFacts, LauncherFacts DEF OwnersInv
  <1>1. \A t \in Task : InHandMade' => (Counted(t)' <=> Made(t)' /\ ~Counting(t)')
    BY LauncherFacts DEF InHandMade, Counted, Made, Counting, At
  <1>2. \A t \in Task : Counted(t) <=> Made(t) /\ ~Counting(t)
    BY CountedIs
  <1>3. ASSUME NEW a \in App, CountTask(a) PROVE thread[a].at = "count"
    BY <1>3 DEF CountTask, At
  <1>4. ASSUME MadeSame,
               \A a \in App : thread'[a].task \in Task => thread'[a].task = thread[a].task
        PROVE  InHandMade'
    BY <1>4 DEF InHandMade, MadeSame
  <1>5. CASE Quiescent
    <2>1. MadeSame
      BY <1>0, <1>5, LaunchQuiet
    <2>2. \A a \in App : thread'[a].task \in Task => thread'[a].task = thread[a].task
      BY <1>0, <1>5 DEF Quiescent
    <2>3. \A t \in Task : Counting(t)' <=> Counting(t)
      BY <1>0, <1>5 DEF Quiescent, Counting, Dispatching, TaskLabels
    <2>4. ~\E a \in App : CountTask(a)
      <3>1. ASSUME NEW a \in App, CountTask(a) PROVE FALSE
        <4>1. thread'[a].at = "try"
          BY <1>0, <3>1, TypesCount, MoveBy
        <4>2. QED
          BY <1>3, <1>5, <3>1, <4>1 DEF Quiescent
      <3>2. QED
        BY <3>1
    <2>5. InHandMade'
      BY <1>4, <2>1, <2>2
    <2>6. QED
      BY <1>1, <1>2, <2>1, <2>3, <2>4, <2>5 DEF MadeSame
  <1>6. ASSUME NEW h \in Thread, TryDispatch(h)
        PROVE  /\ InHandMade' /\ \A t \in Task : Counted(t)' <=> Counted(t)
               /\ ~\E a \in App : CountTask(a)
    <2>1. MadeSame
      BY <1>0, <1>6, LaunchTry
    <2>2. PICK t \in Task :
             /\ t = thread[h].task /\ thread[h].at = "try"
             /\ \A i \in Thread : i # h => thread'[i] = thread[i]
             /\ thread'[h].at \in Outside \cup {"push"}
             /\ thread'[h].at = "push" => TryAcquires(h) /\ thread'[h].task = t
             /\ h \in App /\ thread'[h].at # "push" =>
                  thread'[h].at = "idle" /\ thread'[h].task = NoTask
      BY <1>6, TryEffect
    <2>3. \A a \in App : thread'[a].task \in Task => thread'[a].task = thread[a].task
      BY <1>0, <2>2
    <2>4. thread'[h].at # "count" /\ thread'[h].at # "try"
      BY <2>2 DEF Outside
    <2>5. \A u \in Task : Counting(u)' <=> Counting(u)
      BY <1>0, <2>2, <2>4 DEF Counting
    <2>6. ~\E a \in App : CountTask(a)
      <3>1. ASSUME NEW a \in App, CountTask(a) PROVE FALSE
        <4>1. thread[a].at = "count" /\ thread'[a].at = "try"
          BY <1>0, <1>3, <3>1, TypesCount, MoveBy
        <4>2. QED
          BY <1>0, <2>2, <2>4, <4>1
      <3>2. QED
        BY <3>1
    <2>7. InHandMade'
      BY <1>4, <2>1, <2>3
    <2>8. QED
      BY <1>1, <1>2, <2>1, <2>5, <2>6, <2>7 DEF MadeSame
  <1>7. ASSUME NEW a \in App, NEW u \in Task, Construct(a, u)
        PROVE  /\ InHandMade' /\ \A t \in Task : Counted(t)' <=> Counted(t)
               /\ ~\E b \in App : CountTask(b)
    <2>1. MadeMore(u) /\ ~Made(u) /\ Launcher(u) = a
      BY <1>7, LaunchConstruct
    <2>2. /\ \A i \in Thread : i # a => thread'[i] = thread[i]
          /\ thread'[a].at = "count" /\ thread'[a].task = u
          /\ thread[a].at = "idle"
      BY <1>0, <1>7, TypesConstruct, MoveBy DEF Construct, At
    <2>3. InHandMade'
      BY <1>0, <2>1, <2>2 DEF InHandMade, MadeMore
    <2>4. \A t \in Task : t # u => (Counting(t)' <=> Counting(t))
      BY <1>0, <2>2 DEF Counting
    <2>5. Counting(u)'
      BY <2>1, <2>2 DEF Counting
    <2>6. \A t \in Task : Counted(t)' <=> Counted(t)
      BY <1>1, <1>2, <2>1, <2>3, <2>4, <2>5 DEF MadeMore
    <2>7. ~\E b \in App : CountTask(b)
      <3>1. ASSUME NEW b \in App, CountTask(b) PROVE FALSE
        <4>1. thread[b].at = "count" /\ thread'[b].at = "try"
          BY <1>0, <1>3, <3>1, TypesCount, MoveBy
        <4>2. QED
          BY <1>0, <2>2, <4>1
      <3>2. QED
        BY <3>1
    <2>8. QED
      BY <2>3, <2>6, <2>7
  <1>8. ASSUME NEW a \in App, CountTask(a)
        PROVE  /\ InHandMade'
               /\ \E u \in Task : /\ u = thread[a].task /\ ~Counted(u)
                                  /\ \A t \in Task : Counted(t)' <=> Counted(t) \/ t = u
    <2>1. MadeSame
      BY <1>8, LaunchCount
    <2>2. /\ \A i \in Thread : i # a => thread'[i] = thread[i]
          /\ thread'[a].at = "try" /\ thread'[a].task = thread[a].task
          /\ thread[a].at = "count"
      BY <1>0, <1>3, <1>8, TypesCount, MoveBy
    <2>3. PICK u \in Task : u = thread[a].task
      BY <1>0, <2>2, TaskInHand DEF TaskLabels
    <2>4. Launcher(u) = a
      BY <2>2, <2>3 DEF LaunchInv, LaunchersOwn, TaskLabels
    <2>5. InHandMade'
      BY <1>0, <1>4, <2>1, <2>2
    <2>6. \A t \in Task : t # u => (Counting(t)' <=> Counting(t))
      BY <1>0, <2>2, <2>3 DEF Counting
    <2>7. Counting(u) /\ ~Counting(u)' /\ Made(u)
      BY <2>2, <2>3, <2>4 DEF Counting, Made
    <2>8. \A t \in Task : Counted(t)' <=> Counted(t) \/ t = u
      BY <1>1, <1>2, <2>1, <2>5, <2>6, <2>7 DEF MadeSame
    <2>9. QED
      BY <1>2, <2>3, <2>5, <2>7, <2>8
  <1>9. QED
    BY <1>5, <1>6, <1>7, <1>8, QuietSteps DEF Launch

\* What the handler has discounted.
LEMMA DiscountedSteps ==
  ASSUME AllOwn, OwnersInv, PacketsInv, SyncLists, AcquiredRun, TasksHeld, HeldOver, [Next]_vars,
         NEW t \in Task
  PROVE  IF DiscountTasks
         THEN /\ Discounted(t)' <=> Discounted(t) \/ t \in Elements(groupTasks)
              /\ ~(Discounted(t) /\ t \in Elements(groupTasks))
         ELSE Discounted(t)' <=> Discounted(t)
  <1>0. /\ Types /\ Callback \in Thread
        /\ Discounted(t) <=> Over(t) /\ t \notin Elements(groupTasks)
        /\ Discounted(t)' <=> Over(t)' /\ t \notin Elements(groupTasks')
    BY SmallFacts DEF OwnersInv, Discounted, Over, SetBack, Running
  <1>1. Over(t)' <=> Over(t) \/ (ReleaseTasks /\ t \in Elements(groupTasks))
    BY OverSteps
  <1>2. CASE DiscountTasks
    <2>1. groupTasks' = <<>> /\ thread[Callback].at = "discount"
      BY <1>2 DEF DiscountTasks, At
    <2>2. ~ReleaseTasks /\ (t \in Elements(groupTasks) => Over(t))
      BY <2>1 DEF ReleaseTasks, At, HeldOver
    <2>3. QED
      BY <1>0, <1>1, <1>2, <2>1, <2>2, ElementsOf
  <1>3. CASE ReleaseTasks
    <2>1. groupTasks' = groupTasks /\ ~DiscountTasks
      BY <1>3 DEF ReleaseTasks, DiscountTasks, handlerVars, At
    <2>2. QED
      BY <1>0, <1>1, <1>3, <2>1
  <1>4. CASE TakeRunning
    <2>1. PICK d \in Group :
             /\ thread[Callback].at = "drain" /\ groupTasks' = runningGroupable[d]
      BY <1>0, <1>4, TakeEffect
    <2>2. groupTasks = <<>> /\ ~ReleaseTasks /\ ~DiscountTasks
      BY <2>1 DEF TasksHeld, Holding, Dispatching, ReleaseTasks, DiscountTasks, At
    <2>3. ASSUME t \in Elements(groupTasks') PROVE ~Over(t)
      <3>1. GroupOf[t] = d
        BY <2>1, <2>3 DEF OwnersInv, ListsOwn
      <3>2. Running(t)
        BY <2>1, <2>3, <3>1 DEF Running
      <3>3. QED
        BY <3>2, RunningNotOver
    <2>4. QED
      BY <1>0, <1>1, <2>2, <2>3, ElementsOf
  <1>5. CASE ~DiscountTasks /\ ~ReleaseTasks /\ ~TakeRunning
    <2>1. groupTasks' = groupTasks
      <3>1. CASE DoProgress \/ TakeFront \/ PopReady \/ TryDispatch(Callback) \/ Dispatch(Callback)
        BY <1>0, <3>1, LoopCarries DEF TasksHeld
      <3>2. CASE \/ (\E g \in Group : HandleGroupSignal(g)) \/ LockGroup
                 \/ LoadCount \/ ClearSuccessors \/ BeginVisits \/ VisitSuccessor \/ PushReady
        BY <3>2 DEF HandleGroupSignal, LockGroup, LoadCount, ClearSuccessors,
                    BeginVisits, VisitSuccessor, PushReady, handlerVars
      <3>3. CASE Handler
        BY <1>5, <3>1, <3>2, <3>3 DEF Handler
      <3>4. QED
        BY <3>3, HandlerAlone
    <2>2. QED
      BY <1>0, <1>1, <1>5, <2>1
  <1>6. QED
    BY <1>2, <1>3, <1>4, <1>5

LEMMA CountSteps ==
  ASSUME OwnersInv, TasksHeld, [Next]_vars,
         ~(\E a \in App : CountTask(a)), ~DiscountTasks
  PROVE  taskCount' = taskCount
  <1>0. Types
    BY DEF OwnersInv
  <1>1. CASE DoProgress \/ TakeFront \/ PopReady \/ TryDispatch(Callback) \/ Dispatch(Callback)
    BY <1>0, <1>1, LoopCarries DEF TasksHeld
  <1>2. CASE \/ (\E g \in Group : HandleGroupSignal(g)) \/ LockGroup \/ TakeRunning \/ ReleaseTasks
             \/ LoadCount \/ ClearSuccessors \/ BeginVisits \/ VisitSuccessor \/ PushReady
    BY <1>2 DEF HandleGroupSignal, LockGroup, TakeRunning, ReleaseTasks, LoadCount,
                ClearSuccessors, BeginVisits, VisitSuccessor, PushReady
  <1>3. CASE Handler
    BY <1>1, <1>2, <1>3 DEF Handler
  <1>4. QED
    BY <1>3, HandlerAlone

LEMMA FiniteParts ==
  ASSUME NEW S \in SUBSET Task
  PROVE  IsFiniteSet(S) /\ Cardinality(S) \in Nat
  BY GroupTaskAssumption, FS_Subset, FS_CardinalityType

LEMMA DistinctCounted ==
  ASSUME NEW q \in Seq(Task), Distinct(q)
  PROVE  Cardinality(Elements(q)) = Len(q)
  <1>1. Len(q) \in Nat /\ DOMAIN q = 1..Len(q)
    OBVIOUS
  <1>2. PICK f : f = [i \in 1..Len(q) |-> q[i]]
    OBVIOUS
  <1>3. f \in [1..Len(q) -> Elements(q)]
    BY <1>1, <1>2 DEF Elements
  <1>4. f \in Bijection(1..Len(q), Elements(q))
    <2>1. \A i, j \in 1..Len(q) : f[i] = f[j] => i = j
      BY <1>1, <1>2 DEF Distinct
    <2>2. \A t \in Elements(q) : \E i \in 1..Len(q) : f[i] = t
      BY <1>1, <1>2 DEF Elements
    <2>3. QED
      BY <1>3, <2>1, <2>2 DEF Bijection, Injection, Surjection, IsInjective
  <1>5. ExistsBijection(1..Len(q), Elements(q))
    BY <1>4 DEF ExistsBijection
  <1>6. IsFiniteSet(1..Len(q)) /\ Cardinality(1..Len(q)) = Len(q)
    <2>1. ASSUME NEW n \in Nat PROVE IsFiniteSet(1..n) /\ Cardinality(1..n) = n
      <3>1. IsFiniteSet(1..n) /\ Cardinality(1..n) = IF 1 > n THEN 0 ELSE n - 1 + 1
        BY FS_Interval
      <3>2. QED
        BY <3>1
    <2>2. QED
      BY <1>1, <2>1
  <1>7. QED
    BY <1>5, <1>6, FS_Bijection

LEMMA CountKept ==
  ASSUME AllOwn, OwnersInv, OwnersInv', PacketsInv, LaunchInv, SyncLists, AcquiredRun,
         CountInv, [Next]_vars
  PROVE  CountInv'
  <1>0. /\ Types /\ Callback \in Thread /\ taskCount \in [Group -> Int]
        /\ TasksHeld /\ HeldOver /\ InHandMade /\ TaskCountExact
        /\ groupTasks \in Seq(Task)
    BY SmallFacts DEF OwnersInv, Types, GroupsTyped, ListsTyped, CountInv
  <1>1. TasksHeld' /\ HeldOver' /\ InHandMade'
    BY <1>0, HeldKept, HeldOverKept, CountedSteps
  <1>2. /\ \A g \in Group : CountedIn(g) \in SUBSET Task /\ DiscountedIn(g) \in SUBSET Task
        /\ \A g \in Group : taskCount[g] = Cardinality(CountedIn(g)) - Cardinality(DiscountedIn(g))
        /\ TaskCountExact' <=>
             \A g \in Group :
               taskCount'[g] = Cardinality(CountedIn(g)') - Cardinality(DiscountedIn(g)')
    BY <1>0 DEF TaskCountExact, CountedIn, DiscountedIn
  <1>3. (\A t \in Task : Counted(t)' <=> Counted(t))
          => \A g \in Group : CountedIn(g)' = CountedIn(g)
    BY DEF CountedIn
  <1>4. (\A t \in Task : Discounted(t)' <=> Discounted(t))
          => \A g \in Group : DiscountedIn(g)' = DiscountedIn(g)
    BY DEF DiscountedIn
  <1>5. CASE \E a \in App : CountTask(a)
    <2>1. PICK a \in App, u \in Task :
             /\ CountTask(a) /\ u = thread[a].task /\ ~Counted(u)
             /\ \A t \in Task : Counted(t)' <=> Counted(t) \/ t = u
      BY <1>0, <1>5, CountedSteps
    <2>2. PICK d \in Group : d = GroupOf[u]
      BY SmallFacts
    <2>3. ~DiscountTasks
      <3>1. a \in Thread /\ a # Callback
        BY SmallFacts
      <3>2. thread[a].at = "count" /\ thread'[a].at = "try"
        <4>1. thread[a].at = "count"
          BY <2>1 DEF CountTask, At
        <4>2. QED
          BY <1>0, <2>1, <3>1, <4>1, TypesCount, MoveBy
      <3>3. DiscountTasks => thread'[a] = thread[a]
        BY <1>0, <3>1, TypesFinish, MoveBy
      <3>4. QED
        BY <3>2, <3>3
    <2>4. \A g \in Group : DiscountedIn(g)' = DiscountedIn(g)
      BY <1>0, <1>4, <2>3, DiscountedSteps
    <2>5. taskCount' = [taskCount EXCEPT ![d] = @ + 1]
      BY <2>1, <2>2 DEF CountTask
    <2>6. /\ CountedIn(d)' = CountedIn(d) \cup {u} /\ u \notin CountedIn(d)
          /\ \A g \in Group : g # d => CountedIn(g)' = CountedIn(g)
      BY <2>1, <2>2 DEF CountedIn
    <2>7. Cardinality(CountedIn(d)') = Cardinality(CountedIn(d)) + 1
      BY <1>2, <2>6, FiniteParts, FS_AddElement
    <2>8. \A g \in Group :
            taskCount'[g] = Cardinality(CountedIn(g)') - Cardinality(DiscountedIn(g)')
      <3>1. ASSUME NEW g \in Group, g # d
            PROVE  taskCount'[g] = Cardinality(CountedIn(g)') - Cardinality(DiscountedIn(g)')
        <4>1. taskCount'[g] = taskCount[g]
          BY <1>0, <2>5, <3>1
        <4>2. QED
          BY <1>2, <2>4, <2>6, <3>1, <4>1
      <3>2. taskCount'[d] = Cardinality(CountedIn(d)') - Cardinality(DiscountedIn(d)')
        <4>1. taskCount'[d] = taskCount[d] + 1
          BY <1>0, <2>5
        <4>2. Cardinality(CountedIn(d)) \in Nat /\ Cardinality(DiscountedIn(d)) \in Nat
          BY <1>2, FiniteParts
        <4>3. taskCount[d] = Cardinality(CountedIn(d)) - Cardinality(DiscountedIn(d))
          BY <1>2
        <4>4. DiscountedIn(d)' = DiscountedIn(d)
          BY <2>4
        <4>5. QED
          BY <2>7, <4>1, <4>2, <4>3, <4>4
      <3>3. QED
        BY <3>1, <3>2
    <2>9. QED
      BY <1>1, <1>2, <2>8 DEF CountInv
  <1>6. CASE DiscountTasks
    <2>1. PICK d \in Group : d = thread[Callback].group
      BY <1>0, <1>6, GroupInHand DEF DiscountTasks, At, GroupLabels
    <2>2. \A g \in Group : CountedIn(g)' = CountedIn(g)
      <3>1. ~\E a \in App : CountTask(a)
        <4>1. ASSUME NEW a \in App, CountTask(a) PROVE FALSE
          <5>1. a \in Thread /\ a # Callback
            BY SmallFacts
          <5>2. thread[a].at = "count" /\ thread'[a].at = "try"
            <6>1. thread[a].at = "count"
              BY <4>1 DEF CountTask, At
            <6>2. QED
              BY <1>0, <4>1, <5>1, <6>1, TypesCount, MoveBy
          <5>3. thread'[a] = thread[a]
            BY <1>0, <1>6, <5>1, TypesFinish, MoveBy
          <5>4. QED
            BY <5>2, <5>3
        <4>2. QED
          BY <4>1
      <3>2. QED
        BY <1>0, <1>3, <3>1, CountedSteps
    <2>3. PICK T \in SUBSET Task : T = Elements(groupTasks)
      BY <1>0, ElementsOf
    <2>4. taskCount' = [taskCount EXCEPT ![d] = @ - Len(groupTasks)]
      BY <1>6, <2>1 DEF DiscountTasks, Discount
    <2>5. \A t \in Task : /\ Discounted(t)' <=> Discounted(t) \/ t \in T
                          /\ ~(Discounted(t) /\ t \in T)
      BY <1>0, <1>6, <2>3, DiscountedSteps
    <2>6. \A t \in T : GroupOf[t] = d
      BY <1>0, <2>1, <2>3 DEF TasksHeld
    <2>7. /\ DiscountedIn(d)' = DiscountedIn(d) \cup T /\ DiscountedIn(d) \cap T = {}
          /\ \A g \in Group : g # d => DiscountedIn(g)' = DiscountedIn(g)
      BY <2>5, <2>6 DEF DiscountedIn
    <2>8. Cardinality(T) = Len(groupTasks) /\ Len(groupTasks) \in Nat
      BY <1>0, <2>3, DistinctCounted, SequenceTypes DEF TasksHeld
    <2>9. Cardinality(DiscountedIn(d)') = Cardinality(DiscountedIn(d)) + Cardinality(T)
      <3>1. /\ IsFiniteSet(DiscountedIn(d)) /\ Cardinality(DiscountedIn(d)) \in Nat
            /\ IsFiniteSet(T) /\ Cardinality(T) \in Nat
        BY <1>2, <2>3, FiniteParts
      <3>2. /\ Cardinality(DiscountedIn(d) \cup T) =
                 Cardinality(DiscountedIn(d)) + Cardinality(T)
                   - Cardinality(DiscountedIn(d) \cap T)
            /\ Cardinality(DiscountedIn(d) \cap T) = 0
        BY <2>7, <3>1, FS_Union, FS_EmptySet
      <3>3. QED
        BY <2>7, <3>1, <3>2
    <2>10. \A g \in Group :
             taskCount'[g] = Cardinality(CountedIn(g)') - Cardinality(DiscountedIn(g)')
      <3>1. ASSUME NEW g \in Group, g # d
            PROVE  taskCount'[g] = Cardinality(CountedIn(g)') - Cardinality(DiscountedIn(g)')
        <4>1. taskCount'[g] = taskCount[g]
          BY <1>0, <2>4, <3>1
        <4>2. QED
          BY <1>2, <2>2, <2>7, <3>1, <4>1
      <3>2. taskCount'[d] = Cardinality(CountedIn(d)') - Cardinality(DiscountedIn(d)')
        <4>1. taskCount'[d] = taskCount[d] - Len(groupTasks)
          BY <1>0, <2>4
        <4>2. Cardinality(CountedIn(d)) \in Nat /\ Cardinality(DiscountedIn(d)) \in Nat
          BY <1>2, FiniteParts
        <4>3. taskCount[d] = Cardinality(CountedIn(d)) - Cardinality(DiscountedIn(d))
          BY <1>2
        <4>4. CountedIn(d)' = CountedIn(d)
          BY <2>2
        <4>5. QED
          BY <2>8, <2>9, <4>1, <4>2, <4>3, <4>4
      <3>3. QED
        BY <3>1, <3>2
    <2>11. QED
      BY <1>1, <1>2, <2>10 DEF CountInv
  <1>7. CASE ~(\E a \in App : CountTask(a)) /\ ~DiscountTasks
    <2>1. taskCount' = taskCount
      BY <1>0, <1>7, CountSteps
    <2>2. \A g \in Group : CountedIn(g)' = CountedIn(g) /\ DiscountedIn(g)' = DiscountedIn(g)
      BY <1>0, <1>3, <1>4, <1>7, CountedSteps, DiscountedSteps
    <2>3. QED
      BY <1>1, <1>2, <2>1, <2>2 DEF CountInv
  <1>8. QED
    BY <1>5, <1>6, <1>7

LEMMA CountInit == Init => CountInv
  <1> SUFFICES ASSUME Init PROVE CountInv
    OBVIOUS
  <1>1. \A h \in Thread : thread[h].at = "idle" /\ thread[h].task = NoTask
    BY DEF Init, Idle, Frame
  <1>2. groupTasks = <<>> /\ \A g \in Group : runningGroupable[g] = <<>> /\ taskCount[g] = 0
    BY DEF Init
  <1>3. TasksHeld /\ HeldOver
    BY <1>1, <1>2, SmallFacts, ElementsOf, DistinctMore
       DEF TasksHeld, HandlerLoops, HeldOver, Dispatching
  <1>4. InHandMade
    BY <1>1, SmallFacts DEF InHandMade
  <1>5. \A t \in Task : state[t] = UNINITIALIZED /\ ~Counted(t) /\ ~Discounted(t)
    BY <1>1, SmallFacts, LauncherFacts, ReadyStates DEF Init, Counted, Discounted, SetBack
  <1>6. TaskCountExact
    <2>1. \A g \in Group : /\ {t \in Task : GroupOf[t] = g /\ Counted(t)} = {}
                           /\ {t \in Task : GroupOf[t] = g /\ Discounted(t)} = {}
      BY <1>5
    <2>2. ASSUME NEW g \in Group
          PROVE  taskCount[g] = Cardinality({t \in Task : GroupOf[t] = g /\ Counted(t)})
                                - Cardinality({t \in Task : GroupOf[t] = g /\ Discounted(t)})
      <3>1. /\ Cardinality({t \in Task : GroupOf[t] = g /\ Counted(t)}) = 0
            /\ Cardinality({t \in Task : GroupOf[t] = g /\ Discounted(t)}) = 0
        BY <2>1, FS_EmptySet
      <3>2. QED
        BY <1>2, <3>1
    <2>3. QED
      BY <2>2 DEF TaskCountExact
  <1>7. QED
    BY <1>3, <1>4, <1>6 DEF CountInv

(***************************************************************************)
(* task_count_ of a group, which sync() spins on and the tasks that        *)
(* require the group look at, is the number of tasks counted by their      *)
(* launchers less the number of those the handler has discounted, although *)
(* the handler subtracts the length of a list that it took before its own  *)
(* loop dispatches more tasks of the group (task.cpp:687-777, 1802-1811).  *)
(* The premises: each group is used by the thread that waits for it, and   *)
(* its ordered groups have no CPU tasks.                                   *)
(***************************************************************************)
THEOREM TaskCountIsExact == OrderedAlone /\ AllOwn => (Spec => []TaskCountExact)
  <1> SUFFICES ASSUME OrderedAlone, AllOwn PROVE Spec => []TaskCountExact
    OBVIOUS
  <1>1. Init => CountInv
    BY CountInit
  <1>2. OwnersInv /\ OwnersInv' /\ PacketsInv /\ LaunchInv /\ SyncInv /\ CountInv /\ [Next]_vars
          => CountInv'
    BY CountKept DEF SyncInv
  <1>3. CountInv => TaskCountExact
    BY DEF CountInv
  <1>4. Spec => [](OwnersInv /\ PacketsInv /\ LaunchInv /\ SyncInv)
    BY SyncAlways
  <1>5. QED
    BY <1>1, <1>2, <1>3, <1>4, PTL DEF Spec
===============================================================================

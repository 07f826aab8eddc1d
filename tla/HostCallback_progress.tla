------------------------- MODULE HostCallback_progress -------------------------
(***************************************************************************)
(* Proofs, for programs whose tasks are in unordered groups, of what keeps *)
(* the scheduler going: no task is forgotten, and no signal or segment is; *)
(* and, for the ordered groups, that running_ordered_tasks_ holds what it  *)
(* should and that the packets of a group complete in the order in which   *)
(* its tasks were made.                                                    *)
(***************************************************************************)
EXTENDS HostCallback_refinement

-------------------------------------------------------------------------------
(***************************************************************************)
(* Nobody is forgotten.                                                    *)
(***************************************************************************)
LEMMA InSeqAppend ==
  ASSUME NEW S, NEW q \in Seq(S), NEW x, NEW t
  PROVE  InSeq(t, q) \/ t = x => InSeq(t, Append(q, x))
  <1>1. ASSUME NEW j \in DOMAIN q PROVE j \in DOMAIN Append(q, x) /\ Append(q, x)[j] = q[j]
    OBVIOUS
  <1>2. Len(q) + 1 \in DOMAIN Append(q, x) /\ Append(q, x)[Len(q) + 1] = x
    OBVIOUS
  <1>3. QED
    BY <1>1, <1>2 DEF InSeq

LEMMA InSeqConcat ==
  ASSUME NEW S, NEW q \in Seq(S), NEW r \in Seq(S), NEW t
  PROVE  InSeq(t, q) \/ InSeq(t, r) => InSeq(t, q \o r)
  <1>1. ASSUME NEW j \in DOMAIN q PROVE j \in DOMAIN (q \o r) /\ (q \o r)[j] = q[j]
    OBVIOUS
  <1>2. ASSUME NEW j \in DOMAIN r
        PROVE  Len(q) + j \in DOMAIN (q \o r) /\ (q \o r)[Len(q) + j] = r[j]
    OBVIOUS
  <1>3. QED
    BY <1>1, <1>2 DEF InSeq

LEMMA InSeqTail ==
  ASSUME NEW S, NEW q \in Seq(S), q # <<>>, NEW t, InSeq(t, q)
  PROVE  t = Head(q) \/ InSeq(t, Tail(q))
  <1>1. PICK j \in DOMAIN q : q[j] = t
    BY DEF InSeq
  <1>2. CASE j = 1
    BY <1>1, <1>2
  <1>3. CASE j # 1
    <2>1. j \in 2 .. Len(q)
      BY <1>1, <1>3
    <2>2. j - 1 \in DOMAIN Tail(q) /\ Tail(q)[j - 1] = q[j]
      BY <2>1
    <2>3. QED
      BY <1>1, <2>2 DEF InSeq
  <1>4. QED
    BY <1>2, <1>3

(***************************************************************************)
(* A created task that requires others is dispatched by nobody if those    *)
(* have finished when CreateTask looks (ActivateTask does nothing for it), *)
(* so the claim is for programs without such tasks.                        *)
(***************************************************************************)
CreatedRequireNothing == \A t \in Created : Requires[t] = {}

Waiting(t) == t \notin Created /\ state[t] = INITIALIZED /\ numPredecessors[t] = 0
Somewhere(t) == InSeq(t, readyQueue) \/ InSeq(t, tempList) \/ InHand(t)

NobodyForgotten == \A t \in Task : Waiting(t) => Somewhere(t)

\* A step that starts no wait and moves no waiting task.
LEMMA SomewhereKept ==
  ASSUME NobodyForgotten,
         \A t \in Task : Waiting(t)' => Waiting(t),
         \A t \in Task : Waiting(t)' /\ Somewhere(t) => Somewhere(t)'
  PROVE  NobodyForgotten'
  BY DEF NobodyForgotten

LEMMA TryForgetsNobody ==
  ASSUME Unordered, OwnershipInv, DependencyInv, NobodyForgotten, NEW h \in Thread, TryDispatch(h)
  PROVE  NobodyForgotten'
  <1>0. PICK t : t = thread[h].task
    OBVIOUS
  <1>1. /\ thread[h].at = "try" /\ tempList' = tempList
        /\ \A i \in Thread : i # h => thread'[i] = thread[i]
        /\ \A u \in Task : u # t => state'[u] = state[u]
        /\ \A u \in Task : u # t => numPredecessors'[u] = numPredecessors[u]
        /\ readyQueue' = readyQueue \/ readyQueue' = Append(readyQueue, t)
    <2>1. /\ thread[h].at = "try" /\ tempList' = tempList
          /\ EndTry(h, FALSE) \/ thread' = [thread EXCEPT ![h].at = FirstDispatchStep(t)]
          /\ \/ state' = state
             \/ state' = [state EXCEPT ![t] = INITIALIZED]
             \/ state' = [state EXCEPT ![t] = READY]
          /\ \/ numPredecessors' = numPredecessors
             \/ \E P : numPredecessors' =
                         [numPredecessors EXCEPT ![t] = @ + Cardinality(P)]
          /\ readyQueue' = readyQueue \/ readyQueue' = Append(readyQueue, t)
      BY <1>0 DEF TryDispatch, TryTaken, TryWaitsForRequired, TryWaitsForPrevious,
             TryLacksResources, TryAcquires, KeepForLater, TryLeavesUnchanged,
             handlerVars, LinkToPrevious, LinkTo, QueueForResources, Goto, At
    <2>2. /\ state \in [Task -> State] /\ numPredecessors \in [Task -> Int]
          /\ thread \in [Thread -> ThreadType]
      BY DEF OwnershipInv, TypeInv, TypeOK, ThreadType
    <2>3. \A i \in Thread : i # h => thread'[i] = thread[i]
      BY <2>1, <2>2, EndTryMoves DEF OwnershipInv
    <2>4. QED
      BY <2>1, <2>2, <2>3
  <1>2. /\ t \in Task /\ prevOrdered[t] = NoTask /\ readyQueue \in Seq(Task)
        /\ state \in [Task -> State] /\ numPredecessors \in [Task -> Int]
    BY <1>0, <1>1 DEF OwnershipInv, TypeInv, TypeOK, ThreadsNameTasks, At, DependencyInv,
                NothingOrdered
  <1>3. \A u \in Task : u # t /\ Somewhere(u) => Somewhere(u)'
    <2>1. \A u \in Task : InSeq(u, readyQueue) => InSeq(u, readyQueue')
      BY <1>1, <1>2, InSeqAppend
    <2>2. \A u \in Task : u # t /\ InHand(u) => InHand(u)'
      BY <1>0, <1>1 DEF InHand, At
    <2>3. QED
      BY <1>1, <2>1, <2>2 DEF Somewhere
  <1>4. \A u \in Task : u # t /\ Waiting(u)' => Somewhere(u)'
    BY <1>1, <1>3 DEF NobodyForgotten, Waiting
  <1>5. Waiting(t)' => Somewhere(t)'
    <2> SUFFICES ASSUME t \notin Created, state'[t] = INITIALIZED, numPredecessors'[t] = 0
                 PROVE  InSeq(t, readyQueue')
      BY <1>1 DEF Waiting, Somewhere
    <2>1. ~TryTaken(h) /\ ~TryAcquires(h)
      <3>1. TryTaken(h) => state[t] >= READY /\ state'[t] = state[t]
        BY <1>0 DEF TryTaken
      <3>2. TryAcquires(h) => state'[t] = READY
        <4>1. TryAcquires(h) => state' = [state EXCEPT ![t] = READY]
          BY <1>0 DEF TryAcquires
        <4>2. QED
          BY <1>2, <4>1
      <3>3. QED
        BY <3>1, <3>2 DEF INITIALIZED, READY
    <2>2. ~TryWaitsForPrevious(h)
      BY <1>0, <1>2 DEF TryWaitsForPrevious, PrevBlocks
    <2>3. ~TryWaitsForRequired(h)
      <3> SUFFICES ASSUME TryWaitsForRequired(h) PROVE FALSE
        OBVIOUS
      <3> DEFINE P == WaitsFor(t)
      <3>1. /\ P # {} /\ P \subseteq Task
            /\ numPredecessors' = [numPredecessors EXCEPT ![t] = @ + Cardinality(P)]
        BY <1>0, <1>2, TaskAssumption DEF TryWaitsForRequired, LinkTo, WaitsFor, Unfinished
      <3>2. Cardinality(P) \in Nat \ {0}
        BY <3>1, FiniteAssumption, FS_Subset, FS_CardinalityType, FS_EmptySet
      <3>3. numPredecessors[t] \in Nat
        <4>1. numPredecessors[t] = Cardinality({p \in Task : StillCounts(p, t)})
          BY <1>2 DEF DependencyInv, PredecessorCountExact
        <4>2. IsFiniteSet({p \in Task : StillCounts(p, t)})
          BY FiniteAssumption, FS_Subset
        <4>3. QED
          BY <4>1, <4>2, FS_CardinalityType
      <3>4. QED
        BY <1>2, <3>1, <3>2, <3>3
    <2>4. TryLacksResources(h)
      BY <2>1, <2>2, <2>3 DEF TryDispatch
    <2>5. QED
      BY <1>0, <1>2, <2>4, InSeqAppend
      DEF TryLacksResources, QueueForResources, Unordered
  <1>6. QED
    BY <1>2, <1>4, <1>5 DEF NobodyForgotten
LEMMA HandlerForgetsNobody ==
  ASSUME OwnershipInv, DependencyInv, NobodyForgotten,
         \/ \E u \in Task : HandleSignal(u) \/ VisitSuccessor(u)
         \/ ReleaseResources \/ MarkCompleted \/ DoProgress \/ PopReady
  PROVE  NobodyForgotten'
  <1>1. /\ Callback \in Thread /\ thread[Callback].at # "try"
        /\ \A i \in Thread : i # Callback => thread'[i] = thread[i]
    <2>1. thread[Callback].at # "try"
      BY DEF HandleSignal, VisitSuccessor, ReleaseResources, MarkCompleted, DoProgress,
             PopReady, At
    <2>2. \/ thread' = thread
          \/ \E f : thread' = [thread EXCEPT ![Callback] = f]
          \/ \E l : thread' = [thread EXCEPT ![Callback].at = l]
      BY DEF HandleSignal, VisitSuccessor, ReleaseResources, MarkCompleted, DoProgress,
             PopReady, Work, Goto, Rest
    <2>3. thread \in [Thread -> ThreadType]
      BY DEF OwnershipInv, TypeInv, TypeOK, ThreadType
    <2>4. QED
      BY <2>1, <2>2, <2>3 DEF Thread
  <1>2. /\ readyQueue \in Seq(Task) /\ tempList \in Seq(Task)
        /\ state \in [Task -> State] /\ numPredecessors \in [Task -> Int]
        /\ thread \in [Thread -> ThreadType]
    BY DEF OwnershipInv, TypeInv, TypeOK, ThreadType
  <1>3. \A u \in Task : InHand(u) => InHand(u)'
    BY <1>1 DEF InHand, At
  <1>4. ASSUME NEW u \in Task, VisitSuccessor(u) PROVE NobodyForgotten'
    <2>1. /\ numPredecessors' = [numPredecessors EXCEPT ![u] = @ - 1]
          /\ tempList' = IF LastPredecessor(u) THEN Append(tempList, u) ELSE tempList
          /\ readyQueue' = readyQueue /\ state' = state
      BY <1>4 DEF VisitSuccessor
    <2>2. \A v \in Task : Somewhere(v) => Somewhere(v)'
      BY <1>2, <1>3, <2>1, InSeqAppend DEF Somewhere
    <2>3. \A v \in Task : v # u /\ Waiting(v)' => Waiting(v)
      BY <1>2, <2>1 DEF Waiting
    <2>4. Waiting(u)' => Somewhere(u)'
      BY <1>2, <2>1, InSeqAppend DEF Waiting, Somewhere, LastPredecessor
    <2>5. QED
      BY <2>2, <2>3, <2>4 DEF NobodyForgotten
  <1>5. CASE ReleaseResources
    <2>1. readyQueue' = readyQueue \o tempList /\ UNCHANGED <<state, numPredecessors>>
      BY <1>5 DEF ReleaseResources
    <2>2. \A v \in Task : Somewhere(v) => Somewhere(v)'
      BY <1>2, <1>3, <2>1, InSeqConcat DEF Somewhere
    <2>3. \A v \in Task : Waiting(v)' => Waiting(v)
      BY <2>1 DEF Waiting
    <2>4. QED
      BY <2>2, <2>3 DEF NobodyForgotten
  <1>6. CASE PopReady
    <2>1. UNCHANGED <<state, numPredecessors, tempList>>
      BY <1>6 DEF PopReady
    <2>2. ASSUME NEW v \in Task, InSeq(v, readyQueue)
          PROVE  InSeq(v, readyQueue') \/ InHand(v)'
      <3>1. CASE budget > 0 /\ readyQueue # <<>>
        <4>1. /\ thread' = [thread EXCEPT ![Callback] =
                              Frame("try", Head(readyQueue), "drain")]
              /\ readyQueue' = Tail(readyQueue)
          BY <1>6, <3>1 DEF PopReady, Work
        <4>2. v = Head(readyQueue) \/ InSeq(v, readyQueue')
          BY <1>2, <2>2, <3>1, <4>1, InSeqTail
        <4>3. thread'[Callback] = Frame("try", Head(readyQueue), "drain")
          BY <1>1, <1>2, <4>1
        <4>4. v = Head(readyQueue) => InHand(v)'
          BY <1>1, <4>3 DEF InHand, At, Frame
        <4>5. QED
          BY <4>2, <4>4
      <3>2. CASE ~(budget > 0 /\ readyQueue # <<>>)
        BY <1>6, <2>2, <3>2 DEF PopReady
      <3>3. QED
        BY <3>1, <3>2
    <2>3. \A v \in Task : Somewhere(v) => Somewhere(v)'
      BY <1>3, <2>1, <2>2 DEF Somewhere
    <2>4. \A v \in Task : Waiting(v)' => Waiting(v)
      BY <2>1 DEF Waiting
    <2>5. QED
      BY <2>3, <2>4 DEF NobodyForgotten
  <1>7. CASE MarkCompleted \/ DoProgress \/ \E u \in Task : HandleSignal(u)
    <2>1. /\ UNCHANGED <<numPredecessors, readyQueue, tempList>>
          /\ \/ state' = state
             \/ \E u : state' = [state EXCEPT ![u] = COMPLETED]
             \/ \E u : state' = [state EXCEPT ![u] = EXECUTED]
      BY <1>7 DEF MarkCompleted, DoProgress, HandleSignal, handlerVars
    <2>2. \A v \in Task : Waiting(v)' => Waiting(v)
      BY <1>2, <2>1 DEF Waiting, INITIALIZED, EXECUTED, COMPLETED
    <2>3. \A v \in Task : Somewhere(v) => Somewhere(v)'
      BY <1>3, <2>1 DEF Somewhere
    <2>4. QED
      BY <2>2, <2>3 DEF NobodyForgotten
  <1>8. QED
    BY <1>4, <1>5, <1>6, <1>7

LEMMA ForgottenStep ==
  ASSUME Unordered, CreatedUnordered, OwnershipInv, DependencyInv, NobodyForgotten,
         [Next]_vars
  PROVE  NobodyForgotten'
  <1>1. Callback \in Thread /\ \A a \in App : a \in Thread
    BY DEF Thread
  <1>2. ASSUME NEW h \in Thread, TryDispatch(h) PROVE NobodyForgotten'
    BY <1>2, TryForgetsNobody
  \* A step of a thread elsewhere, that stores no first state.
  <1> DEFINE Elsewhere ==
        /\ UNCHANGED <<readyQueue, tempList, numPredecessors>>
        /\ \A i \in Thread : thread[i].at = "try" => thread'[i] = thread[i]
        /\ \A u \in Task : state'[u] = INITIALIZED => state[u] = INITIALIZED
  <1>3. CASE Elsewhere
    <2>1. \A u \in Task : Waiting(u)' => Waiting(u)
      BY <1>3 DEF Waiting
    <2>2. \A u \in Task : Somewhere(u) => Somewhere(u)'
      BY <1>3 DEF Somewhere, InHand, At
    <2>3. QED
      BY <2>1, <2>2 DEF NobodyForgotten
  <1>4. /\ thread \in [Thread -> ThreadType] /\ state \in [Task -> State]
        /\ numPredecessors \in [Task -> Int]
    BY DEF OwnershipInv, TypeInv, TypeOK, ThreadType
  <1>5. ASSUME NEW h \in Thread, Dispatch(h) PROVE NobodyForgotten'
    <2>1. /\ thread[h].at \in {"mark", "publish", "spawn", "register", "wait"}
          /\ UNCHANGED <<readyQueue, tempList, numPredecessors>>
          /\ \/ state' = state
             \/ state' = [state EXCEPT ![thread[h].task] = DISPATCHED]
      BY <1>5 DEF Dispatch, MarkDispatched, Publish, SpawnCopier, RegisterHandler,
                  WaitCompleted, DispatchLeavesUnchanged, handlerVars, At
    <2>2. \A i \in Thread : i # h => thread'[i] = thread[i]
      <3>1. \/ \E l : thread' = [thread EXCEPT ![h].at = l]
            \/ thread' = [thread EXCEPT ![h] = Idle]
        BY <1>5 DEF Dispatch, MarkDispatched, Publish, SpawnCopier, RegisterHandler,
                    WaitCompleted, EndTry, Resume, Goto, Rest
      <3>2. QED
        BY <1>4, <3>1
    <2>3. Elsewhere
      BY <1>4, <2>1, <2>2 DEF INITIALIZED, DISPATCHED
    <2>4. QED
      BY <1>3, <2>3
  <1>6. ASSUME NEW a \in App, Call(a) \/ SaveArgs(a) PROVE NobodyForgotten'
    <2>1. /\ thread[a].at \in {"idle", "save"}
          /\ UNCHANGED <<state, readyQueue, tempList, numPredecessors>>
      BY <1>6 DEF Call, Construct, ActivateTask, SaveArgs, At, taskVars, handlerVars
    <2>2. \/ thread' = thread
          \/ \E f : thread' = [thread EXCEPT ![a] = f]
          \/ \E l : thread' = [thread EXCEPT ![a].at = l]
      BY <1>6 DEF Call, Construct, ActivateTask, SaveArgs, Work, Goto
    <2>3. Elsewhere
      BY <1>1, <1>4, <2>1, <2>2
    <2>4. QED
      BY <1>3, <2>3
  <1>7. ASSUME NEW a \in App, CreateTask(a) PROVE NobodyForgotten'
    <2>1. PICK t : t = thread[a].task
      OBVIOUS
    <2>2. /\ a \in Thread /\ thread[a].at = "create"
          /\ state' = [state EXCEPT ![t] = INITIALIZED]
          /\ \E P : numPredecessors' = [numPredecessors EXCEPT ![t] = @ + Cardinality(P)]
          /\ thread' = [thread EXCEPT ![a] = Idle]
          /\ UNCHANGED <<readyQueue, tempList>>
      BY <1>7, <2>1 DEF Thread, CreateTask, LinkTo, Rest, handlerVars, At
    <2>3. t \in Created
      BY <2>1, <2>2 DEF OwnershipInv, CreationPrivate, At
    <2>4. \A u \in Task : Waiting(u)' => Waiting(u)
      BY <1>4, <2>2, <2>3 DEF Waiting
    <2>5. \A u \in Task : Somewhere(u) => Somewhere(u)'
      BY <1>4, <2>2 DEF Somewhere, InHand, At
    <2>6. QED
      BY <2>4, <2>5 DEF NobodyForgotten
  <1>8. ASSUME NEW h \in Thread, TakeFront(h) PROVE FALSE
    BY <1>8 DEF TakeFront, At, DependencyInv, NothingOrdered
  <1>9. ASSUME NEW a \in App, Call(a) \/ AppStep(a) PROVE NobodyForgotten'
    BY <1>1, <1>2, <1>5, <1>6, <1>7, <1>8, <1>9 DEF AppStep
  <1>10. CASE Handler
    <2>1. CASE TakeFront(Callback) \/ TryDispatch(Callback) \/ Dispatch(Callback)
      BY <1>1, <1>2, <1>5, <1>8, <2>1
    <2>2. QED
      BY <1>10, <2>1, HandlerForgetsNobody DEF Handler
  <1>11. ASSUME NEW t \in Task, Device(t) PROVE NobodyForgotten'
    <2>1. /\ UNCHANGED <<thread, readyQueue, tempList, numPredecessors>>
          /\ state' = state \/ state' = [state EXCEPT ![t] = DISPATCHED]
      BY <1>11 DEF Device, CompletePacket, CopierIssue, CopierMark, CopierFinish,
                   DeviceLeavesUnchanged, handlerVars
    <2>2. Elsewhere
      BY <1>4, <2>1 DEF INITIALIZED, DISPATCHED
    <2>3. QED
      BY <1>3, <2>2
  <1>12. CASE UNCHANGED vars
    <2>1. Elsewhere
      BY <1>12 DEF vars, taskVars, handlerVars
    <2>2. QED
      BY <1>3, <2>1
  <1>13. CASE Finished
    BY <1>12, <1>13 DEF Finished
  <1>14. QED
    BY <1>9, <1>10, <1>11, <1>12, <1>13 DEF Next

(***************************************************************************)
(* A task that waits for nobody is in the ready queue, on its way there,   *)
(* or in the hands of a thread: an attempt that fails for want of a signal *)
(* or a segment queues the task before its lock is given back, and the     *)
(* last of its predecessors to be visited does the same.                   *)
(***************************************************************************)
THEOREM ReadyTasksAreQueued ==
  Unordered /\ CreatedRequireNothing => (Spec => []ReadyTasksQueued)
  <1> SUFFICES ASSUME Unordered, CreatedRequireNothing PROVE Spec => []ReadyTasksQueued
    OBVIOUS
  <1>1. CreatedUnordered
    BY TaskAssumption DEF Unordered, CreatedUnordered
  <1>2. Init => NobodyForgotten
    BY DEF Init, NobodyForgotten, Waiting, UNINITIALIZED, INITIALIZED
  <1>3. OwnershipInv /\ DependencyInv /\ NobodyForgotten /\ [Next]_vars => NobodyForgotten'
    BY <1>1, ForgottenStep
  <1>4. NobodyForgotten => ReadyTasksQueued
    BY DEF CreatedRequireNothing, NobodyForgotten, Waiting, Somewhere, ReadyTasksQueued
  <1>5. QED
    BY <1>2, <1>3, <1>4, BothInvariants, PTL DEF Spec

-------------------------------------------------------------------------------
(***************************************************************************)
(* Nothing leaks, and whoever waits in the ready queue is woken.           *)
(***************************************************************************)
SignalsConserved ==
  \A s \in Signal \ freeSignals : \E t \in Task : Holds(t) /\ signalOf[t] = s

SegmentsConserved ==
  \A k \in Kernel : \A i \in (1..SegmentCount[k]) \ freeSegments[k] :
    \E t \in Task :
      Holds(t) /\ IsKernel(t) /\ KernelOf[t] = k /\ segmentOf[t] = i

DrainVia ==
  thread[Callback].at \in {"visit", "complete", "progress", "pop"} =>
    thread[Callback].via = "drain"

WakerInv == SignalsConserved /\ SegmentsConserved /\ DrainVia /\ QueueHasWaker

\* Only the handler's release takes a task's resources.
LEMMA ReleasedSteps ==
  ASSUME OwnershipInv, [Next]_vars, ~ReleaseResources, thread'[Callback].at = "complete"
  PROVE  thread'[Callback] = thread[Callback]
  <1> DEFINE Goal == thread'[Callback] = thread[Callback]
  <1>1. /\ Callback \in Thread /\ \A a \in App : a \in Thread /\ a # Callback
        /\ thread \in [Thread -> ThreadType]
    BY ThreadAssumption DEF Thread, OwnershipInv, TypeInv, TypeOK, ThreadType
  <1>2. ASSUME NEW h \in Thread, TryDispatch(h) PROVE Goal
    <2>1. \/ thread[h].at = "try" /\ EndTry(h, FALSE)
          \/ thread' = [thread EXCEPT ![h].at = FirstDispatchStep(thread[h].task)]
      BY <1>2 DEF TryDispatch, TryTaken, TryWaitsForRequired, TryWaitsForPrevious,
                  TryLacksResources, TryAcquires, KeepForLater, Goto, At
    <2>2. CASE thread[h].at = "try" /\ EndTry(h, FALSE)
      <3>1. /\ \A i \in Thread : i # h => thread'[i] = thread[i]
            /\ thread'[h].at \in {"idle", "pop", "front", "wait"}
        BY <2>2, EndTryMoves DEF OwnershipInv
      <3>2. QED
        BY <1>1, <3>1
    <2>3. CASE thread' = [thread EXCEPT ![h].at = FirstDispatchStep(thread[h].task)]
      <3>1. FirstDispatchStep(thread[h].task) \in {"mark", "publish", "spawn"}
        BY DEF FirstDispatchStep
      <3>2. QED
        BY <1>1, <2>3, <3>1 DEF ThreadType
    <2>4. QED
      BY <2>1, <2>2, <2>3
  <1>3. ASSUME NEW h \in Thread, Dispatch(h) \/ TakeFront(h) PROVE Goal
    <2>1. \/ thread' = [thread EXCEPT ![h] = Idle]
          \/ \E l \in {"register", "publish", "mark", "wait", "pop", "front"} :
               thread' = [thread EXCEPT ![h].at = l]
          \/ \E u : thread' = [thread EXCEPT ![h] = Frame("try", u, "front")]
      <3>1. CASE TakeFront(h) \/ MarkDispatched(h) \/ Publish(h) \/ SpawnCopier(h)
        BY <3>1 DEF TakeFront, MarkDispatched, Publish, SpawnCopier, Rest, Work, Goto
      <3>2. CASE RegisterHandler(h) \/ WaitCompleted(h)
        BY <3>2 DEF RegisterHandler, WaitCompleted, EndTry, Resume, Goto, Rest
      <3>3. QED
        BY <1>3, <3>1, <3>2 DEF Dispatch
    <2>2. QED
      BY <1>1, <2>1 DEF Idle, Frame, ThreadType
  <1>4. ASSUME NEW a \in App, Call(a) \/ AppStep(a) PROVE Goal
    <2>1. CASE Call(a) \/ SaveArgs(a) \/ CreateTask(a)
      <3>1. \/ thread' = thread
            \/ \E f : thread' = [thread EXCEPT ![a] = f]
            \/ \E l : thread' = [thread EXCEPT ![a].at = l]
        BY <2>1 DEF Call, Construct, ActivateTask, SaveArgs, CreateTask, Work, Goto, Rest
      <3>2. QED
        BY <1>1, <3>1
    <2>2. CASE TakeFront(a) \/ TryDispatch(a) \/ Dispatch(a)
      BY <1>1, <1>2, <1>3, <2>2
    <2>3. QED
      BY <1>4, <2>1, <2>2 DEF AppStep
  <1>5. CASE Handler
    <2>1. CASE \/ \E u \in Task : HandleSignal(u) \/ VisitSuccessor(u)
               \/ MarkCompleted \/ DoProgress \/ PopReady
      <3>1. \/ thread' = thread
            \/ thread' = [thread EXCEPT ![Callback] = Idle]
            \/ \E l \in {"progress", "pop"} : thread' = [thread EXCEPT ![Callback].at = l]
            \/ \E u, l, v : /\ l \in {"visit", "front", "try"}
                            /\ thread' = [thread EXCEPT ![Callback] = Frame(l, u, v)]
        BY <2>1 DEF HandleSignal, VisitSuccessor, MarkCompleted, DoProgress, PopReady,
                    Work, Goto, Rest
      <3>2. QED
        BY <1>1, <3>1 DEF Idle, Frame, ThreadType
    <2>2. CASE TakeFront(Callback) \/ TryDispatch(Callback) \/ Dispatch(Callback)
      BY <1>1, <1>2, <1>3, <2>2
    <2>3. QED
      BY <1>5, <2>1, <2>2 DEF Handler
  <1>6. ASSUME NEW t \in Task, Device(t) PROVE Goal
    BY <1>6 DEF Device, CompletePacket, CopierIssue, CopierMark, CopierFinish,
                DeviceLeavesUnchanged
  <1>7. CASE UNCHANGED vars
    BY <1>7 DEF vars
  <1>8. CASE Finished
    BY <1>7, <1>8 DEF Finished
  <1>9. QED
    BY <1>4, <1>5, <1>6, <1>7, <1>8 DEF Next

LEMMA HoldsKept ==
  ASSUME CreatedUnordered, OwnershipInv, [Next]_vars, ~ReleaseResources,
         NEW t \in Task, Holds(t)
  PROVE  Holds(t)'
  <1>1. /\ state[t] \in READY..EXECUTED /\ ~Released(t) /\ state'[t] >= state[t]
        /\ state \in [Task -> State] /\ state' \in [Task -> State]
    BY OwnershipStep, StateAdvances DEF Holds, OwnershipInv, TypeInv, TypeOK
  <1>2. ~Released(t)'
    BY <1>1, ReleasedSteps DEF Released, At
  <1>3. state'[t] # COMPLETED
    <2> SUFFICES ASSUME state'[t] = COMPLETED PROVE FALSE
      OBVIOUS
    <2> USE DEF INITIALIZED, READY, DISPATCHED, EXECUTED, COMPLETED
    <2>1. CASE MarkCompleted
      <3>1. /\ thread[Callback].at = "complete"
            /\ state' = [state EXCEPT ![thread[Callback].task] = COMPLETED]
        BY <2>1 DEF MarkCompleted, At
      <3>2. thread[Callback].task # t
        BY <1>1, <3>1 DEF Released, At
      <3>3. QED
        BY <1>1, <3>1, <3>2
    <2>2. CASE ~MarkCompleted
      <3>1. \/ state' = state
            \/ \E u : \E x \in {INITIALIZED, READY, DISPATCHED, EXECUTED} :
                 state' = [state EXCEPT ![u] = x]
        BY <2>2, StateSteps
        DEF KeepForLater, TryAcquires, MarkDispatched, CreateTask, HandleSignal, CopierMark
      <3>2. QED
        BY <1>1, <3>1
    <2>3. QED
      BY <2>1, <2>2
  <1>4. QED
    BY <1>1, <1>2, <1>3 DEF Holds, State, UNINITIALIZED, READY, EXECUTED, COMPLETED

\* The pools change in two kinds of steps.
LEMMA PoolSteps ==
  ASSUME [Next]_vars
  PROVE  \/ UNCHANGED <<signalOf, segmentOf, freeSignals, freeSegments>>
         \/ \E h \in Thread : TryAcquires(h)
         \/ ReleaseResources
  <1> DEFINE Goal ==
        \/ UNCHANGED <<signalOf, segmentOf, freeSignals, freeSegments>>
        \/ \E h \in Thread : TryAcquires(h)
        \/ ReleaseResources
  <1>1. Callback \in Thread /\ \A a \in App : a \in Thread
    BY DEF Thread
  <1>2. ASSUME NEW h \in Thread, TakeFront(h) \/ TryDispatch(h) \/ Dispatch(h) PROVE Goal
    BY <1>2
    DEF TakeFront, TryDispatch, TryTaken, TryWaitsForRequired, TryWaitsForPrevious,
        TryLacksResources, KeepForLater, Dispatch, MarkDispatched, Publish,
        SpawnCopier, RegisterHandler, WaitCompleted, DispatchLeavesUnchanged, heldVars
  <1>3. ASSUME NEW a \in App, Call(a) \/ AppStep(a) PROVE Goal
    <2>1. CASE Call(a) \/ SaveArgs(a) \/ CreateTask(a)
      BY <2>1 DEF Call, Construct, ActivateTask, SaveArgs, CreateTask, heldVars
    <2>2. CASE TakeFront(a) \/ TryDispatch(a) \/ Dispatch(a)
      BY <1>1, <1>2, <2>2
    <2>3. QED
      BY <1>3, <2>1, <2>2 DEF AppStep
  <1>4. CASE Handler
    <2>1. CASE \/ \E t \in Task : HandleSignal(t) \/ VisitSuccessor(t)
               \/ MarkCompleted \/ DoProgress \/ PopReady
      BY <2>1 DEF HandleSignal, VisitSuccessor, MarkCompleted, DoProgress, PopReady,
                  HandlerLeavesUnchanged
    <2>2. CASE TakeFront(Callback) \/ TryDispatch(Callback) \/ Dispatch(Callback)
      BY <1>1, <1>2, <2>2
    <2>3. QED
      BY <1>4, <2>1, <2>2 DEF Handler
  <1>5. ASSUME NEW t \in Task, Device(t) PROVE Goal
    BY <1>5 DEF Device, CompletePacket, CopierIssue, CopierMark, CopierFinish,
                DeviceLeavesUnchanged, heldVars
  <1>6. CASE UNCHANGED vars
    BY <1>6 DEF vars, heldVars
  <1>7. CASE Finished
    BY <1>6, <1>7 DEF Finished
  <1>8. QED
    BY <1>3, <1>4, <1>5, <1>6, <1>7 DEF Next
LEMMA ConservedStep ==
  ASSUME CreatedUnordered, OwnershipInv, [Next]_vars, SignalsConserved, SegmentsConserved
  PROVE  SignalsConserved' /\ SegmentsConserved'
  <1>1. /\ signalOf \in [Task -> Signal \cup {NoSignal}] /\ segmentOf \in [Task -> Nat]
        /\ freeSegments \in [Kernel -> SUBSET Nat] /\ state \in [Task -> State]
        /\ Callback \in Thread
    BY DEF OwnershipInv, TypeInv, TypeOK, Thread
  <1>2. ~ReleaseResources => \A t \in Task : Holds(t) => Holds(t)'
    BY HoldsKept
  <1>3. CASE ~ReleaseResources /\ UNCHANGED <<signalOf, segmentOf, freeSignals, freeSegments>>
    BY <1>2, <1>3 DEF SignalsConserved, SegmentsConserved
  <1>4. ASSUME NEW h \in Thread, TryAcquires(h)
        PROVE  SignalsConserved' /\ SegmentsConserved'
    <2>1. PICK t : t = thread[h].task
      OBVIOUS
    <2>2. /\ thread[h].at = "try" /\ t \in Task /\ state[t] < READY
          /\ state' = [state EXCEPT ![t] = READY]
          /\ thread' = [thread EXCEPT ![h].at = FirstDispatchStep(t)]
      BY <1>4, <2>1
      DEF TryAcquires, At, Dispatchable, Goto, OwnershipInv, TypeInv, ThreadsNameTasks
    <2>3. PICK s \in freeSignals : /\ signalOf' = [signalOf EXCEPT ![t] = s]
                                   /\ freeSignals' = freeSignals \ {s}
      BY <1>4, <2>1 DEF TryAcquires, TakeSignal
    <2>4. IF IsKernel(t)
          THEN \E i \in freeSegments[KernelOf[t]] :
                 /\ segmentOf' = [segmentOf EXCEPT ![t] = i]
                 /\ freeSegments' = [freeSegments EXCEPT ![KernelOf[t]] = @ \ {i}]
          ELSE UNCHANGED <<segmentOf, freeSegments>>
      BY <1>4, <2>1 DEF TryAcquires
    <2>5. ~ReleaseResources
      <3>1. state'[t] = READY
        BY <1>1, <2>2
      <3>2. state'[t] # state[t]
        BY <2>2, <3>1 DEF READY
      <3>3. QED
        BY <3>2 DEF ReleaseResources
    <2>6. \A u \in Task : Holds(u) => u # t /\ Holds(u)'
      BY <1>1, <1>2, <2>2, <2>5 DEF Holds, READY
    <2>7. Holds(t)'
      <3>1. state'[t] = READY
        BY <1>1, <2>2
      <3>2. thread'[Callback].at # "complete" \/ thread'[Callback].task # t
        <4>1. CASE thread'[Callback].at = "complete"
          <5>1. thread'[Callback] = thread[Callback]
            BY <2>5, <4>1, ReleasedSteps
          <5>2. state[thread[Callback].task] = EXECUTED
            BY <1>1, <4>1, <5>1 DEF OwnershipInv, OneOwner, HandleLabel
          <5>3. QED
            BY <2>2, <5>1, <5>2 DEF READY, EXECUTED
        <4>2. QED
          BY <4>1
      <3>3. QED
        BY <3>1, <3>2 DEF Holds, Released, At, READY, EXECUTED
    <2>8. SignalsConserved'
      <3> SUFFICES ASSUME NEW x \in Signal \ freeSignals'
                   PROVE  \E u \in Task : Holds(u)' /\ signalOf'[u] = x
        BY DEF SignalsConserved
      <3>1. CASE x = s
        BY <1>1, <2>2, <2>3, <2>7, <3>1
      <3>2. CASE x # s
        <4>1. PICK u \in Task : Holds(u) /\ signalOf[u] = x
          BY <2>3, <3>2 DEF SignalsConserved
        <4>2. QED
          BY <1>1, <2>3, <2>6, <4>1
      <3>3. QED
        BY <3>1, <3>2
    <2>9. SegmentsConserved'
      <3>1. CASE IsKernel(t)
        <4>1. PICK i \in freeSegments[KernelOf[t]] :
                /\ segmentOf' = [segmentOf EXCEPT ![t] = i]
                /\ freeSegments' = [freeSegments EXCEPT ![KernelOf[t]] = @ \ {i}]
          BY <2>4, <3>1
        <4> SUFFICES ASSUME NEW k \in Kernel,
                            NEW j \in (1..SegmentCount[k]) \ freeSegments'[k]
                     PROVE  \E u \in Task : /\ Holds(u)' /\ IsKernel(u)
                                            /\ KernelOf[u] = k /\ segmentOf'[u] = j
          BY DEF SegmentsConserved
        <4>2. CASE k = KernelOf[t] /\ j = i
          BY <1>1, <2>2, <2>7, <3>1, <4>1, <4>2
        <4>3. CASE ~(k = KernelOf[t] /\ j = i)
          <5>1. j \notin freeSegments[k]
            BY <1>1, <4>1, <4>3
          <5>2. PICK u \in Task : /\ Holds(u) /\ IsKernel(u)
                                  /\ KernelOf[u] = k /\ segmentOf[u] = j
            BY <5>1 DEF SegmentsConserved
          <5>3. QED
            BY <1>1, <2>6, <4>1, <5>2
        <4>4. QED
          BY <4>2, <4>3
      <3>2. CASE ~IsKernel(t)
        BY <2>4, <2>6, <3>2 DEF SegmentsConserved
      <3>3. QED
        BY <3>1, <3>2
    <2>10. QED
      BY <2>8, <2>9
  <1>5. CASE ReleaseResources
    <2>1. PICK t : t = thread[Callback].task
      OBVIOUS
    <2>2. /\ thread[Callback].at = "visit" /\ state' = state
          /\ thread' = [thread EXCEPT ![Callback].at = "complete"]
          /\ UNCHANGED <<signalOf, segmentOf>>
          /\ freeSignals' = freeSignals \cup {signalOf[t]}
          /\ freeSegments' = IF IsKernel(t)
               THEN [freeSegments EXCEPT ![KernelOf[t]] = @ \cup {segmentOf[t]}]
               ELSE freeSegments
      BY <1>5, <2>1 DEF ReleaseResources, HandlerLeavesUnchanged, Goto, At
    <2>3. thread'[Callback].task = t
      BY <1>1, <2>1, <2>2 DEF OwnershipInv, TypeInv, TypeOK
    <2>4. \A u \in Task : Holds(u) /\ u # t => Holds(u)'
      BY <2>2, <2>3 DEF Holds, Released, At
    <2>5. SignalsConserved'
      BY <2>2, <2>4 DEF SignalsConserved
    <2>6. SegmentsConserved'
      <3> SUFFICES ASSUME NEW k \in Kernel,
                          NEW j \in (1..SegmentCount[k]) \ freeSegments'[k]
                   PROVE  \E u \in Task : /\ Holds(u)' /\ IsKernel(u)
                                          /\ KernelOf[u] = k /\ segmentOf'[u] = j
        BY DEF SegmentsConserved
      <3>1. j \notin freeSegments[k]
        BY <1>1, <2>2
      <3>2. PICK u \in Task : /\ Holds(u) /\ IsKernel(u)
                              /\ KernelOf[u] = k /\ segmentOf[u] = j
        BY <3>1 DEF SegmentsConserved
      <3>3. u # t
        BY <1>1, <2>2, <3>2
      <3>4. QED
        BY <2>2, <2>4, <3>2, <3>3
    <2>7. QED
      BY <2>5, <2>6
  <1>6. QED
    BY <1>3, <1>4, <1>5, PoolSteps

\* A task that finds no signal or no segment finds them in the hands of others.
LEMMA LackMeansHeld ==
  ASSUME Signal # {}, SignalsConserved, SegmentsConserved,
         NEW t \in Task, ~HasResources(t)
  PROVE  \E u \in Task : Holds(u)
  <1>1. CASE freeSignals = {}
    BY <1>1 DEF SignalsConserved
  <1>2. CASE IsKernel(t) /\ freeSegments[KernelOf[t]] = {}
    <2>1. KernelOf[t] \in Kernel /\ 1 \in 1..SegmentCount[KernelOf[t]]
      BY TaskAssumption, PoolAssumption
    <2>2. QED
      BY <1>2, <2>1 DEF SegmentsConserved
  <1>3. QED
    BY <1>1, <1>2 DEF HasResources

\* Steps that leave the ready queue and the callback thread's drain alone.
DrainAlone ==
  /\ readyQueue' = readyQueue /\ budget' = budget
  /\ \/ thread'[Callback] = thread[Callback]
     \/ /\ thread[Callback].at \notin {"complete", "progress"}
        /\ thread'[Callback].at \notin {"complete", "progress"}
        /\ thread[Callback].via = "drain" => thread'[Callback].via = "drain"
        /\ thread'[Callback].at \in {"visit", "pop"} => thread'[Callback].via = "drain"

LEMMA DrainAloneWaker ==
  ASSUME CreatedUnordered, OwnershipInv, [Next]_vars, ~ReleaseResources,
         DrainVia, QueueHasWaker, DrainAlone
  PROVE  DrainVia' /\ QueueHasWaker'
  <1>1. \A t \in Task : Holds(t) => Holds(t)'
    BY HoldsKept
  <1>2. QED
    BY <1>1 DEF DrainAlone, DrainVia, QueueHasWaker

\* What the end of tryDispatch does with its thread, besides the drain.
LEMMA EndTryDrain ==
  ASSUME OwnershipInv, DependencyInv, NEW h \in Thread, NEW b \in BOOLEAN,
         thread[h].at \in {"try", "register", "wait"}, EndTry(h, b) \/ Resume(h, b)
  PROVE  /\ \A i \in Thread : i # h => thread'[i] = thread[i]
         /\ thread'[h].at \in {"idle", "pop", "wait"}
         /\ thread[h].via = "drain" => thread'[h].via = "drain"
         /\ thread'[h].at = "pop" => thread'[h].via = "drain"
  <1>1. thread \in [Thread -> ThreadType] /\ thread[h].via # "front"
    BY DEF OwnershipInv, TypeInv, TypeOK, ThreadType, DependencyInv, NothingOrdered
  <1>2. \/ thread' = [thread EXCEPT ![h].at = "wait"]
        \/ thread[h].via = "drain" /\ thread' = [thread EXCEPT ![h].at = "pop"]
        \/ thread[h].via # "drain" /\ thread' = [thread EXCEPT ![h] = Idle]
    BY <1>1 DEF EndTry, Resume, Goto, Rest
  <1>3. QED
    BY <1>1, <1>2 DEF ThreadType, Idle, Frame

LEMMA TryDrain ==
  ASSUME OwnershipInv, DependencyInv, NEW h \in Thread,
         (TryDispatch(h) /\ ~TryLacksResources(h)) \/ Dispatch(h)
  PROVE  DrainAlone
  <1>1. /\ thread \in [Thread -> ThreadType] /\ Callback \in Thread
        /\ thread[h].at \in {"try", "mark", "publish", "spawn", "register", "wait"}
    BY DEF OwnershipInv, TypeInv, TypeOK, ThreadType, Thread, TryDispatch, TryTaken,
           TryWaitsForRequired, TryWaitsForPrevious, TryAcquires, KeepForLater,
           Dispatch, MarkDispatched, Publish, SpawnCopier, RegisterHandler,
           WaitCompleted, At
  <1>2. readyQueue' = readyQueue /\ budget' = budget
    BY DEF TryDispatch, TryTaken, TryWaitsForRequired, TryWaitsForPrevious, TryAcquires,
           KeepForLater, TryLeavesUnchanged, handlerVars, Dispatch, MarkDispatched,
           Publish, SpawnCopier, RegisterHandler, WaitCompleted, DispatchLeavesUnchanged
  <1>3. \/ /\ thread[h].at \in {"try", "register", "wait"}
           /\ EndTry(h, FALSE) \/ EndTry(h, TRUE) \/ Resume(h, FALSE)
        \/ \E l \in {"mark", "publish", "spawn", "register"} :
             thread' = [thread EXCEPT ![h].at = l]
    <2>1. CASE TryAcquires(h)
      BY <2>1 DEF TryAcquires, Goto, FirstDispatchStep
    <2>2. CASE TryTaken(h) \/ TryWaitsForRequired(h) \/ TryWaitsForPrevious(h)
      BY <2>2 DEF TryTaken, TryWaitsForRequired, TryWaitsForPrevious, KeepForLater, At
    <2>3. CASE Dispatch(h)
      BY <2>3 DEF Dispatch, MarkDispatched, Publish, SpawnCopier, RegisterHandler,
                  WaitCompleted, Goto, At
    <2>4. QED
      BY <2>1, <2>2, <2>3 DEF TryDispatch
  <1>4. /\ \A i \in Thread : i # h => thread'[i] = thread[i]
        /\ thread'[h].at \in {"mark", "publish", "spawn", "register", "idle", "pop", "wait"}
        /\ thread[h].via = "drain" => thread'[h].via = "drain"
        /\ thread'[h].at = "pop" => thread'[h].via = "drain"
    <2>1. CASE /\ thread[h].at \in {"try", "register", "wait"}
               /\ EndTry(h, FALSE) \/ EndTry(h, TRUE) \/ Resume(h, FALSE)
      BY <2>1, EndTryDrain
    <2>2. ASSUME NEW l \in {"mark", "publish", "spawn", "register"},
                 thread' = [thread EXCEPT ![h].at = l]
          PROVE  /\ \A i \in Thread : i # h => thread'[i] = thread[i]
                 /\ thread'[h].at = l /\ thread'[h].via = thread[h].via
      BY <1>1, <2>2 DEF ThreadType
    <2>3. QED
      BY <1>3, <2>1, <2>2
  <1>5. QED
    BY <1>1, <1>2, <1>4 DEF DrainAlone

LEMMA WakerStep ==
  ASSUME Unordered, Signal # {}, CreatedUnordered, OwnershipInv, DependencyInv, WakerInv,
         [Next]_vars
  PROVE  WakerInv'
  <1> DEFINE Goal == DrainVia' /\ QueueHasWaker'
  <1> SUFFICES Goal
    BY ConservedStep DEF WakerInv
  <1> USE DEF WakerInv
  <1>1. /\ Callback \in Thread /\ \A a \in App : a \in Thread /\ a # Callback
        /\ thread \in [Thread -> ThreadType] /\ readyQueue \in Seq(Task) /\ budget \in Nat
    BY ThreadAssumption DEF Thread, OwnershipInv, TypeInv, TypeOK, ThreadType
  <1>2. CASE DrainAlone /\ ~ReleaseResources
    BY <1>2, DrainAloneWaker
  <1>3. ~(thread[Callback].at = "visit") => ~ReleaseResources
    BY DEF ReleaseResources, At
  <1>4. ASSUME NEW h \in Thread, TryDispatch(h) \/ Dispatch(h)
        PROVE  ~ReleaseResources
    <2>1. UNCHANGED handlerVars /\ (UNCHANGED readyQueue \/ TryLacksResources(h))
      BY <1>4
      DEF TryDispatch, TryTaken, TryWaitsForRequired, TryWaitsForPrevious,
          TryLacksResources, TryAcquires, KeepForLater, TryLeavesUnchanged, Dispatch,
          MarkDispatched, Publish, SpawnCopier, RegisterHandler, WaitCompleted,
          DispatchLeavesUnchanged
    <2>2. thread'[Callback].at # "complete" \/ thread[Callback].at # "visit"
      <3>1. CASE (TryDispatch(h) /\ ~TryLacksResources(h)) \/ Dispatch(h)
        BY <1>1, <3>1, TryDrain DEF DrainAlone
      <3>2. CASE TryLacksResources(h)
        <4>1. thread[h].at = "try" /\ EndTry(h, FALSE)
          BY <3>2 DEF TryLacksResources, KeepForLater, At
        <4>2. QED
          BY <1>1, <4>1, EndTryDrain
      <3>3. QED
        BY <1>4, <3>1, <3>2
    <2>3. ReleaseResources => /\ thread[Callback].at = "visit"
                              /\ thread'[Callback].at = "complete"
      BY <1>1 DEF ReleaseResources, Goto, At
    <2>4. QED
      BY <2>2, <2>3
  <1>5. ASSUME NEW h \in Thread, TryDispatch(h) \/ Dispatch(h) PROVE Goal
    <2>1. CASE (TryDispatch(h) /\ ~TryLacksResources(h)) \/ Dispatch(h)
      BY <1>2, <1>4, <2>1, TryDrain
    <2>2. CASE TryLacksResources(h)
      <3>1. PICK t \in Task : t = thread[h].task /\ ~HasResources(t)
        BY <2>2 DEF TryLacksResources, KeepForLater, OwnershipInv, TypeInv,
                    ThreadsNameTasks, At
      <3>2. PICK u \in Task : Holds(u)
        BY <3>1, LackMeansHeld
      <3>3. Holds(u)'
        BY <1>4, <2>2, <3>2, HoldsKept DEF TryDispatch
      <3>4. thread[h].at = "try" /\ EndTry(h, FALSE)
        BY <2>2 DEF TryLacksResources, KeepForLater, At
      <3>5. DrainVia'
        BY <1>1, <3>4, EndTryDrain DEF DrainVia
      <3>6. QED
        BY <3>3, <3>5 DEF QueueHasWaker, Unordered
    <2>3. QED
      BY <1>5, <2>1, <2>2
  <1>6. ASSUME NEW h \in Thread, TakeFront(h) PROVE FALSE
    BY <1>6 DEF TakeFront, At, DependencyInv, NothingOrdered
  <1>7. ASSUME NEW a \in App, Call(a) \/ AppStep(a) PROVE Goal
    <2>1. CASE Call(a) \/ SaveArgs(a) \/ CreateTask(a)
      <3>1. /\ readyQueue' = readyQueue /\ budget' = budget
        BY <2>1 DEF Call, Construct, ActivateTask, SaveArgs, CreateTask, handlerVars
      <3>2. \/ thread' = thread
            \/ \E f : thread' = [thread EXCEPT ![a] = f]
            \/ \E l : thread' = [thread EXCEPT ![a].at = l]
        BY <2>1 DEF Call, Construct, ActivateTask, SaveArgs, CreateTask, Work, Goto, Rest
      <3>3. thread'[Callback] = thread[Callback]
        BY <1>1, <3>2
      <3>4. ~ReleaseResources
        <4>1. ReleaseResources => thread'[Callback].at # thread[Callback].at
          BY <1>1 DEF ReleaseResources, Goto, At
        <4>2. QED
          BY <3>3, <4>1
      <3>5. QED
        BY <1>2, <3>1, <3>3, <3>4 DEF DrainAlone
    <2>2. CASE TryDispatch(a) \/ Dispatch(a)
      BY <1>1, <1>5, <2>2
    <2>3. QED
      BY <1>1, <1>6, <1>7, <2>1, <2>2 DEF AppStep
  <1>8. ASSUME NEW t \in Task, HandleSignal(t) \/ VisitSuccessor(t) PROVE Goal
    <2>1. /\ readyQueue' = readyQueue /\ budget' = budget
          /\ \/ thread' = thread
             \/ /\ thread[Callback].at = "idle"
                /\ thread' = [thread EXCEPT ![Callback] = Frame("visit", t, "drain")]
      BY <1>8 DEF HandleSignal, VisitSuccessor, Work, At
    <2>2. thread'[Callback].at # "complete" \/ thread' = thread
      BY <1>1, <2>1 DEF Frame
    <2>3. ~ReleaseResources
      <3>1. ReleaseResources => /\ thread[Callback].at = "visit"
                                /\ thread'[Callback].at = "complete"
        BY <1>1 DEF ReleaseResources, Goto, At
      <3>2. QED
        BY <2>2, <3>1
    <2>4. DrainAlone
      BY <1>1, <2>1 DEF DrainAlone, Frame
    <2>5. QED
      BY <1>2, <2>3, <2>4
  <1>9. CASE ReleaseResources \/ MarkCompleted
    <2>1. \E l \in {"complete", "progress"} : thread' = [thread EXCEPT ![Callback].at = l]
      BY <1>9 DEF ReleaseResources, MarkCompleted, Goto
    <2>2. /\ thread'[Callback].at \in {"complete", "progress"}
          /\ thread'[Callback].task = thread[Callback].task
          /\ thread'[Callback].via = thread[Callback].via
      BY <1>1, <2>1 DEF ThreadType
    <2>3. thread[Callback].at \in {"visit", "complete"}
      BY <1>9 DEF ReleaseResources, MarkCompleted, At
    <2>4. thread[Callback].task \in Task
      BY <1>1, <2>3 DEF OwnershipInv, TypeInv, ThreadsNameTasks, At
    <2>5. QED
      BY <2>2, <2>3, <2>4 DEF DrainVia, QueueHasWaker, Unordered
  <1>10. CASE DoProgress
    <2>1. thread[Callback].at = "progress" /\ thread[Callback].task \in Task
      BY <1>1, <1>10 DEF DoProgress, OwnershipInv, TypeInv, ThreadsNameTasks, At
    <2>2. /\ thread' = [thread EXCEPT ![Callback].at = "pop"]
          /\ budget' = Len(readyQueue) /\ readyQueue' = readyQueue
      BY <1>10, <2>1 DEF DoProgress, Unordered, Goto, DrainBudget
    <2>3. thread'[Callback].via = "drain"
      BY <1>1, <2>1, <2>2 DEF DrainVia, ThreadType
    <2>4. QED
      BY <1>1, <2>2, <2>3 DEF DrainVia, QueueHasWaker
  <1>11. CASE PopReady
    <2>1. thread[Callback].at = "pop"
      BY <1>11 DEF PopReady, At
    <2>2. \A t \in Task : Holds(t) => Holds(t)'
      BY <1>3, <2>1, HoldsKept
    <2>3. CASE budget > 0 /\ readyQueue # <<>>
      <3>1. /\ thread' = [thread EXCEPT ![Callback] = Frame("try", Head(readyQueue), "drain")]
            /\ readyQueue' = Tail(readyQueue) /\ budget' = budget - 1
        BY <1>11, <2>3 DEF PopReady, Work
      <3>2. thread'[Callback].at = "try" /\ thread'[Callback].via = "drain"
        BY <1>1, <3>1 DEF Frame
      <3>3. budget >= Len(readyQueue) => budget' >= Len(readyQueue')
        BY <1>1, <2>3, <3>1
      <3>4. QED
        BY <2>1, <2>2, <2>3, <3>2, <3>3 DEF DrainVia, QueueHasWaker
    <2>4. CASE ~(budget > 0 /\ readyQueue # <<>>)
      <3>1. thread' = [thread EXCEPT ![Callback] = Idle] /\ readyQueue' = readyQueue
        BY <1>11, <2>4 DEF PopReady, Rest
      <3>2. thread'[Callback].at = "idle"
        BY <1>1, <3>1 DEF Idle, Frame
      <3>3. readyQueue # <<>> => ~(budget >= Len(readyQueue))
        BY <1>1, <2>4
      <3>4. QED
        BY <2>1, <2>2, <3>1, <3>2, <3>3 DEF DrainVia, QueueHasWaker
    <2>5. QED
      BY <2>3, <2>4
  <1>12. CASE Handler
    <2>1. CASE TakeFront(Callback) \/ TryDispatch(Callback) \/ Dispatch(Callback)
      BY <1>1, <1>5, <1>6, <2>1
    <2>2. QED
      BY <1>8, <1>9, <1>10, <1>11, <1>12, <2>1 DEF Handler
  <1>13. CASE UNCHANGED <<thread, readyQueue, budget>>
    <2>1. ReleaseResources => thread'[Callback].at # thread[Callback].at
      BY <1>1 DEF ReleaseResources, Goto, At
    <2>2. QED
      BY <1>2, <1>13, <2>1 DEF DrainAlone
  <1>14. ASSUME NEW t \in Task, Device(t) PROVE Goal
    BY <1>13, <1>14 DEF Device, CompletePacket, CopierIssue, CopierMark, CopierFinish,
                        DeviceLeavesUnchanged, handlerVars
  <1>15. CASE UNCHANGED vars \/ Finished
    BY <1>13, <1>15 DEF Finished, vars, handlerVars
  <1>16. QED
    BY <1>7, <1>12, <1>14, <1>15 DEF Next

LEMMA WakerInit ==
  ASSUME Init
  PROVE  WakerInv
  <1>1. Callback \in Thread
    BY DEF Thread
  <1>2. SignalsConserved /\ SegmentsConserved
    BY DEF Init, SignalsConserved, SegmentsConserved
  <1>3. DrainVia
    BY <1>1 DEF Init, DrainVia, Idle, Frame
  <1>4. QED
    BY <1>2, <1>3 DEF Init, QueueHasWaker, WakerInv

(***************************************************************************)
(* A task that waits in the ready queue for a signal or a segment is not   *)
(* left there: another task holds what it lacks, and the handler of that   *)
(* task has a drain of the whole queue before it, or the drain under way   *)
(* reaches every entry.  Only a pool without signals could break this.     *)
(***************************************************************************)
THEOREM QueueIsWoken == Unordered /\ Signal # {} => (Spec => []QueueHasWaker)
  <1> SUFFICES ASSUME Unordered, Signal # {} PROVE Spec => []QueueHasWaker
    OBVIOUS
  <1>1. CreatedUnordered
    BY TaskAssumption DEF Unordered, CreatedUnordered
  <1>2. Init => WakerInv
    BY WakerInit
  <1>3. OwnershipInv /\ DependencyInv /\ WakerInv /\ [Next]_vars => WakerInv'
    BY <1>1, WakerStep
  <1>4. WakerInv => QueueHasWaker
    BY DEF WakerInv
  <1>5. QED
    BY <1>2, <1>3, <1>4, BothInvariants, PTL DEF Spec

-------------------------------------------------------------------------------
(***************************************************************************)
(* The ordered groups.                                                     *)
(***************************************************************************)
LEMMA OrderInit ==
  ASSUME Init
  PROVE  OrderInv
  <1> USE DEF Init
  <1>1. Made = {}
    BY DEF Made
  <1>2. MadeInv
    BY <1>1 DEF MadeInv, At, Idle, Frame
  <1>3. ListsChained
    BY <1>1, PoolAssumption DEF ListsChained, Chained
  <1>4. PreviousMade
    BY DEF PreviousMade
  <1>5. PreviousFirst
    BY DEF PreviousFirst, READY, UNINITIALIZED
  <1>6. QED
    BY <1>2, <1>3, <1>4, <1>5 DEF OrderInv

-------------------------------------------------------------------------------
(***************************************************************************)
(* Only tasks that were made are named, by a thread or in a list.          *)
(***************************************************************************)
MadeLists(M) ==
  /\ \A p \in Task : andSuccessors[p] \subseteq M
  /\ todo \cup registered \subseteq M
  /\ readyQueue \in Seq(M)
  /\ tempList \in Seq(M)
  /\ \A g \in Group : runningOrdered[g] \in Seq(M)

\* What a step that names no other task does.
MadeMoves ==
  /\ \A t \in Made : handle'[t] # "none"
  /\ \A t \in Task : state'[t] = state[t] \/ t \in Made
  /\ \A i \in Thread :
       \/ thread'[i] = thread[i]
       \/ thread'[i].at = "idle"
       \/ thread'[i].task \in Made'

LEMMA MadeKept ==
  ASSUME MadeInv, MadeMoves, MadeLists(Made)'
  PROVE  MadeInv'
  <1>1. Made \subseteq Made'
    BY DEF Made, MadeMoves
  <1>2. \A h \in Thread : ~At(h, "idle")' => thread'[h].task \in Made'
    BY <1>1 DEF MadeInv, MadeMoves, At
  <1>3. \A t \in Task \ Made' : state'[t] = UNINITIALIZED
    BY <1>1 DEF MadeInv, MadeMoves
  <1>4. QED
    BY <1>2, <1>3 DEF MadeInv, MadeLists

\* The lists stay good when more tasks are made.
LEMMA MadeListsGrow ==
  ASSUME MadeInv, Made \subseteq Made',
         UNCHANGED <<andSuccessors, todo, registered, readyQueue, tempList,
                     runningOrdered>>
  PROVE  MadeLists(Made)'
  <1>1. /\ readyQueue \in Seq(Made') /\ tempList \in Seq(Made')
        /\ \A g \in Group : runningOrdered[g] \in Seq(Made')
    BY SeqOfMore DEF MadeInv
  <1>2. QED
    BY <1>1 DEF MadeInv, MadeLists

\* A thread works on a task that was made.
LEMMA AtWorkOnMade ==
  ASSUME MadeInv, NEW h \in Thread, thread[h].at # "idle"
  PROVE  thread[h].task \in Made
  BY DEF MadeInv, At

\* Ending a call of tryDispatch() makes no task and forgets none.
LEMMA EndTryMade ==
  ASSUME OwnershipInv, MadeInv, NEW h \in Thread, NEW b \in BOOLEAN,
         thread[h].at # "idle", EndTry(h, b)
  PROVE  /\ Made' = Made
         /\ \A i \in Thread : \/ thread'[i] = thread[i]
                              \/ thread'[i].at = "idle"
                              \/ thread'[i].task \in Made'
  <1>1. thread[h].task \in Made /\ TypeInv
    BY AtWorkOnMade DEF OwnershipInv
  <1>2. /\ \A i \in Thread : i # h => thread'[i] = thread[i]
        /\ thread'[h].at # "idle" => thread'[h].task = thread[h].task
        /\ \A t \in Task :
              handle'[t] = IF t = thread[h].task /\ handle' # handle
                           THEN "returned" ELSE handle[t]
    BY <1>1, EndTryMoves
  <1>3. Made' = Made
    BY <1>1, <1>2 DEF Made
  <1>4. QED
    BY <1>1, <1>2, <1>3

LEMMA KeepForLaterMade ==
  ASSUME OwnershipInv, MadeInv, NEW h \in Thread, KeepForLater(h),
         \A p \in Task : andSuccessors'[p] \subseteq andSuccessors[p] \cup {thread[h].task},
         readyQueue' \in {readyQueue, Append(readyQueue, thread[h].task)}
  PROVE  MadeInv' /\ Made' = Made
  <1> DEFINE t == thread[h].task
  <1>1. /\ thread[h].at = "try" /\ EndTry(h, FALSE)
        /\ state' = [state EXCEPT ![t] = INITIALIZED]
        /\ UNCHANGED <<todo, tempList, registered, runningOrdered>>
    BY DEF KeepForLater, At, TryLeavesUnchanged, handlerVars
  <1>2. t \in Made
    BY <1>1, AtWorkOnMade
  <1>3. /\ Made' = Made
        /\ \A i \in Thread : \/ thread'[i] = thread[i]
                             \/ thread'[i].at = "idle"
                             \/ thread'[i].task \in Made'
    BY <1>1, EndTryMade
  <1>4. \A u \in Task : state'[u] = state[u] \/ u = t
    BY <1>1 DEF OwnershipInv, TypeInv, TypeOK
  <1>5. MadeMoves
    BY <1>2, <1>3, <1>4 DEF MadeMoves, Made
  <1>6. readyQueue' \in Seq(Made)
    BY <1>2 DEF MadeInv
  <1>7. MadeLists(Made)'
    BY <1>1, <1>2, <1>3, <1>6 DEF MadeLists, MadeInv
  <1>8. QED
    BY <1>3, <1>5, <1>7, MadeKept

LEMMA TryMade ==
  ASSUME OwnershipInv, MadeInv, NEW h \in Thread, TryDispatch(h)
  PROVE  MadeInv' /\ Made' = Made
  <1> DEFINE t == thread[h].task
  <1>1. /\ thread[h].at = "try" /\ TypeInv /\ TypeOK /\ t \in Task
        /\ WaitsFor(t) \in SUBSET Task
    BY TaskAssumption
    DEF TryDispatch, TryTaken, TryWaitsForRequired, TryWaitsForPrevious,
        TryLacksResources, TryAcquires, KeepForLater, At, OwnershipInv, TypeInv,
        ThreadsNameTasks, WaitsFor, Unfinished
  <1>2. t \in Made
    BY <1>1, AtWorkOnMade
  <1>3. CASE TryTaken(h)
    <2>1. /\ EndTry(h, FALSE)
          /\ UNCHANGED <<state, andSuccessors, todo, registered, readyQueue, tempList,
                       runningOrdered>>
      BY <1>3 DEF TryTaken, TryLeavesUnchanged, handlerVars
    <2>2. /\ Made' = Made
          /\ \A i \in Thread : \/ thread'[i] = thread[i]
                               \/ thread'[i].at = "idle"
                               \/ thread'[i].task \in Made'
      BY <1>1, <2>1, EndTryMade
    <2>3. MadeMoves
      BY <2>1, <2>2 DEF MadeMoves, Made
    <2>4. QED
      BY <2>1, <2>2, <2>3, MadeListsGrow, MadeKept
  <1>4. CASE TryWaitsForRequired(h)
    <2>1. \A p \in Task : andSuccessors'[p] \subseteq andSuccessors[p] \cup {t}
      BY <1>1, <1>4, LinkToType DEF TryWaitsForRequired
    <2>2. QED
      BY <1>4, <2>1, KeepForLaterMade DEF TryWaitsForRequired
  <1>5. CASE TryWaitsForPrevious(h)
    <2>1. {prevOrdered[t]} \in SUBSET Task
      BY <1>1, <1>5 DEF TryWaitsForPrevious, PrevBlocks, TypeOK
    <2>2. \A p \in Task : andSuccessors'[p] \subseteq andSuccessors[p] \cup {t}
      <3>1. CASE LinkTo({prevOrdered[t]}, t)
        BY <1>1, <2>1, <3>1, LinkToType
      <3>2. CASE UNCHANGED <<numPredecessors, andSuccessors>>
        BY <3>2
      <3>3. QED
        BY <1>5, <3>1, <3>2 DEF TryWaitsForPrevious, LinkToPrevious
    <2>3. QED
      BY <1>5, <2>2, KeepForLaterMade DEF TryWaitsForPrevious
  <1>6. CASE TryLacksResources(h)
    BY <1>6, KeepForLaterMade DEF TryLacksResources, QueueForResources
  <1>7. CASE TryAcquires(h)
    <2>1. /\ UNCHANGED <<handle, andSuccessors, todo, registered, readyQueue, tempList>>
          /\ state' = [state EXCEPT ![t] = READY]
          /\ thread' = [thread EXCEPT ![h].at = FirstDispatchStep(t)]
      BY <1>7 DEF TryAcquires, TryLeavesUnchanged, handlerVars, Goto
    <2>2. Made' = Made
      BY <2>1 DEF Made
    <2>3. \A i \in Thread : thread'[i] = thread[i] \/ thread'[i].task = t
      BY <1>1, <2>1 DEF TypeOK
    <2>4. \A u \in Task : state'[u] = state[u] \/ u = t
      BY <1>1, <2>1 DEF TypeOK
    <2>5. MadeMoves
      BY <1>2, <2>1, <2>2, <2>3, <2>4 DEF MadeMoves, Made
    <2>6. \A g \in Group : runningOrdered'[g] \in Seq(Made)
      <3>1. \/ runningOrdered' = runningOrdered
            \/ runningOrdered' = [runningOrdered EXCEPT ![GroupOf[t]] =
                                    SubSeq(@, 2, Len(@))]
        BY <1>7 DEF TryAcquires
      <3>2. \A q \in Seq(Made) : SubSeq(q, 2, Len(q)) \in Seq(Made)
        OBVIOUS
      <3>3. \A g \in Group :
              \/ runningOrdered'[g] = runningOrdered[g]
              \/ runningOrdered'[g] = SubSeq(runningOrdered[g], 2, Len(runningOrdered[g]))
        BY <1>1, <3>1 DEF TypeOK
      <3>4. QED
        BY <3>2, <3>3 DEF MadeInv
    <2>7. MadeLists(Made)'
      BY <2>1, <2>2, <2>6 DEF MadeLists, MadeInv
    <2>8. QED
      BY <2>2, <2>5, <2>7, MadeKept
  <1>8. QED
    BY <1>3, <1>4, <1>5, <1>6, <1>7 DEF TryDispatch

LEMMA DispatchMade ==
  ASSUME OwnershipInv, MadeInv, NEW h \in Thread, Dispatch(h)
  PROVE  MadeInv' /\ Made' = Made
  <1> DEFINE t == thread[h].task
  <1>1. thread[h].at # "idle" /\ TypeInv /\ TypeOK
    BY DEF Dispatch, MarkDispatched, Publish, SpawnCopier, RegisterHandler,
           WaitCompleted, At, OwnershipInv, TypeInv
  <1>2. t \in Made /\ t \in Task
    BY <1>1, AtWorkOnMade DEF Made
  <1>3. UNCHANGED <<andSuccessors, todo, readyQueue, tempList, runningOrdered>>
    BY DEF Dispatch, MarkDispatched, Publish, SpawnCopier, RegisterHandler,
           WaitCompleted, DispatchLeavesUnchanged, handlerVars, groupVars
  <1>4. registered' \subseteq registered \cup {t}
    BY DEF Dispatch, MarkDispatched, Publish, SpawnCopier, RegisterHandler, WaitCompleted
  <1>5. \A u \in Task : state'[u] = state[u] \/ u = t
    BY <1>1 DEF Dispatch, MarkDispatched, Publish, SpawnCopier, RegisterHandler,
                WaitCompleted, TypeOK
  <1>6. \/ UNCHANGED handle /\ \E label : Goto(h, label)
        \/ EndTry(h, TRUE)
        \/ Resume(h, FALSE)
    BY DEF Dispatch, MarkDispatched, Publish, SpawnCopier, RegisterHandler, WaitCompleted
  <1>7. /\ \A i \in Thread : i # h => thread'[i] = thread[i]
        /\ thread'[h].at # "idle" => thread'[h].task = t
        /\ \A u \in Task : handle'[u] = handle[u] \/ (u = t /\ handle'[u] = "returned")
    <2>1. CASE UNCHANGED handle /\ \E label : Goto(h, label)
      BY <1>1, <2>1 DEF Goto, TypeOK
    <2>2. CASE EndTry(h, TRUE)
      BY <1>1, <1>2, <2>2, EndTryMoves
    <2>3. CASE Resume(h, FALSE)
      <3>1. \/ thread' = [thread EXCEPT ![h].at = "pop"]
            \/ thread' = [thread EXCEPT ![h].at = "front"]
            \/ thread' = [thread EXCEPT ![h] = Idle]
        BY <2>3 DEF Resume, Goto, Rest
      <3>2. handle' = handle \/ handle' = [handle EXCEPT ![t] = "returned"]
        BY <2>3 DEF Resume
      <3>3. QED
        BY <1>1, <1>2, <3>1, <3>2 DEF TypeOK, Idle, Frame
    <2>4. QED
      BY <1>6, <2>1, <2>2, <2>3
  <1>8. Made' = Made
    BY <1>2, <1>7 DEF Made
  <1>9. MadeMoves
    BY <1>2, <1>5, <1>7, <1>8 DEF MadeMoves, Made
  <1>10. MadeLists(Made)'
    BY <1>2, <1>3, <1>4, <1>8 DEF MadeLists, MadeInv
  <1>11. QED
    BY <1>8, <1>9, <1>10, MadeKept

LEMMA TakeFrontMade ==
  ASSUME TypeInv, MadeInv, NEW h \in Thread, TakeFront(h)
  PROVE  MadeInv' /\ Made' = Made
  <1>1. /\ UNCHANGED <<state, handle, andSuccessors, todo, registered, readyQueue,
                       tempList, runningOrdered>>
        /\ thread[h].at = "front" /\ TypeOK
    BY DEF TakeFront, taskVars, handlerVars, groupVars, At, TypeInv
  <1>2. Made' = Made
    BY <1>1 DEF Made
  <1>3. GroupOf[thread[h].task] \in Group
    BY <1>1, AtWorkOnMade, TaskAssumption DEF Made
  <1>4. PICK q \in Seq(Made) : q = runningOrdered[GroupOf[thread[h].task]]
    BY <1>3 DEF MadeInv
  <1>5. \/ thread' = [thread EXCEPT ![h] = Idle]
        \/ q # <<>> /\ thread' = [thread EXCEPT ![h] = Frame("try", Head(q), "front")]
    BY <1>4 DEF TakeFront, Work, Rest
  <1>6. q # <<>> => Head(q) \in Made
    OBVIOUS
  <1>7. \A i \in Thread : \/ thread'[i] = thread[i]
                          \/ thread'[i].at = "idle"
                          \/ thread'[i].task \in Made
    BY <1>1, <1>5, <1>6 DEF TypeOK, Idle, Frame
  <1>8. MadeMoves
    BY <1>1, <1>2, <1>7 DEF MadeMoves, Made
  <1>9. QED
    BY <1>1, <1>2, <1>8, MadeListsGrow, MadeKept

LEMMA CallMade ==
  ASSUME OwnershipInv, MadeInv, NEW a \in App, Call(a) \/ SaveArgs(a) \/ CreateTask(a)
  PROVE  MadeInv' /\ (Made' = Made \/ \E t \in Task : Construct(a, t))
  <1>1. TypeOK /\ a \in Thread
    BY DEF OwnershipInv, TypeInv, Thread
  <1>2. ASSUME NEW t \in Task, Construct(a, t) PROVE MadeInv'
    <2>1. /\ UNCHANGED <<state, andSuccessors, todo, registered, readyQueue, tempList>>
          /\ handle' = [handle EXCEPT ![t] = "object"]
          /\ \E label : thread' = [thread EXCEPT ![a] = Frame(label, t, "launch")]
          /\ \/ runningOrdered' = runningOrdered
             \/ runningOrdered' = [runningOrdered EXCEPT ![GroupOf[t]] = Append(@, t)]
      BY <1>2 DEF Construct, Work, handlerVars, groupVars
    <2>2. t \in Made' /\ Made \subseteq Made'
      BY <1>1, <2>1 DEF Made, TypeOK
    <2>3. \A i \in Thread : thread'[i] = thread[i] \/ thread'[i].task = t
      BY <1>1, <2>1 DEF TypeOK, Frame
    <2>4. MadeMoves
      BY <2>1, <2>2, <2>3 DEF MadeMoves, Made
    <2>5. \A g \in Group : runningOrdered'[g] \in Seq(Made')
      <3>1. \A g \in Group : runningOrdered[g] \in Seq(Made')
        BY <2>2, SeqOfMore DEF MadeInv
      <3>2. \A q \in Seq(Made') : Append(q, t) \in Seq(Made')
        BY <2>2
      <3>3. \A g \in Group : \/ runningOrdered'[g] = runningOrdered[g]
                             \/ runningOrdered'[g] = Append(runningOrdered[g], t)
        BY <1>1, <2>1 DEF TypeOK
      <3>4. QED
        BY <3>1, <3>2, <3>3
    <2>6. readyQueue \in Seq(Made') /\ tempList \in Seq(Made')
      BY <2>2, SeqOfMore DEF MadeInv
    <2>7. MadeLists(Made)'
      BY <2>1, <2>2, <2>5, <2>6 DEF MadeLists, MadeInv
    <2>8. QED
      BY <2>4, <2>7, MadeKept
  <1>3. ASSUME NEW t \in Task, ActivateTask(a, t) PROVE MadeInv' /\ Made' = Made
    <2>1. /\ UNCHANGED <<state, andSuccessors, todo, registered, readyQueue, tempList,
                         runningOrdered>>
          /\ handle[t] = "returned" /\ handle' = [handle EXCEPT ![t] = "activated"]
          /\ \/ thread' = thread
             \/ \E label, via : thread' = [thread EXCEPT ![a] = Frame(label, t, via)]
      BY <1>3 DEF ActivateTask, Work, taskVars, handlerVars, groupVars
    <2>2. Made' = Made /\ t \in Made
      BY <1>1, <2>1 DEF Made, TypeOK
    <2>3. \A i \in Thread : thread'[i] = thread[i] \/ thread'[i].task = t
      BY <1>1, <2>1 DEF TypeOK, Frame
    <2>4. MadeMoves
      BY <2>1, <2>2, <2>3 DEF MadeMoves, Made
    <2>5. QED
      BY <2>1, <2>2, <2>4, MadeListsGrow, MadeKept
  <1>4. ASSUME SaveArgs(a) PROVE MadeInv' /\ Made' = Made
    <2>1. /\ UNCHANGED <<state, handle, andSuccessors, todo, registered, readyQueue,
                         tempList, runningOrdered>>
          /\ thread[a].at = "save" /\ thread' = [thread EXCEPT ![a].at = "try"]
      BY <1>4 DEF SaveArgs, Goto, At, handlerVars, groupVars
    <2>2. Made' = Made /\ thread[a].task \in Made
      BY <1>1, <2>1, AtWorkOnMade DEF Made
    <2>3. \A i \in Thread : thread'[i] = thread[i] \/ thread'[i].task = thread[a].task
      BY <1>1, <2>1 DEF TypeOK
    <2>4. MadeMoves
      BY <2>1, <2>2, <2>3 DEF MadeMoves, Made
    <2>5. QED
      BY <2>1, <2>2, <2>4, MadeListsGrow, MadeKept
  <1>5. ASSUME CreateTask(a) PROVE MadeInv' /\ Made' = Made
    <2> DEFINE t == thread[a].task
    <2>1. /\ UNCHANGED <<todo, registered, readyQueue, tempList, runningOrdered>>
          /\ thread[a].at = "create" /\ thread' = [thread EXCEPT ![a] = Idle]
          /\ handle' = [handle EXCEPT ![t] = "returned"]
          /\ state' = [state EXCEPT ![t] = INITIALIZED]
          /\ LinkTo(Unfinished(Requires[t]), t)
      BY <1>5 DEF CreateTask, Rest, At, handlerVars, groupVars
    <2>2. t \in Made /\ t \in Task
      BY <1>1, <2>1, AtWorkOnMade DEF Made
    <2>3. Made' = Made
      BY <1>1, <2>1, <2>2 DEF Made, TypeOK
    <2>4. \A p \in Task : andSuccessors'[p] \subseteq andSuccessors[p] \cup {t}
      BY <1>1, <2>1, <2>2, LinkToType, TaskAssumption DEF Unfinished
    <2>5. \A u \in Task : state'[u] = state[u] \/ u = t
      BY <1>1, <2>1 DEF TypeOK
    <2>6. \A i \in Thread : thread'[i] = thread[i] \/ thread'[i].at = "idle"
      BY <1>1, <2>1 DEF TypeOK, Idle, Frame
    <2>7. MadeMoves
      BY <2>2, <2>3, <2>5, <2>6 DEF MadeMoves, Made
    <2>8. MadeLists(Made)'
      BY <2>1, <2>2, <2>3, <2>4 DEF MadeLists, MadeInv
    <2>9. QED
      BY <2>3, <2>7, <2>8, MadeKept
  <1>6. QED
    BY <1>2, <1>3, <1>4, <1>5 DEF Call

LEMMA DeviceMade ==
  ASSUME OwnershipInv, MadeInv, NEW t \in Task, Device(t)
  PROVE  MadeInv' /\ Made' = Made
  <1>1. UNCHANGED <<handle, thread, andSuccessors, todo, registered, readyQueue,
                    tempList, runningOrdered>>
    BY DEF Device, CompletePacket, CopierIssue, CopierMark, CopierFinish,
           DeviceLeavesUnchanged, handlerVars, groupVars
  <1>2. Made' = Made
    BY <1>1 DEF Made
  <1>3. \A u \in Task : state'[u] = state[u] \/ u \in Made
    <2>1. CASE state' = state
      BY <2>1
    <2>2. CASE CopierMark(t)
      <3>1. copier[t] # "none" /\ state' = [state EXCEPT ![t] = DISPATCHED]
        BY <2>2 DEF CopierMark
      <3>2. t \in InFlight
        BY <3>1 DEF OwnershipInv, PacketsInFlight
      <3>3. t \in Made
        BY <3>2 DEF InFlight, MadeInv, READY, DISPATCHED, UNINITIALIZED
      <3>4. QED
        BY <3>1, <3>3 DEF OwnershipInv, TypeInv, TypeOK
    <2>3. QED
      BY <2>1, <2>2 DEF Device, CompletePacket, CopierIssue, CopierFinish
  <1>4. MadeMoves
    BY <1>1, <1>2, <1>3 DEF MadeMoves, Made
  <1>5. QED
    BY <1>1, <1>2, <1>4, MadeListsGrow, MadeKept

LEMMA HandlerMade ==
  ASSUME OwnershipInv, MadeInv, NEW t \in Task,
         \/ HandleSignal(t) \/ VisitSuccessor(t) \/ ReleaseResources
         \/ MarkCompleted \/ DoProgress \/ PopReady
  PROVE  MadeInv' /\ Made' = Made
  <1>1. /\ UNCHANGED <<handle, andSuccessors, runningOrdered>>
        /\ TypeOK /\ Callback \in Thread
    BY DEF HandleSignal, VisitSuccessor, ReleaseResources, MarkCompleted, DoProgress,
           PopReady, HandlerLeavesUnchanged, groupVars, OwnershipInv, TypeInv, Thread
  <1>2. Made' = Made
    BY <1>1 DEF Made
  <1>3. ASSUME NEW u \in Made, NEW x,
               state' = state \/ state' = [state EXCEPT ![u] = x],
               \A i \in Thread : thread'[i] = thread[i] \/ thread'[i].task = u
                                 \/ thread'[i].at = "idle",
               MadeLists(Made)'
        PROVE  MadeInv' /\ Made' = Made
    <2>1. \A w \in Task : state'[w] = state[w] \/ w \in Made
      BY <1>1, <1>3 DEF TypeOK
    <2>2. MadeMoves
      BY <1>1, <1>2, <1>3, <2>1 DEF MadeMoves, Made
    <2>3. QED
      BY <1>2, <1>3, <2>2, MadeKept
  <1>4. CASE HandleSignal(t)
    <2>1. /\ t \in Made /\ state' = [state EXCEPT ![t] = EXECUTED]
          /\ \A i \in Thread : thread'[i] = thread[i] \/ thread'[i].task = t
      BY <1>1, <1>4 DEF HandleSignal, MadeInv, Work, Frame, TypeOK
    <2>2. MadeLists(Made)'
      BY <1>1, <1>2, <1>4 DEF HandleSignal, MadeLists, MadeInv
    <2>3. QED
      BY <1>3, <2>1, <2>2
  <1>5. CASE VisitSuccessor(t)
    <2>1. /\ t \in Made /\ thread' = thread /\ state' = state
          /\ tempList' = tempList \/ tempList' = Append(tempList, t)
          /\ UNCHANGED <<registered, readyQueue>> /\ todo' \subseteq todo
      BY <1>5 DEF VisitSuccessor, MadeInv
    <2>2. tempList' \in Seq(Made)
      BY <2>1 DEF MadeInv
    <2>3. MadeLists(Made)'
      BY <1>1, <1>2, <2>1, <2>2 DEF MadeLists, MadeInv
    <2>4. QED
      BY <1>3, <2>1, <2>3
  <1>6. ASSUME ReleaseResources \/ MarkCompleted \/ DoProgress
        PROVE  MadeInv' /\ Made' = Made
    <2>1. thread[Callback].at # "idle"
      BY <1>6 DEF ReleaseResources, MarkCompleted, DoProgress, At
    <2>2. PICK u \in Made : u = thread[Callback].task
      BY <1>1, <2>1, AtWorkOnMade
    <2>3. /\ state' = state \/ state' = [state EXCEPT ![u] = COMPLETED]
          /\ \A i \in Thread : thread'[i] = thread[i] \/ thread'[i].task = u
          /\ UNCHANGED <<registered, todo>>
      BY <1>1, <1>6, <2>2
      DEF ReleaseResources, MarkCompleted, DoProgress, Goto, Work, Frame, TypeOK,
          handlerVars
    <2>4. /\ \/ readyQueue' = readyQueue
             \/ readyQueue' = readyQueue \o tempList
          /\ tempList' = tempList \/ tempList' = <<>>
      BY <1>6 DEF ReleaseResources, MarkCompleted, DoProgress, handlerVars
    <2>5. readyQueue' \in Seq(Made) /\ tempList' \in Seq(Made)
      <3>1. \A q, l \in Seq(Made) : q \o l \in Seq(Made)
        OBVIOUS
      <3>2. readyQueue \in Seq(Made) /\ tempList \in Seq(Made) /\ <<>> \in Seq(Made)
        BY DEF MadeInv
      <3>3. readyQueue' \in Seq(Made)
        BY <2>4, <3>1, <3>2
      <3>4. tempList' \in Seq(Made)
        BY <2>4, <3>2
      <3>5. QED
        BY <3>3, <3>4
    <2>6. MadeLists(Made)'
      BY <1>1, <1>2, <2>3, <2>5 DEF MadeLists, MadeInv
    <2>7. QED
      BY <1>3, <2>2, <2>3, <2>6
  <1>7. CASE PopReady
    <2>1. /\ UNCHANGED <<state, registered, todo, tempList>>
          /\ thread[Callback].at # "idle"
      BY <1>7 DEF PopReady, At
    <2>2. PICK q \in Seq(Made) : q = readyQueue
      BY DEF MadeInv
    <2>3. PICK u \in Made : u = IF q # <<>> THEN Head(q) ELSE thread[Callback].task
      BY <1>1, <2>1, AtWorkOnMade
    <2>4. /\ \A i \in Thread : thread'[i] = thread[i] \/ thread'[i].task = u
                               \/ thread'[i].at = "idle"
          /\ readyQueue' = q \/ (q # <<>> /\ readyQueue' = Tail(q))
      <3>1. CASE budget > 0 /\ readyQueue # <<>>
        BY <1>1, <1>7, <2>2, <2>3, <3>1, SMTT(30) DEF PopReady, Work, Frame, TypeOK
      <3>2. CASE ~(budget > 0 /\ readyQueue # <<>>)
        <4>1. thread' = [thread EXCEPT ![Callback] = Idle] /\ readyQueue' = q
          BY <1>7, <2>2, <3>2 DEF PopReady, Rest
        <4>2. thread \in [Thread -> ThreadType] /\ Idle.at = "idle"
          BY <1>1 DEF TypeOK, ThreadType, Idle, Frame
        <4>3. \A i \in Thread : thread'[i] = thread[i] \/ thread'[i].at = "idle"
          BY <4>1, <4>2
        <4>4. QED
          BY <4>1, <4>3
      <3>3. QED
        BY <3>1, <3>2
    <2>5. readyQueue' \in Seq(Made)
      <3>1. q # <<>> => Tail(q) \in Seq(Made)
        OBVIOUS
      <3>2. QED
        BY <2>4, <3>1
    <2>6. MadeLists(Made)'
      BY <1>1, <1>2, <2>1, <2>5 DEF MadeLists, MadeInv
    <2>7. QED
      BY <1>3, <2>1, <2>3, <2>4, <2>6
  <1>8. QED
    BY <1>4, <1>5, <1>6, <1>7

(***************************************************************************)
(* Every step keeps MadeInv, and only a constructor makes a task.          *)
(***************************************************************************)
LEMMA MadeStep ==
  ASSUME OwnershipInv, MadeInv, [Next]_vars
  PROVE  MadeInv' /\ (Made' = Made \/ \E a \in App : \E t \in Task : Construct(a, t))
  <1> DEFINE Goal ==
        MadeInv' /\ (Made' = Made \/ \E a \in App : \E t \in Task : Construct(a, t))
  <1>1. Callback \in Thread /\ (\A a \in App : a \in Thread) /\ TypeInv
    BY DEF Thread, OwnershipInv
  <1>2. ASSUME NEW h \in Thread, TakeFront(h) \/ TryDispatch(h) \/ Dispatch(h) PROVE Goal
    BY <1>1, <1>2, TakeFrontMade, TryMade, DispatchMade
  <1>3. ASSUME NEW a \in App, Call(a) \/ AppStep(a) PROVE Goal
    BY <1>1, <1>2, <1>3, CallMade DEF AppStep
  <1>4. CASE Handler
    <2>1. CASE \E t \in Task : HandleSignal(t) \/ VisitSuccessor(t)
      BY <2>1, HandlerMade
    <2>2. CASE ReleaseResources \/ MarkCompleted \/ DoProgress \/ PopReady
      <3>1. thread[Callback].task \in Task
        BY <1>1, <2>2
        DEF ReleaseResources, MarkCompleted, DoProgress, PopReady, At, TypeInv,
            ThreadsNameTasks
      <3>2. QED
        BY <2>2, <3>1, HandlerMade
    <2>3. CASE TakeFront(Callback) \/ TryDispatch(Callback) \/ Dispatch(Callback)
      BY <1>1, <1>2, <2>3
    <2>4. QED
      BY <1>4, <2>1, <2>2, <2>3 DEF Handler
  <1>5. ASSUME NEW t \in Task, Device(t) PROVE Goal
    BY <1>5, DeviceMade
  <1>6. CASE UNCHANGED vars
    <2>1. UNCHANGED <<state, handle, thread, andSuccessors, todo, registered, readyQueue,
                      tempList, runningOrdered>>
      BY <1>6 DEF vars, taskVars, handlerVars, groupVars
    <2>2. Made' = Made
      BY <2>1 DEF Made
    <2>3. MadeMoves
      BY <2>1, <2>2 DEF MadeMoves, Made
    <2>4. QED
      BY <2>1, <2>2, <2>3, MadeListsGrow, MadeKept
  <1>7. CASE Finished
    BY <1>6, <1>7 DEF Finished
  <1>8. QED
    BY <1>3, <1>4, <1>5, <1>6, <1>7 DEF Next

-------------------------------------------------------------------------------
(***************************************************************************)
(* Which steps touch what an ordered group keeps.                          *)
(***************************************************************************)
GroupKept == UNCHANGED <<prevOrdered, runningOrdered, lastTask, submitOrder>>

LEMMA GroupSteps ==
  ASSUME [Next]_vars
  PROVE  \/ \E a \in App : \E t \in Task : Construct(a, t)
         \/ \E h \in Thread : TryAcquires(h)
         \/ GroupKept
  <1> DEFINE Goal == \/ \E a \in App : \E t \in Task : Construct(a, t)
                     \/ \E h \in Thread : TryAcquires(h)
                     \/ GroupKept
  <1>1. Callback \in Thread /\ \A a \in App : a \in Thread
    BY DEF Thread
  <1>2. ASSUME NEW h \in Thread, TakeFront(h) \/ TryDispatch(h) \/ Dispatch(h) PROVE Goal
    <2>1. CASE TakeFront(h) \/ Dispatch(h)
      BY <2>1
      DEF TakeFront, Dispatch, MarkDispatched, Publish, SpawnCopier, RegisterHandler,
          WaitCompleted, DispatchLeavesUnchanged, taskVars, groupVars, deviceVars, GroupKept
    <2>2. CASE TryDispatch(h)
      BY <2>2
      DEF TryDispatch, TryTaken, TryWaitsForRequired, TryWaitsForPrevious,
          TryLacksResources, KeepForLater, TryLeavesUnchanged, GroupKept
    <2>3. QED
      BY <1>2, <2>1, <2>2
  <1>3. ASSUME NEW a \in App, Call(a) \/ AppStep(a) PROVE Goal
    <2>1. CASE SaveArgs(a) \/ CreateTask(a) \/ \E t \in Task : ActivateTask(a, t)
      BY <2>1 DEF ActivateTask, SaveArgs, CreateTask, taskVars, groupVars, deviceVars, GroupKept
    <2>2. CASE TakeFront(a) \/ TryDispatch(a) \/ Dispatch(a)
      BY <1>1, <1>2, <2>2
    <2>3. QED
      BY <1>3, <2>1, <2>2 DEF Call, AppStep
  <1>4. CASE Handler
    <2>1. CASE \/ \E t \in Task : HandleSignal(t) \/ VisitSuccessor(t)
               \/ ReleaseResources \/ MarkCompleted \/ DoProgress \/ PopReady
      BY <2>1 DEF HandleSignal, VisitSuccessor, ReleaseResources, MarkCompleted,
                  DoProgress, PopReady, HandlerLeavesUnchanged, groupVars, deviceVars,
                  GroupKept
    <2>2. CASE TakeFront(Callback) \/ TryDispatch(Callback) \/ Dispatch(Callback)
      BY <1>1, <1>2, <2>2
    <2>3. QED
      BY <1>4, <2>1, <2>2 DEF Handler
  <1>5. ASSUME NEW t \in Task, Device(t) PROVE Goal
    BY <1>5 DEF Device, CompletePacket, CopierIssue, CopierMark, CopierFinish,
                DeviceLeavesUnchanged, groupVars, GroupKept
  <1>6. CASE UNCHANGED vars
    BY <1>6 DEF vars, taskVars, groupVars, deviceVars, GroupKept
  <1>7. CASE Finished
    BY <1>6, <1>7 DEF Finished
  <1>8. QED
    BY <1>3, <1>4, <1>5, <1>6, <1>7 DEF Next

\* The packets of a task get fewer by a device, or by the thread that stages.
LEMMA PacketsByDevice ==
  ASSUME OwnershipInv, [Next]_vars, NEW t \in Task, packetsLeft'[t] < packetsLeft[t]
  PROVE  CompletePacket(t) \/ CopierFinish(t)
  <1>1. /\ packetsLeft \in [Task -> Int] /\ packetsLeft[t] \in Int
        /\ Packets[t] \in Nat \ {0} /\ state[t] \in Int
    BY TaskAssumption DEF OwnershipInv, TypeInv, TypeOK, State
  <1>2. packetsLeft' # packetsLeft
    BY <1>1
  <1>3. ASSUME NEW u, NEW x, packetsLeft' = [packetsLeft EXCEPT ![u] = x]
        PROVE  u = t /\ packetsLeft'[t] = x
    BY <1>1, <1>3
  <1>4. ASSUME NEW h \in Thread, TryAcquires(h) PROVE FALSE
    <2>1. /\ packetsLeft' = [packetsLeft EXCEPT ![thread[h].task] = Packets[thread[h].task]]
          /\ state[thread[h].task] < READY
      BY <1>4 DEF TryAcquires, AcquireAqlPacket, Dispatchable
    <2>2. thread[h].task = t /\ packetsLeft'[t] = Packets[thread[h].task]
      BY <1>3, <2>1
    <2>3. packetsLeft[t] = 0
      <3>1. t \notin InFlight
        BY <1>1, <2>1, <2>2 DEF InFlight, READY, DISPATCHED
      <3>2. packetsLeft[t] >= 0 /\ ~(packetsLeft[t] > 0)
        BY <3>1 DEF OwnershipInv, PacketsInFlight
      <3>3. QED
        BY <1>1, <3>2
    <2>4. QED
      BY <1>1, <2>2, <2>3
  <1>5. ASSUME NEW h \in Thread, TakeFront(h) \/ TryDispatch(h) \/ Dispatch(h) PROVE FALSE
    BY <1>2, <1>4, <1>5
    DEF TakeFront, TryDispatch, TryTaken, TryWaitsForRequired, TryWaitsForPrevious,
        TryLacksResources, KeepForLater, Dispatch, MarkDispatched, Publish,
        SpawnCopier, RegisterHandler, WaitCompleted, DispatchLeavesUnchanged, deviceVars
  <1>6. Callback \in Thread /\ \A a \in App : a \in Thread
    BY DEF Thread
  <1>7. \A a \in App : ~(Call(a) \/ AppStep(a))
    BY <1>2, <1>5, <1>6
    DEF Call, AppStep, Construct, ActivateTask, SaveArgs, CreateTask, deviceVars
  <1>8. ~Handler
    BY <1>2, <1>5, <1>6
    DEF Handler, HandleSignal, VisitSuccessor, ReleaseResources, MarkCompleted,
        DoProgress, PopReady, HandlerLeavesUnchanged, deviceVars
  <1>9. ~Finished /\ ~UNCHANGED vars
    BY <1>2 DEF Finished, vars, deviceVars
  <1>10. PICK u \in Task : Device(u)
    BY <1>7, <1>8, <1>9 DEF Next
  <1>11. CompletePacket(u) \/ CopierFinish(u)
    BY <1>2, <1>10 DEF Device, CopierIssue, CopierMark
  <1>12. packetsLeft' = [packetsLeft EXCEPT ![u] = @ - 1]
    BY <1>11 DEF CompletePacket, CopierFinish, FinishPacket
  <1>13. u = t
    BY <1>3, <1>12
  <1>14. QED
    BY <1>11, <1>13

-------------------------------------------------------------------------------
(***************************************************************************)
(* The lists of the ordered groups.                                        *)
(***************************************************************************)
LEMMA ListTypes ==
  ASSUME OwnershipInv
  PROVE  /\ state \in [Task -> State]
         /\ \A t \in Task : state[t] \in Int
         /\ prevOrdered \in [Task -> Task \cup {NoTask}]
         /\ runningOrdered \in [Group -> Seq(Task)]
         /\ lastTask \in [Group -> Task \cup {NoTask}]
         /\ submitOrder \in [Group -> Seq(Task)]
         /\ packetsLeft \in [Task -> Int]
         /\ thread \in [Thread -> ThreadType]
  BY DEF OwnershipInv, TypeInv, TypeOK, State, ThreadType

\* Between constructors and dispatches a list stays what it is.
LEMMA GroupKeptChains ==
  ASSUME OwnershipInv, OrderInv, GroupKept, Made' = Made,
         \A t \in Task : state'[t] < READY <=> state[t] < READY
  PROVE  ListsChained' /\ PreviousMade'
  <1>1. runningOrdered \in [Group -> Seq(Task)] /\ OrderedGroup \subseteq Group
    BY ListTypes, PoolAssumption
  <1>2. ListsChained'
    BY <1>1 DEF ListsChained, Chained, OrderInv, GroupKept, Made
  <1>3. PreviousMade'
    BY DEF PreviousMade, OrderInv, GroupKept
  <1>4. QED
    BY <1>2, <1>3

\* A constructor links its task behind the last one of the group.
LEMMA ConstructChains ==
  ASSUME OwnershipInv, OrderInv, NEW a \in App, NEW t \in Task, Construct(a, t)
  PROVE  ListsChained' /\ PreviousMade'
  <1> DEFINE g == GroupOf[t]
  <1>1. /\ handle[t] = "none" /\ handle' = [handle EXCEPT ![t] = "object"]
        /\ state' = state
    BY DEF Construct
  <1>2. /\ t \notin Made /\ Made' = Made \cup {t}
        /\ state[t] < READY
    <2>1. t \notin Made /\ Made' = Made \cup {t}
      BY <1>1 DEF Made, OwnershipInv, TypeInv, TypeOK
    <2>2. QED
      BY <2>1 DEF OrderInv, MadeInv, UNINITIALIZED, READY
  <1>3. CASE ~Ordered(t)
    <2>1. UNCHANGED <<runningOrdered, lastTask, prevOrdered>>
      BY <1>3 DEF Construct, groupVars
    <2>2. ListsChained'
      <3> SUFFICES ASSUME NEW k \in OrderedGroup PROVE Chained(k, runningOrdered[k])'
        BY DEF ListsChained
      <3>1. GroupOf[t] # k
        BY <1>3 DEF Ordered
      <3>2. Chained(k, runningOrdered[k])
        BY DEF ListsChained, OrderInv
      <3>3. QED
        BY <1>1, <1>2, <2>1, <3>1, <3>2 DEF Chained
    <2>3. PreviousMade'
      BY <1>2, <2>1 DEF PreviousMade, OrderInv
    <2>4. QED
      BY <2>2, <2>3
  <1>4. CASE Ordered(t)
    <2>1. /\ g \in OrderedGroup /\ g \in Group
          /\ runningOrdered' = [runningOrdered EXCEPT ![g] = Append(@, t)]
          /\ prevOrdered' = [prevOrdered EXCEPT ![t] = lastTask[g]]
          /\ lastTask' = [lastTask EXCEPT ![g] = t]
      BY <1>4, PoolAssumption DEF Construct, Ordered
    <2>2. PICK r \in Seq(Task) : r = runningOrdered[g]
      BY <2>1, ListTypes
    <2>3. PICK q \in Seq(Task) : q = Append(r, t)
      <3>1. Append(r, t) \in Seq(Task)
        OBVIOUS
      <3>2. QED
        BY <3>1
    <2>4. /\ runningOrdered'[g] = q /\ lastTask'[g] = t
          /\ \A k \in Group : k # g => /\ runningOrdered'[k] = runningOrdered[k]
                                       /\ lastTask'[k] = lastTask[k]
          /\ prevOrdered'[t] = lastTask[g]
          /\ \A u \in Task : u # t => prevOrdered'[u] = prevOrdered[u]
      BY <2>1, <2>2, <2>3, ListTypes
    <2>5. /\ Len(q) = Len(r) + 1 /\ q[Len(r) + 1] = t
          /\ DOMAIN q = 1..Len(r) + 1 /\ DOMAIN r = 1..Len(r)
          /\ Len(r) \in Nat /\ q # <<>>
          /\ \A i \in DOMAIN r : q[i] = r[i]
      BY <2>3
    <2>6. /\ \A i \in DOMAIN r : r[i] \in Made /\ r[i] # t
      <3>1. r \in Seq(Made)
        BY <2>1, <2>2 DEF OrderInv, MadeInv
      <3>2. QED
        BY <1>2, <3>1
    <2>7. \A k \in OrderedGroup : k # g =>
            LET s == runningOrdered[k] IN
            /\ \A i \in DOMAIN s : GroupOf[s[i]] = k /\ state[s[i]] < READY
            /\ \A i, j \in DOMAIN s : s[i] = s[j] => i = j
            /\ \A i \in DOMAIN s : i > 1 => prevOrdered'[s[i]] = s[i - 1]
            /\ s # <<>> => lastTask[k] = s[Len(s)]
            /\ \A u \in Made' : GroupOf[u] = k /\ state[u] < READY => \E i \in DOMAIN s : s[i] = u
            /\ lastTask[k] # NoTask => lastTask[k] \in Made' /\ GroupOf[lastTask[k]] = k
      <3> SUFFICES ASSUME NEW k \in OrderedGroup, k # g, NEW s, s = runningOrdered[k]
                   PROVE  /\ \A i \in DOMAIN s : GroupOf[s[i]] = k /\ state[s[i]] < READY
                          /\ \A i, j \in DOMAIN s : s[i] = s[j] => i = j
                          /\ \A i \in DOMAIN s : i > 1 => prevOrdered'[s[i]] = s[i - 1]
                          /\ s # <<>> => lastTask[k] = s[Len(s)]
                          /\ \A u \in Made' : GroupOf[u] = k /\ state[u] < READY => \E i \in DOMAIN s : s[i] = u
                          /\ lastTask[k] # NoTask =>
                               lastTask[k] \in Made' /\ GroupOf[lastTask[k]] = k
        OBVIOUS
      <3>1. s \in Seq(Task) /\ k \in Group
        BY ListTypes, PoolAssumption
      <3>2. \A i \in DOMAIN s : s[i] \in Task /\ s[i] # t
        BY <3>1 DEF ListsChained, Chained, OrderInv
      <3>3. \A i \in DOMAIN s : i > 1 => prevOrdered'[s[i]] = s[i - 1]
        BY <2>4, <3>1, <3>2 DEF ListsChained, Chained, OrderInv
      <3>4. QED
        BY <1>2, <3>3 DEF ListsChained, Chained, OrderInv
    <2>8. \A i \in DOMAIN q : GroupOf[q[i]] = g /\ state[q[i]] < READY
      BY <1>2, <2>1, <2>2, <2>5 DEF ListsChained, Chained, OrderInv
    <2>9. \A i, j \in DOMAIN q : q[i] = q[j] => i = j
      <3>1. \A i, j \in DOMAIN r : r[i] = r[j] => i = j
        BY <2>1, <2>2 DEF ListsChained, Chained, OrderInv
      <3>2. QED
        BY <2>5, <2>6, <3>1
    <2>10. \A i \in DOMAIN q : i > 1 => prevOrdered'[q[i]] = q[i - 1]
      <3> SUFFICES ASSUME NEW i \in DOMAIN q, i > 1
                   PROVE  prevOrdered'[q[i]] = q[i - 1]
        OBVIOUS
      <3>1. CASE i \in DOMAIN r
        <4>1. prevOrdered[r[i]] = r[i - 1]
          BY <2>1, <2>2, <3>1 DEF ListsChained, Chained, OrderInv
        <4>2. q[i] = r[i] /\ q[i - 1] = r[i - 1] /\ r[i] # t /\ r[i] \in Task
          BY <2>2, <2>5, <2>6, <3>1
        <4>3. QED
          BY <2>4, <4>1, <4>2
      <3>2. CASE i \notin DOMAIN r
        <4>1. i = Len(r) + 1 /\ Len(r) \in DOMAIN r /\ r # <<>>
          BY <2>5, <3>2
        <4>2. lastTask[g] = r[Len(r)]
          BY <2>1, <2>2, <4>1 DEF ListsChained, Chained, OrderInv
        <4>3. q[i] = t /\ q[i - 1] = r[Len(r)]
          BY <2>5, <4>1
        <4>4. QED
          BY <2>4, <4>2, <4>3
      <3>3. QED
        BY <3>1, <3>2
    <2>11. \A u \in Made' : GroupOf[u] = g /\ state[u] < READY => \E i \in DOMAIN q : q[i] = u
      <3> SUFFICES ASSUME NEW u \in Made', GroupOf[u] = g, state[u] < READY
                   PROVE  \E i \in DOMAIN q : q[i] = u
        OBVIOUS
      <3>1. CASE u = t
        BY <2>5, <3>1
      <3>2. CASE u # t
        <4>1. \E i \in DOMAIN r : r[i] = u
          BY <1>2, <2>1, <2>2, <3>2 DEF ListsChained, Chained, OrderInv
        <4>2. QED
          BY <2>5, <4>1
      <3>3. QED
        BY <3>1, <3>2
    <2>12. ListsChained'
      <3> SUFFICES ASSUME NEW k \in OrderedGroup PROVE Chained(k, runningOrdered[k])'
        BY DEF ListsChained
      <3>1. PICK s : s = runningOrdered'[k]
        OBVIOUS
      <3>2. /\ \A i \in DOMAIN s : GroupOf[s[i]] = k /\ state[s[i]] < READY
            /\ \A i, j \in DOMAIN s : s[i] = s[j] => i = j
            /\ \A i \in DOMAIN s : i > 1 => prevOrdered'[s[i]] = s[i - 1]
            /\ s # <<>> => lastTask'[k] = s[Len(s)]
            /\ \A u \in Made' : GroupOf[u] = k /\ state[u] < READY =>
                 \E i \in DOMAIN s : s[i] = u
            /\ lastTask'[k] # NoTask => lastTask'[k] \in Made' /\ GroupOf[lastTask'[k]] = k
        <4>1. CASE k = g
          BY <1>2, <2>4, <2>5, <2>8, <2>9, <2>10, <2>11, <3>1, <4>1, ZenonT(60)
        <4>2. CASE k # g
          <5>1. s = runningOrdered[k] /\ lastTask'[k] = lastTask[k]
            BY <2>4, <3>1, <4>2, PoolAssumption
          <5>2. QED
            BY <2>7, <4>2, <5>1
        <4>3. QED
          BY <4>1, <4>2
      <3>3. QED
        BY <1>1, <3>1, <3>2 DEF Chained
    <2>13. PreviousMade'
      <3> SUFFICES ASSUME NEW u \in Task, NEW p, p = prevOrdered'[u], p # NoTask
                   PROVE  /\ {u, p} \subseteq Made' /\ p # u
                          /\ Ordered(u) /\ GroupOf[p] = GroupOf[u]
        BY DEF PreviousMade
      <3>1. CASE u = t
        <4>1. p = lastTask[g]
          BY <2>4, <3>1
        <4>2. p \in Made /\ GroupOf[p] = g
          BY <2>1, <4>1 DEF ListsChained, Chained, OrderInv
        <4>3. QED
          BY <1>2, <1>4, <3>1, <4>2
      <3>2. CASE u # t
        BY <1>2, <2>4, <3>2 DEF PreviousMade, OrderInv
      <3>3. QED
        BY <3>1, <3>2
    <2>14. QED
      BY <2>12, <2>13
  <1>5. QED
    BY <1>3, <1>4

\* A task of an ordered group that is not blocked by its previous task is the
\* front of the list.
LEMMA AcquiresFront ==
  ASSUME OwnershipInv, OrderInv, NEW h \in Thread, TryAcquires(h),
         Ordered(thread[h].task)
  PROVE  LET r == runningOrdered[GroupOf[thread[h].task]] IN
         1 \in DOMAIN r /\ r[1] = thread[h].task
  <1> DEFINE t == thread[h].task
  <1>1. /\ thread[h].at = "try" /\ state[t] < READY /\ ~PrevBlocks(t)
    BY DEF TryAcquires, Dispatchable, At
  <1>2. t \in Made /\ t \in Task
    BY <1>1, AtWorkOnMade DEF OrderInv, Made
  <1>3. GroupOf[t] \in OrderedGroup /\ GroupOf[t] \in Group
    BY <1>2, TaskAssumption DEF Ordered
  <1>4. PICK r \in Seq(Task) : r = runningOrdered[GroupOf[t]]
    BY <1>3, ListTypes
  <1>5. Chained(GroupOf[t], r)
    BY <1>3, <1>4 DEF OrderInv, ListsChained
  <1>6. PICK i \in DOMAIN r : r[i] = t
    BY <1>1, <1>2, <1>5 DEF Chained
  <1>7. ASSUME i # 1 PROVE FALSE
    <2>1. i > 1 /\ i - 1 \in DOMAIN r
      BY <1>4, <1>6, <1>7
    <2>2. prevOrdered[t] = r[i - 1] /\ state[r[i - 1]] < READY /\ r[i - 1] \in Task
      <3>1. DOMAIN r = 1..Len(r) /\ r[i - 1] \in Task
        BY <1>4, <2>1
      <3>2. prevOrdered[r[i]] = r[i - 1] /\ state[r[i - 1]] < READY
        BY <1>5, <2>1 DEF Chained
      <3>3. QED
        BY <1>6, <3>1, <3>2
    <2>3. PrevBlocks(t)
      <3>1. prevOrdered[t] # NoTask /\ state[prevOrdered[t]] < READY
            /\ state[prevOrdered[t]] \in Int
        BY <2>2, ListTypes, TaskAssumption
      <3>2. QED
        BY <3>1 DEF PrevBlocks, READY, EXECUTED
    <2>4. QED
      BY <1>1, <2>3
  <1>8. QED
    BY <1>4, <1>6, <1>7

\* What acquiring leaves alone, and the state it stores.
LEMMA AcquiresMoves ==
  ASSUME OwnershipInv, MadeInv, NEW h \in Thread, TryAcquires(h)
  PROVE  LET t == thread[h].task IN
         /\ t \in Task /\ t \in Made /\ Made' = Made
         /\ state[t] < READY /\ state'[t] = READY
         /\ \A u \in Task : u # t => /\ state'[u] = state[u]
                                     /\ packetsLeft'[u] = packetsLeft[u]
         /\ packetsLeft'[t] = Packets[t]
         /\ prevOrdered' = prevOrdered /\ lastTask' = lastTask
         /\ ~PrevBlocks(t)
         /\ \/ submitOrder' = submitOrder /\ ~(Ordered(t) /\ IsKernel(t))
            \/ submitOrder' = [submitOrder EXCEPT ![GroupOf[t]] = Append(@, t)]
  <1> DEFINE t == thread[h].task
  <1>1. /\ thread[h].at = "try" /\ state[t] < READY /\ ~PrevBlocks(t)
        /\ state' = [state EXCEPT ![t] = READY]
        /\ packetsLeft' = [packetsLeft EXCEPT ![t] = Packets[t]]
        /\ UNCHANGED <<prevOrdered, lastTask, handle>>
        /\ \/ submitOrder' = submitOrder /\ ~(Ordered(t) /\ IsKernel(t))
           \/ submitOrder' = [submitOrder EXCEPT ![GroupOf[t]] = Append(@, t)]
    BY DEF TryAcquires, Dispatchable, AcquireAqlPacket, TryLeavesUnchanged, At
  <1>2. t \in Made /\ t \in Task /\ Made' = Made
    BY <1>1, AtWorkOnMade DEF Made
  <1>3. state'[t] = READY /\ packetsLeft'[t] = Packets[t]
    BY <1>1, <1>2, ListTypes
  <1>4. \A u \in Task : u # t => state'[u] = state[u] /\ packetsLeft'[u] = packetsLeft[u]
    BY <1>1, ListTypes
  <1>5. QED
    BY <1>1, <1>2, <1>3, <1>4

\* The pop_front of a dispatch removes the dispatched task.
LEMMA AcquireChains ==
  ASSUME OwnershipInv, OrderInv, NEW h \in Thread, TryAcquires(h)
  PROVE  ListsChained' /\ PreviousMade'
  <1> DEFINE t == thread[h].task
  <1>1. /\ t \in Task /\ t \in Made /\ Made' = Made
        /\ state[t] < READY /\ state'[t] = READY
        /\ \A u \in Task : u # t => state'[u] = state[u]
        /\ prevOrdered' = prevOrdered /\ lastTask' = lastTask
    BY AcquiresMoves DEF OrderInv
  <1>0. PICK g \in Group : g = GroupOf[t]
    BY <1>1, TaskAssumption
  <1>2. PreviousMade'
    BY <1>1 DEF PreviousMade, OrderInv
  <1>3. ASSUME NEW k \in OrderedGroup, k # g, runningOrdered'[k] = runningOrdered[k]
        PROVE  Chained(k, runningOrdered[k])'
    <2>1. PICK s \in Seq(Task) : s = runningOrdered[k]
      BY ListTypes, PoolAssumption
    <2>2. Chained(k, s)
      BY <2>1 DEF OrderInv, ListsChained
    <2>3. \A i \in DOMAIN s : s[i] \in Task /\ s[i] # t
      BY <1>0, <1>3, <2>1, <2>2 DEF Chained
    <2>4. \A i \in DOMAIN s : GroupOf[s[i]] = k /\ state'[s[i]] < READY
      BY <1>1, <2>2, <2>3 DEF Chained
    <2>5. \A u \in Made : GroupOf[u] = k /\ state'[u] < READY => \E i \in DOMAIN s : s[i] = u
      BY <1>0, <1>1, <1>3, <2>2 DEF Chained, Made
    <2>6. QED
      BY <1>1, <1>3, <2>1, <2>2, <2>4, <2>5 DEF Chained
  <1>4. CASE ~Ordered(t)
    <2>1. runningOrdered' = runningOrdered
      BY <1>4 DEF TryAcquires
    <2>2. \A k \in OrderedGroup : k # g
      BY <1>0, <1>4 DEF Ordered
    <2>3. ListsChained'
      BY <1>3, <2>1, <2>2 DEF ListsChained
    <2>4. QED
      BY <1>2, <2>3
  <1>5. CASE Ordered(t)
    <2>1. g \in OrderedGroup /\ g \in Group
      BY <1>0, <1>5 DEF Ordered
    <2>2. PICK r \in Seq(Task) : r = runningOrdered[g]
      BY <2>1, ListTypes
    <2>3. 1 \in DOMAIN r /\ r[1] = t
      BY <1>0, <1>5, <2>2, AcquiresFront
    <2>4. PICK q \in Seq(Task) : q = SubSeq(r, 2, Len(r))
      <3>1. SubSeq(r, 2, Len(r)) \in Seq(Task)
        OBVIOUS
      <3>2. QED
        BY <3>1
    <2>5. /\ runningOrdered'[g] = q
          /\ \A k \in Group : k # g => runningOrdered'[k] = runningOrdered[k]
      <3>1. runningOrdered' = [runningOrdered EXCEPT ![g] = SubSeq(@, 2, Len(@))]
        BY <1>0, <1>5 DEF TryAcquires
      <3>2. QED
        BY <2>1, <2>2, <2>4, <3>1, ListTypes
    <2>6. /\ Len(r) \in Nat /\ DOMAIN r = 1..Len(r) /\ Len(r) >= 1
          /\ DOMAIN q = 1..(Len(r) - 1) /\ Len(q) = Len(r) - 1
          /\ q # <<>> => Len(r) >= 2
          /\ \A i \in DOMAIN q : q[i] = r[i + 1] /\ i + 1 \in DOMAIN r
      <3>1. Len(r) \in Nat /\ DOMAIN r = 1..Len(r) /\ Len(r) >= 1
        BY <2>3
      <3>2. DOMAIN q = 1..(Len(r) - 1) /\ Len(q) = Len(r) - 1
        BY <2>4, <3>1
      <3>3. \A i \in DOMAIN q : q[i] = r[i + 1] /\ i + 1 \in DOMAIN r
        BY <2>4, <3>1, <3>2
      <3>4. q # <<>> => Len(r) >= 2
        BY <2>4, <3>1, <3>2
      <3>5. QED
        BY <3>1, <3>2, <3>3, <3>4
    <2>7. Chained(g, r)
      BY <2>1, <2>2 DEF OrderInv, ListsChained
    <2>8. \A i \in DOMAIN q : GroupOf[q[i]] = g /\ state'[q[i]] < READY
      <3> SUFFICES ASSUME NEW i \in DOMAIN q
                   PROVE  GroupOf[q[i]] = g /\ state'[q[i]] < READY
        OBVIOUS
      <3>1. q[i] = r[i + 1] /\ i + 1 \in DOMAIN r /\ i + 1 # 1 /\ r[i + 1] \in Task
        BY <2>6
      <3>2. r[i + 1] # t
        BY <2>3, <2>7, <3>1 DEF Chained
      <3>3. QED
        BY <1>1, <2>7, <3>1, <3>2 DEF Chained
    <2>9. \A i, j \in DOMAIN q : q[i] = q[j] => i = j
      <3> SUFFICES ASSUME NEW i \in DOMAIN q, NEW j \in DOMAIN q, q[i] = q[j] PROVE i = j
        OBVIOUS
      <3>1. i + 1 = j + 1
        BY <2>6, <2>7 DEF Chained
      <3>2. QED
        BY <2>6, <3>1
    <2>10. \A i \in DOMAIN q : i > 1 => prevOrdered[q[i]] = q[i - 1]
      <3> SUFFICES ASSUME NEW i \in DOMAIN q, i > 1 PROVE prevOrdered[q[i]] = q[i - 1]
        OBVIOUS
      <3>1. /\ q[i] = r[i + 1] /\ i + 1 \in DOMAIN r /\ i + 1 > 1
            /\ q[i - 1] = r[i] /\ (i + 1) - 1 = i
        BY <2>6
      <3>2. QED
        BY <2>7, <3>1 DEF Chained
    <2>11. q # <<>> => lastTask[g] = q[Len(q)]
      <3>1. q # <<>> => Len(q) \in DOMAIN q /\ Len(q) + 1 = Len(r) /\ r # <<>>
        BY <2>4, <2>6
      <3>2. QED
        BY <2>6, <2>7, <3>1 DEF Chained
    <2>12. \A u \in Made : GroupOf[u] = g /\ state'[u] < READY => \E i \in DOMAIN q : q[i] = u
      <3> SUFFICES ASSUME NEW u \in Made, GroupOf[u] = g, state'[u] < READY
                   PROVE  \E i \in DOMAIN q : q[i] = u
        OBVIOUS
      <3>1. u # t /\ state[u] < READY
        BY <1>1 DEF Made, READY
      <3>2. PICK i \in DOMAIN r : r[i] = u
        BY <2>7, <3>1 DEF Chained
      <3>3. i # 1
        BY <2>3, <3>1, <3>2
      <3>4. i - 1 \in DOMAIN q /\ q[i - 1] = r[i]
        <4>1. i - 1 \in DOMAIN q /\ (i - 1) + 1 = i
          BY <2>6, <3>3
        <4>2. QED
          BY <2>6, <4>1
      <3>5. QED
        BY <3>2, <3>4
    <2>13. Chained(g, runningOrdered[g])'
      BY <1>1, <2>5, <2>7, <2>8, <2>9, <2>10, <2>11, <2>12 DEF Chained
    <2>14. ListsChained'
      BY <1>3, <2>5, <2>13, PoolAssumption DEF ListsChained
    <2>15. QED
      BY <1>2, <2>14
  <1>6. QED
    BY <1>4, <1>5

-------------------------------------------------------------------------------
(***************************************************************************)
(* The order of the packets.                                               *)
(***************************************************************************)
\* p has a place before t in q.
Before(p, t, q) == \E i, j \in DOMAIN q : i < j /\ q[i] = p /\ q[j] = t

LEMMA BeforeAppend ==
  ASSUME NEW q \in Seq(Task), NEW t \in Task
  PROVE  /\ \A p, u \in Task : Before(p, u, q) => Before(p, u, Append(q, t))
         /\ \A u \in Task : InSeq(u, q) => InSeq(u, Append(q, t))
         /\ \A p \in Task : InSeq(p, q) => Before(p, t, Append(q, t))
         /\ InSeq(t, Append(q, t))
  <1>1. PICK s \in Seq(Task) : s = Append(q, t)
    <2>1. Append(q, t) \in Seq(Task)
      OBVIOUS
    <2>2. QED
      BY <2>1
  <1>2. /\ Len(q) \in Nat /\ DOMAIN q = 1..Len(q) /\ DOMAIN s = 1..(Len(q) + 1)
        /\ s[Len(q) + 1] = t
        /\ \A i \in DOMAIN q : s[i] = q[i]
    BY <1>1
  <1>3. \A i \in DOMAIN q : i \in DOMAIN s /\ i < Len(q) + 1
    BY <1>2
  <1>4. Len(q) + 1 \in DOMAIN s
    BY <1>2
  <1>5. QED
    BY <1>1, <1>2, <1>3, <1>4 DEF Before, InSeq

\* The part of PreviousFirst about one task.
FirstSubmitted(t) ==
  Ordered(t) /\ IsKernel(t) /\ state[t] >= READY => InSeq(t, submitOrder[GroupOf[t]])

FirstOf(t, p) ==
  p # NoTask /\ state[t] >= READY =>
    /\ state[p] >= READY
    /\ SameType(t, p) /\ IsKernel(t) => p \in Earlier(t)
    /\ ~SameType(t, p) => state[p] >= EXECUTED
    /\ packetsLeft[t] < Packets[t] /\ ~BothCopies(t, p) => packetsLeft[p] = 0

LEMMA PreviousFirstMeans ==
  PreviousFirst <=> \A t \in Task : FirstSubmitted(t) /\ FirstOf(t, prevOrdered[t])
  BY DEF PreviousFirst, FirstSubmitted, FirstOf

\* A task whose packets are done has none again.
LEMMA DoneStaysDone ==
  ASSUME OwnershipInv, OwnershipInv', [Next]_vars, NEW p \in Task,
         state[p] >= READY, packetsLeft[p] = 0
  PROVE  packetsLeft'[p] = 0
  <1>1. packetsLeft'[p] >= 0 /\ packetsLeft'[p] \in Int
    BY DEF OwnershipInv, PacketsInFlight, TypeInv, TypeOK
  <1>2. ~(packetsLeft'[p] > packetsLeft[p])
    BY PacketsGivenOnce, ListTypes DEF OwnershipInv, TypeInv, READY
  <1>3. QED
    BY <1>1, <1>2

\* The first packet of a task completes after those of the previous task.
LEMMA FirstPacketAfter ==
  ASSUME OwnershipInv, OwnershipInv', [Next]_vars, NEW t \in Task, NEW p \in Task,
         FirstOf(t, p), p # NoTask, state[t] >= READY,
         packetsLeft'[t] < Packets[t], ~BothCopies(t, p)
  PROVE  packetsLeft[p] = 0
  <1>1. /\ packetsLeft[t] \in Int /\ packetsLeft'[t] \in Int /\ Packets[t] \in Int
        /\ packetsLeft[p] \in Int /\ state[p] \in Int
    BY TaskAssumption DEF OwnershipInv, TypeInv, TypeOK, State
  <1>2. CASE packetsLeft[t] < Packets[t]
    BY <1>2 DEF FirstOf
  <1>3. CASE state[p] >= EXECUTED
    <2>1. p \notin InFlight
      BY <1>1, <1>3 DEF InFlight, READY, DISPATCHED, EXECUTED
    <2>2. packetsLeft[p] >= 0 /\ ~(packetsLeft[p] > 0)
      BY <2>1 DEF OwnershipInv, PacketsInFlight
    <2>3. QED
      BY <1>1, <2>2
  <1>4. CASE ~(packetsLeft[t] < Packets[t]) /\ ~(state[p] >= EXECUTED)
    <2>1. packetsLeft'[t] < packetsLeft[t]
      BY <1>1, <1>4
    <2>2. CompletePacket(t) \/ CopierFinish(t)
      BY <2>1, PacketsByDevice
    <2>3. SameType(t, p)
      BY <1>4 DEF FirstOf
    <2>4. IsKernel(t)
      BY <2>3 DEF SameType, BothCopies
    <2>5. p \in Earlier(t)
      BY <2>3, <2>4 DEF FirstOf
    <2>6. ~CopierFinish(t)
      <3>1. copier[t] = "none"
        BY <2>4 DEF OwnershipInv, PacketsInFlight, IsKernel
      <3>2. QED
        BY <3>1 DEF CopierFinish
    <2>7. QED
      BY <2>2, <2>5, <2>6 DEF CompletePacket
  <1>5. QED
    BY <1>2, <1>3, <1>4

\* A step in which neither task becomes READY.
LEMMA FirstOfKept ==
  ASSUME OwnershipInv, OwnershipInv', [Next]_vars, CreatedUnordered,
         NEW t \in Task, NEW p \in Task,
         FirstOf(t, p), p # NoTask, state'[t] >= READY => state[t] >= READY,
         p \in Earlier(t) => p \in Earlier(t)'
  PROVE  FirstOf(t, p)'
  <1> SUFFICES ASSUME state'[t] >= READY
               PROVE  /\ state'[p] >= READY
                      /\ SameType(t, p) /\ IsKernel(t) => p \in Earlier(t)'
                      /\ ~SameType(t, p) => state'[p] >= EXECUTED
                      /\ packetsLeft'[t] < Packets[t] /\ ~BothCopies(t, p) =>
                           packetsLeft'[p] = 0
    BY DEF FirstOf
  <1>1. state[p] \in Int /\ state'[p] \in Int /\ state'[p] >= state[p]
    <2>1. state[p] \in State /\ state'[p] \in State
      BY DEF OwnershipInv, TypeInv, TypeOK
    <2>2. state'[p] >= state[p]
      BY StateAdvances
    <2>3. QED
      BY <2>1, <2>2 DEF State
  <1>2. state[t] >= READY /\ state[p] >= READY
    BY DEF FirstOf
  <1>3. state'[p] >= READY
    BY <1>1, <1>2 DEF READY
  <1>4. SameType(t, p) /\ IsKernel(t) => p \in Earlier(t)'
    BY <1>2 DEF FirstOf
  <1>5. ~SameType(t, p) => state'[p] >= EXECUTED
    <2>1. ~SameType(t, p) => state[p] >= EXECUTED
      BY <1>2 DEF FirstOf
    <2>2. state[p] >= EXECUTED => state'[p] >= EXECUTED
      BY <1>1 DEF EXECUTED
    <2>3. QED
      BY <2>1, <2>2
  <1>6. packetsLeft'[t] < Packets[t] /\ ~BothCopies(t, p) => packetsLeft'[p] = 0
    BY <1>2, FirstPacketAfter, DoneStaysDone
  <1>7. QED
    BY <1>3, <1>4, <1>5, <1>6

\* The step that makes t READY.
LEMMA FirstOfAcquired ==
  ASSUME OwnershipInv, OrderInv, NEW h \in Thread, TryAcquires(h),
         NEW t \in Task, t = thread[h].task
  PROVE  FirstSubmitted(t)' /\ FirstOf(t, prevOrdered[t])'
  <1>2. /\ state[t] < READY /\ state'[t] = READY
        /\ \A u \in Task : u # t => state'[u] = state[u] /\ packetsLeft'[u] = packetsLeft[u]
        /\ packetsLeft'[t] = Packets[t]
        /\ prevOrdered' = prevOrdered
        /\ ~PrevBlocks(t)
        /\ \/ submitOrder' = submitOrder /\ ~(Ordered(t) /\ IsKernel(t))
           \/ submitOrder' = [submitOrder EXCEPT ![GroupOf[t]] = Append(@, t)]
    BY AcquiresMoves DEF OrderInv
  <1>3. GroupOf[t] \in Group
    BY TaskAssumption
  <1>4. PICK q \in Seq(Task) : q = submitOrder[GroupOf[t]]
    BY <1>3, ListTypes
  <1>5. Ordered(t) /\ IsKernel(t) => submitOrder'[GroupOf[t]] = Append(q, t)
    BY <1>2, <1>3, <1>4, ListTypes
  <1>6. FirstSubmitted(t)'
    BY <1>5, BeforeAppend DEF FirstSubmitted
  <1>7. PICK p : p = prevOrdered[t]
    OBVIOUS
  <1>8. ASSUME p # NoTask PROVE FirstOf(t, p)'
    <2>1. /\ p \in Task /\ p # t /\ Ordered(t) /\ GroupOf[p] = GroupOf[t]
      BY <1>7, <1>8 DEF OrderInv, PreviousMade, Made
    <2>2. ~(IF SameType(t, p) THEN state[p] < READY ELSE state[p] < EXECUTED)
      BY <1>2, <1>7, <1>8 DEF PrevBlocks
    <2>3. state[p] \in Int /\ state'[p] = state[p]
      BY <1>2, <2>1, ListTypes
    <2>4. SameType(t, p) => state[p] >= READY
      BY <2>2, <2>3 DEF READY
    <2>5. ~SameType(t, p) => state[p] >= EXECUTED
      BY <2>2, <2>3 DEF EXECUTED
    <2>6. state[p] >= EXECUTED => state[p] >= READY
      BY <2>3 DEF READY, EXECUTED
    <2>7. ASSUME SameType(t, p), IsKernel(t) PROVE p \in Earlier(t)'
      <3>1. KindOf[p] = KindOf[t] /\ IsKernel(p)
        BY <2>7 DEF SameType, IsKernel
      <3>2. FirstSubmitted(p)
        BY <2>1, PreviousFirstMeans DEF OrderInv
      <3>3. InSeq(p, q)
        BY <1>4, <2>1, <2>4, <2>7, <3>1, <3>2 DEF FirstSubmitted, Ordered
      <3>4. submitOrder'[GroupOf[t]] = Append(q, t)
        BY <1>5, <2>1, <2>7
      <3>5. Before(p, t, submitOrder'[GroupOf[t]])
        BY <2>1, <3>3, <3>4, BeforeAppend
      <3>6. QED
        BY <3>1, <3>5 DEF Earlier, Before
    <2>8. ~(packetsLeft'[t] < Packets[t])
      BY <1>2, TaskAssumption
    <2>9. QED
      BY <2>3, <2>4, <2>5, <2>6, <2>7, <2>8 DEF FirstOf
  <1>9. FirstOf(t, p)'
    BY <1>8 DEF FirstOf
  <1>10. QED
    BY <1>2, <1>6, <1>7, <1>9

LEMMA FirstStep ==
  ASSUME CreatedUnordered, OwnershipInv, OwnershipInv', OrderInv, [Next]_vars
  PROVE  PreviousFirst'
  <1>1. ASSUME NEW t \in Task, NEW p \in Task, p = prevOrdered[t], p # NoTask
        PROVE  FirstOf(t, p)
    BY <1>1, PreviousFirstMeans DEF OrderInv
  <1>2. prevOrdered \in [Task -> Task \cup {NoTask}] /\ NoTask \notin Task
    BY ListTypes, TaskAssumption
  <1>3. CASE \E h \in Thread : TryAcquires(h)
    <2>1. PICK h \in Thread : TryAcquires(h)
      BY <1>3
    <2>2. PICK w \in Task : w = thread[h].task
      BY <2>1, AcquiresMoves DEF OrderInv
    <2>3. /\ state[w] < READY
          /\ \A u \in Task : u # w => state'[u] = state[u]
          /\ prevOrdered' = prevOrdered
          /\ \/ submitOrder' = submitOrder
             \/ submitOrder' = [submitOrder EXCEPT ![GroupOf[w]] = Append(@, w)]
      BY <2>1, <2>2, AcquiresMoves DEF OrderInv
    <2>4. \A g \in Group : \/ submitOrder'[g] = submitOrder[g]
                           \/ submitOrder'[g] = Append(submitOrder[g], w)
      BY <2>3, ListTypes
    <2>5. \A t \in Task : GroupOf[t] \in Group /\ submitOrder[GroupOf[t]] \in Seq(Task)
      BY ListTypes, TaskAssumption
    <2>6. ASSUME NEW t \in Task PROVE FirstSubmitted(t)' /\ FirstOf(t, prevOrdered[t])'
      <3>1. CASE t = w
        BY <2>1, <2>2, <3>1, FirstOfAcquired
      <3>2. CASE t # w
        <4>1. FirstSubmitted(t)
          BY PreviousFirstMeans DEF OrderInv
        <4>2. FirstSubmitted(t)'
          BY <2>3, <2>4, <2>5, <3>2, <4>1, BeforeAppend, ZenonT(60) DEF FirstSubmitted
        <4>3. PICK p \in Task \cup {NoTask} : p = prevOrdered[t]
          BY <1>2
        <4>4. ASSUME p # NoTask PROVE FirstOf(t, p)'
          <5>1. p \in Task /\ FirstOf(t, p)
            BY <1>1, <4>3, <4>4
          <5>2. p \in Earlier(t) => p \in Earlier(t)'
            <6>1. Before(p, t, submitOrder[GroupOf[t]]) =>
                    Before(p, t, submitOrder'[GroupOf[t]])
              BY <2>4, <2>5, <5>1, BeforeAppend
            <6>2. QED
              BY <5>1, <6>1 DEF Earlier, Before
          <5>3. state'[t] >= READY => state[t] >= READY
            BY <2>3, <3>2
          <5>4. QED
            BY <4>4, <5>1, <5>2, <5>3, FirstOfKept
        <4>5. FirstOf(t, p)'
          BY <4>4 DEF FirstOf
        <4>6. QED
          BY <2>3, <4>2, <4>3, <4>5
      <3>3. QED
        BY <3>1, <3>2
    <2>7. QED
      BY <2>6 DEF PreviousFirst, FirstSubmitted, FirstOf
  <1>4. CASE ~ \E h \in Thread : TryAcquires(h)
    <2>1. \A t \in Task : state'[t] >= READY => state[t] >= READY
      <3> SUFFICES ASSUME NEW t \in Task, state'[t] >= READY, ~(state[t] >= READY)
                   PROVE  FALSE
        OBVIOUS
      <3>1. state[t] < READY
        BY ListTypes DEF READY
      <3>2. QED
        BY <1>4, <3>1, ReadyByAcquiring
    <2>2. submitOrder' = submitOrder
      BY <1>4, GroupSteps DEF GroupKept, Construct, deviceVars
    <2>3. ASSUME NEW t \in Task, NEW p \in Task, FirstOf(t, p), p # NoTask
          PROVE  FirstOf(t, p)'
      <3>1. p \in Earlier(t) => p \in Earlier(t)'
        BY <2>2 DEF Earlier
      <3>2. QED
        BY <2>1, <2>3, <3>1, FirstOfKept
    <2>4. ASSUME NEW t \in Task PROVE FirstSubmitted(t)'
      BY <2>1, <2>2, PreviousFirstMeans DEF FirstSubmitted, OrderInv
    <2>5. ASSUME NEW t \in Task PROVE FirstOf(t, prevOrdered[t])'
      <3>1. CASE prevOrdered'[t] = prevOrdered[t]
        <4>1. PICK p \in Task \cup {NoTask} : p = prevOrdered[t]
          BY <1>2
        <4>2. FirstOf(t, p)'
          BY <1>1, <2>3, <4>1 DEF FirstOf
        <4>3. QED
          BY <3>1, <4>1, <4>2
      <3>2. CASE prevOrdered'[t] # prevOrdered[t]
        <4>1. PICK a \in App, u \in Task : Construct(a, u)
          BY <1>4, <3>2, GroupSteps DEF GroupKept
        <4>2. /\ handle[u] = "none" /\ state' = state
              /\ \/ prevOrdered' = prevOrdered
                 \/ prevOrdered' = [prevOrdered EXCEPT ![u] = lastTask[GroupOf[u]]]
          BY <4>1 DEF Construct
        <4>3. u = t
          BY <1>2, <3>2, <4>2
        <4>4. ~(state'[t] >= READY)
          BY <4>2, <4>3 DEF OrderInv, MadeInv, Made, UNINITIALIZED, READY
        <4>5. QED
          BY <4>4 DEF FirstOf
      <3>3. QED
        BY <3>1, <3>2
    <2>6. QED
      BY <2>4, <2>5 DEF PreviousFirst, FirstSubmitted, FirstOf
  <1>5. QED
    BY <1>3, <1>4

LEMMA OrderStep ==
  ASSUME CreatedUnordered, OwnershipInv, OwnershipInv', OrderInv, [Next]_vars
  PROVE  OrderInv'
  <1>1. MadeInv' /\ (Made' = Made \/ \E a \in App : \E t \in Task : Construct(a, t))
    BY MadeStep DEF OrderInv
  <1>2. ListsChained' /\ PreviousMade'
    <2>1. CASE \E a \in App : \E t \in Task : Construct(a, t)
      BY <2>1, ConstructChains
    <2>2. CASE \E h \in Thread : TryAcquires(h)
      BY <2>2, AcquireChains
    <2>3. CASE /\ ~ \E a \in App : \E t \in Task : Construct(a, t)
               /\ ~ \E h \in Thread : TryAcquires(h)
      <3>1. GroupKept
        BY <2>3, GroupSteps
      <3>2. Made' = Made
        BY <1>1, <2>3
      <3>3. ASSUME NEW t \in Task PROVE state'[t] < READY <=> state[t] < READY
        <4>1. state[t] \in State /\ state'[t] \in State
          BY DEF OwnershipInv, TypeInv, TypeOK
        <4>2. state'[t] >= state[t]
          BY StateAdvances
        <4>3. state[t] < READY => ~(state'[t] >= READY)
          BY <2>3, ReadyByAcquiring
        <4>4. QED
          BY <4>1, <4>2, <4>3 DEF READY, State
      <3>4. QED
        BY <3>1, <3>2, <3>3, GroupKeptChains
    <2>4. QED
      BY <2>1, <2>2, <2>3
  <1>3. QED
    BY <1>1, <1>2, FirstStep DEF OrderInv

\* OrderInv holds of every program that creates no task in an ordered group.
LEMMA OrderAlways == CreatedUnordered => (Spec => [](OwnershipInv /\ OrderInv))
  <1> SUFFICES ASSUME CreatedUnordered PROVE Spec => [](OwnershipInv /\ OrderInv)
    OBVIOUS
  <1>1. Init => OrderInv
    BY OrderInit
  <1>2. OwnershipInv /\ OwnershipInv' /\ OrderInv /\ [Next]_vars => OrderInv'
    BY OrderStep
  <1>3. Spec => []OwnershipInv
    BY OwnershipCorrect
  <1>4. QED
    BY <1>1, <1>2, <1>3, PTL DEF Spec

(***************************************************************************)
(* running_ordered_tasks_ holds exactly the tasks of its group that are    *)
(* not READY, in the order they were made, although the constructors, the  *)
(* activating threads and the handler all walk it and only a dispatch pops *)
(* its front: whichever thread dispatches, the front is its task.          *)
(***************************************************************************)
THEOREM OrderedListsAreExact == CreatedUnordered => (Spec => []OrderedListExact)
  <1>1. OwnershipInv /\ OrderInv => OrderedListExact
    <2> SUFFICES ASSUME OwnershipInv, OrderInv, NEW g \in OrderedGroup,
                        NEW q, q = runningOrdered[g]
                 PROVE  /\ \A t \in Task : GroupOf[t] = g /\ handle[t] # "none" =>
                             (InSeq(t, q) <=> state[t] < READY)
                        /\ \A i \in DOMAIN q : i > 1 => prevOrdered[q[i]] = q[i - 1]
      BY DEF OrderedListExact
    <2>1. Chained(g, q)
      BY DEF OrderInv, ListsChained
    <2>2. QED
      BY <2>1 DEF Chained, InSeq, Made
  <1>2. QED
    BY <1>1, OrderAlways, PTL

\* Two copies of an ordered group are not ordered by the code (data.cpp:645).
CopiesApart ==
  \A t, u \in Task : t # u /\ Ordered(t) /\ GroupOf[u] = GroupOf[t] => ~BothCopies(t, u)

(***************************************************************************)
(* No packet of a task of an ordered group completes while one of the task *)
(* made before it is left, whichever devices they run on, in programs that *)
(* have at most one copy in each ordered group.                            *)
(***************************************************************************)
THEOREM EnqueueOrderKept == CreatedUnordered /\ CopiesApart => (Spec => []EnqueueOrder)
  <1> SUFFICES ASSUME CreatedUnordered, CopiesApart PROVE Spec => []EnqueueOrder
    OBVIOUS
  <1>1. OwnershipInv /\ OrderInv => EnqueueOrder
    <2> SUFFICES ASSUME OwnershipInv, OrderInv, NEW t \in Task, NEW p, p = prevOrdered[t],
                        p # NoTask, state[t] >= READY, packetsLeft[t] < Packets[t]
                 PROVE  state[p] >= READY /\ packetsLeft[p] = 0
      BY DEF EnqueueOrder
    <2>1. p \in Task /\ p # t /\ Ordered(t) /\ GroupOf[p] = GroupOf[t]
      BY DEF OrderInv, PreviousMade, Made
    <2>2. ~BothCopies(t, p)
      BY <2>1 DEF CopiesApart
    <2>3. FirstOf(t, p)
      BY PreviousFirstMeans DEF OrderInv
    <2>4. QED
      BY <2>2, <2>3 DEF FirstOf
  <1>2. Spec => [](OwnershipInv /\ OrderInv)
    BY OrderAlways
  <1>3. QED
    BY <1>1, <1>2, PTL
===============================================================================

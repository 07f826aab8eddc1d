-------------------------- MODULE HostCallback_proofs --------------------------
(***************************************************************************)
(* Proofs about HostCallback, for every program, pool size and number of   *)
(* application threads.                                                    *)
(***************************************************************************)
EXTENDS HostCallbackInvariant, FiniteSetTheorems, TLAPS

ThreadType == [at : Label, task : Task \cup {NoTask}, via : Via]
HandleType == {"none", "object", "returned", "activated"}

(***************************************************************************)
(* What the ends of a call of tryDispatch() do to the threads: only the    *)
(* caller moves, to a place between two calls, still on the same task      *)
(* unless it is done; and only the handle of its task can change.          *)
(***************************************************************************)
LEMMA EndTryMoves ==
  ASSUME TypeInv, NEW h \in Thread, NEW b \in BOOLEAN,
         thread[h].at # "idle", EndTry(h, b)
  PROVE  /\ thread' \in [Thread -> ThreadType]
         /\ \A i \in Thread : i # h => thread'[i] = thread[i]
         /\ thread'[h].at \in {"idle", "pop", "front", "wait"}
         /\ thread'[h].at # "idle" => thread'[h].task = thread[h].task
         /\ handle' \in [Task -> HandleType]
         /\ \A t \in Task :
              handle'[t] = IF t = thread[h].task /\ handle' # handle
                           THEN "returned" ELSE handle[t]
  <1>1. thread[h].task \in Task /\ thread \in [Thread -> ThreadType]
        /\ handle \in [Task -> HandleType]
    BY DEF TypeInv, TypeOK, ThreadsNameTasks, At, ThreadType, HandleType
  <1>2. CASE thread[h].task \in Synchronous
    BY <1>1, <1>2 DEF EndTry, Goto, ThreadType, Label, Via
  <1>3. CASE thread[h].task \notin Synchronous
    <2>1. Resume(h, b)
      BY <1>3 DEF EndTry
    <2>2. \/ thread' = [thread EXCEPT ![h].at = "pop"]
          \/ thread' = [thread EXCEPT ![h].at = "front"]
          \/ thread' = [thread EXCEPT ![h] = Idle]
      BY <2>1 DEF Resume, Goto, Rest
    <2>3. handle' = handle \/ handle' = [handle EXCEPT ![thread[h].task] = "returned"]
      BY <2>1 DEF Resume
    <2>4. QED
      BY <1>1, <2>2, <2>3 DEF Idle, Frame, ThreadType, HandleType, Label, Via
  <1>4. QED
    BY <1>2, <1>3

\* The links a task gets are links between tasks, and they are counted.
LEMMA LinkToType ==
  ASSUME TypeOK, NEW t \in Task, NEW P \in SUBSET Task, LinkTo(P, t)
  PROVE  /\ andSuccessors' \in [Task -> SUBSET Task]
         /\ numPredecessors' \in [Task -> Int]
         /\ \A p \in Task : andSuccessors'[p] \subseteq andSuccessors[p] \cup {t}
  <1>1. Cardinality(P) \in Nat
    BY FiniteAssumption, FS_Subset, FS_CardinalityType
  <1>2. QED
    BY <1>1 DEF LinkTo, TypeOK

LEMMA TypeInit == Init => TypeInv
  <1> SUFFICES ASSUME Init PROVE TypeInv
    OBVIOUS
  <1> USE TaskAssumption, PoolAssumption, ThreadAssumption
  <1>1. TypeOK
    BY DEF Init, TypeOK, Idle, Frame, Label, Via, State, UNINITIALIZED, COMPLETED
  <1>2. ThreadsNameTasks
    BY DEF Init, ThreadsNameTasks, At, Idle, Frame
  <1>3. SignalsAssigned
    BY DEF Init, SignalsAssigned, Idle, Frame, DispatchLabel, HandleLabel
  <1>4. QED
    BY <1>1, <1>2, <1>3 DEF TypeInv

\* A failed attempt keeps every variable it writes well typed.
LEMMA KeepForLaterType ==
  ASSUME TypeInv, NEW h \in Thread, KeepForLater(h),
         andSuccessors' \in [Task -> SUBSET Task], numPredecessors' \in [Task -> Int],
         readyQueue' \in Seq(Task)
  PROVE  TypeInv'
  <1>1. /\ thread[h].task \in Task /\ thread[h].at = "try"
        /\ EndTry(h, FALSE)
    BY DEF KeepForLater, At, TypeInv, ThreadsNameTasks
  <1>2. /\ thread' \in [Thread -> ThreadType]
        /\ \A i \in Thread : i # h => thread'[i] = thread[i]
        /\ thread'[h].at \in {"idle", "pop", "front", "wait"}
        /\ thread'[h].at # "idle" => thread'[h].task = thread[h].task
        /\ handle' \in [Task -> HandleType]
    BY <1>1, EndTryMoves
  <1>3. state' \in [Task -> State] /\ argsSaved' \subseteq Task
    BY <1>1 DEF KeepForLater, KeepArgs, TypeInv, TypeOK, State, UNINITIALIZED,
                INITIALIZED, COMPLETED
  <1>4. TypeOK'
    BY <1>1, <1>2, <1>3
    DEF KeepForLater, TryLeavesUnchanged, TypeInv, TypeOK, heldVars, handlerVars,
        ThreadType, HandleType
  <1>5. ThreadsNameTasks'
    BY <1>1, <1>2 DEF ThreadsNameTasks, TypeInv, At
  <1>6. SignalsAssigned'
    BY <1>1, <1>2
    DEF SignalsAssigned, TypeInv, DispatchLabel, HandleLabel, KeepForLater,
        TryLeavesUnchanged, heldVars
  <1>7. QED
    BY <1>4, <1>5, <1>6 DEF TypeInv

LEMMA TryType ==
  ASSUME TypeInv, NEW h \in Thread, TryDispatch(h)
  PROVE  TypeInv'
  <1> DEFINE t == thread[h].task
  <1>1. /\ t \in Task /\ thread[h].at = "try"
        /\ WaitsFor(t) \in SUBSET Task
    BY TaskAssumption
    DEF TryDispatch, TryTaken, TryWaitsForRequired, TryWaitsForPrevious,
        TryLacksResources, TryAcquires, KeepForLater, At, TypeInv, ThreadsNameTasks,
        WaitsFor, Unfinished
  <1>2. CASE TryTaken(h)
    <2>1. EndTry(h, FALSE)
      BY <1>2 DEF TryTaken
    <2>2. /\ thread' \in [Thread -> ThreadType]
          /\ \A i \in Thread : i # h => thread'[i] = thread[i]
          /\ thread'[h].at \in {"idle", "pop", "front", "wait"}
          /\ thread'[h].at # "idle" => thread'[h].task = thread[h].task
          /\ handle' \in [Task -> HandleType]
      BY <1>1, <2>1, EndTryMoves
    <2>3. QED
      BY <1>1, <1>2, <2>2
      DEF TryTaken, TryLeavesUnchanged, TypeInv, TypeOK, ThreadsNameTasks,
          SignalsAssigned, DispatchLabel, HandleLabel, At, heldVars, handlerVars,
          ThreadType, HandleType
  <1>3. CASE TryWaitsForRequired(h)
    <2>1. /\ andSuccessors' \in [Task -> SUBSET Task]
          /\ numPredecessors' \in [Task -> Int]
      BY <1>1, <1>3, LinkToType DEF TryWaitsForRequired, TypeInv
    <2>2. QED
      BY <1>3, <2>1, KeepForLaterType DEF TryWaitsForRequired, TypeInv, TypeOK
  <1>4. CASE TryWaitsForPrevious(h)
    <2>1. {prevOrdered[t]} \in SUBSET Task
      BY <1>1, <1>4 DEF TryWaitsForPrevious, PrevBlocks, TypeInv, TypeOK
    <2>2. /\ andSuccessors' \in [Task -> SUBSET Task]
          /\ numPredecessors' \in [Task -> Int]
      <3>1. CASE LinkTo({prevOrdered[t]}, t)
        BY <1>1, <2>1, <3>1, LinkToType DEF TypeInv
      <3>2. CASE UNCHANGED <<numPredecessors, andSuccessors>>
        BY <3>2 DEF TypeInv, TypeOK
      <3>3. QED
        BY <1>4, <3>1, <3>2 DEF TryWaitsForPrevious, LinkToPrevious
    <2>3. QED
      BY <1>4, <2>2, KeepForLaterType DEF TryWaitsForPrevious, TypeInv, TypeOK
  <1>5. CASE TryLacksResources(h)
    <2>1. readyQueue' \in Seq(Task)
      BY <1>1, <1>5 DEF TryLacksResources, QueueForResources, TypeInv, TypeOK
    <2>2. /\ andSuccessors' \in [Task -> SUBSET Task]
          /\ numPredecessors' \in [Task -> Int]
      BY <1>5 DEF TryLacksResources, TypeInv, TypeOK
    <2>3. KeepForLater(h)
      BY <1>5 DEF TryLacksResources
    <2>4. QED
      BY <2>1, <2>2, <2>3, KeepForLaterType
  <1>6. CASE TryAcquires(h)
    <2>1. PICK s \in freeSignals : TakeSignal(t, s) /\ AcquireAqlPacket(t, s)
      BY <1>6 DEF TryAcquires
    <2>2. s \in Signal /\ t \in Task /\ Packets[t] \in Nat
      BY <1>1, <2>1, TaskAssumption DEF TypeInv, TypeOK
    <2>3. PICK label \in {"mark", "publish", "spawn"} :
            thread' = [thread EXCEPT ![h].at = label]
      BY <1>6 DEF TryAcquires, Goto, FirstDispatchStep
    <2>4. /\ thread'[h].at \in DispatchLabel /\ thread'[h].task = t
          /\ \A i \in Thread : i # h => thread'[i] = thread[i]
      BY <2>3 DEF TypeInv, TypeOK, DispatchLabel
    <2>5. /\ segmentOf' \in [Task -> Nat]
          /\ freeSegments' \in [Kernel -> SUBSET Nat]
      <3>1. CASE IsKernel(t)
        <4>1. PICK i \in freeSegments[KernelOf[t]] :
                /\ segmentOf' = [segmentOf EXCEPT ![t] = i]
                /\ freeSegments' = [freeSegments EXCEPT ![KernelOf[t]] = @ \ {i}]
          BY <1>6, <3>1 DEF TryAcquires
        <4>2. KernelOf[t] \in Kernel /\ i \in Nat
          BY <1>1, <4>1, TaskAssumption DEF TypeInv, TypeOK
        <4>3. QED
          BY <4>1, <4>2 DEF TypeInv, TypeOK
      <3>2. CASE ~IsKernel(t)
        BY <1>6, <3>2 DEF TryAcquires, TypeInv, TypeOK
      <3>3. QED
        BY <3>1, <3>2
    <2>6. /\ runningOrdered' \in [Group -> Seq(Task)]
          /\ submitOrder' \in [Group -> Seq(Task)]
      <3>1. GroupOf[t] \in Group
        BY <1>1, TaskAssumption
      <3>2. /\ \A q \in Seq(Task) : SubSeq(q, 2, Len(q)) \in Seq(Task)
            /\ \A q \in Seq(Task) : Append(q, t) \in Seq(Task)
        BY <1>1
      <3>3. QED
        BY <1>6, <3>1, <3>2 DEF TryAcquires, AcquireAqlPacket, TypeInv, TypeOK
    <2>7. /\ state' \in [Task -> State]
          /\ argsSaved' \subseteq Task
          /\ packetsLeft' \in [Task -> Int]
          /\ dispatches' \in [Task -> Nat]
      <3>1. /\ state' = [state EXCEPT ![t] = READY]
            /\ argsSaved' \in {argsSaved, argsSaved \cup {t}}
            /\ packetsLeft' = [packetsLeft EXCEPT ![t] = Packets[t]]
            /\ dispatches' = [dispatches EXCEPT ![t] = @ + 1]
        BY <1>6, <2>2 DEF TryAcquires, AcquireAqlPacket, KeepArgs
      <3>2. READY \in State /\ Packets[t] \in Int
        BY <1>1, TaskAssumption DEF State, UNINITIALIZED, READY, COMPLETED
      <3>3. dispatches \in [Task -> Nat] /\ dispatches[t] + 1 \in Nat
        BY <1>1 DEF TypeInv, TypeOK
      <3>4. QED
        BY <1>1, <3>1, <3>2, <3>3 DEF TypeInv, TypeOK
    <2>8. /\ signalOf' = [signalOf EXCEPT ![t] = s]
          /\ signalOf' \in [Task -> Signal \cup {NoSignal}]
          /\ freeSignals' \subseteq Signal
          /\ signalValue' \in [Signal -> Int]
      BY <2>1, <2>2 DEF TakeSignal, AcquireAqlPacket, TypeInv, TypeOK
    <2>9. thread' \in [Thread -> ThreadType]
      BY <2>3, ZenonT(60) DEF TypeInv, TypeOK, ThreadType, Label
    <2>10. TypeOK'
      BY <1>6, <2>5, <2>6, <2>7, <2>8, <2>9
      DEF TryAcquires, TryLeavesUnchanged, TypeInv, TypeOK, handlerVars, ThreadType
    <2>11. ThreadsNameTasks'
      BY <1>1, <2>4 DEF ThreadsNameTasks, TypeInv, At
    <2>12. SignalsAssigned'
      <3>1. signalOf'[t] \in Signal
            /\ \A u \in Task : signalOf[u] \in Signal => signalOf'[u] \in Signal
        BY <1>1, <2>2, <2>8 DEF TypeInv, TypeOK
      <3>2. \A i \in Thread : thread[i].at \in DispatchLabel \cup HandleLabel =>
              thread[i].task \in Task
        BY DEF TypeInv, ThreadsNameTasks, At, DispatchLabel, HandleLabel
      <3>3. registered' = registered /\ registered \subseteq Task
        BY <1>6 DEF TryAcquires, TryLeavesUnchanged, TypeInv, TypeOK
      <3>4. QED
        BY <2>4, <3>1, <3>2, <3>3 DEF SignalsAssigned, TypeInv
    <2>13. QED
      BY <2>10, <2>11, <2>12 DEF TypeInv
  <1>7. QED
    BY <1>2, <1>3, <1>4, <1>5, <1>6 DEF TryDispatch

\* The steps of the API calls outside tryDispatch().
LEMMA CallType ==
  ASSUME TypeInv, NEW a \in App,
         Call(a) \/ SaveArgs(a) \/ CreateTask(a)
  PROVE  TypeInv'
  <1>1. a \in Thread
    BY DEF Thread
  <1>2. ASSUME NEW t \in Task, Construct(a, t) PROVE TypeInv'
    <2>1. PICK label \in {"create", "save", "try"} :
            thread' = [thread EXCEPT ![a] = Frame(label, t, "launch")]
      BY <1>2 DEF Construct, Work
    <2>2. thread' \in [Thread -> ThreadType]
      BY <1>1, <2>1 DEF Frame, TypeInv, TypeOK, ThreadType, Label, Via
    <2>3. /\ runningOrdered' \in [Group -> Seq(Task)]
          /\ prevOrdered' \in [Task -> Task \cup {NoTask}]
          /\ lastTask' \in [Group -> Task \cup {NoTask}]
      <3>1. GroupOf[t] \in Group /\ \A q \in Seq(Task) : Append(q, t) \in Seq(Task)
        BY TaskAssumption
      <3>2. CASE Ordered(t)
        <4>1. /\ runningOrdered' = [runningOrdered EXCEPT ![GroupOf[t]] = Append(@, t)]
              /\ prevOrdered' = [prevOrdered EXCEPT ![t] = lastTask[GroupOf[t]]]
              /\ lastTask' = [lastTask EXCEPT ![GroupOf[t]] = t]
          BY <1>2, <3>2 DEF Construct
        <4>2. QED
          BY <3>1, <4>1 DEF TypeInv, TypeOK
      <3>3. CASE ~Ordered(t)
        BY <1>2, <3>3 DEF Construct, TypeInv, TypeOK, groupVars
      <3>4. QED
        BY <3>2, <3>3
    <2>4. handle' \in [Task -> HandleType]
      BY <1>2 DEF Construct, TypeInv, TypeOK, HandleType
    <2>5. TypeOK'
      BY <1>2, <2>2, <2>3, <2>4
      DEF Construct, TypeInv, TypeOK, heldVars, deviceVars, handlerVars, ThreadType,
          HandleType
    <2>6. ThreadsNameTasks' /\ SignalsAssigned'
      BY <1>1, <1>2, <2>1
      DEF Construct, TypeInv, TypeOK, ThreadsNameTasks, SignalsAssigned, At, Frame,
          DispatchLabel, HandleLabel, heldVars
    <2>7. QED
      BY <2>5, <2>6 DEF TypeInv
  <1>3. ASSUME NEW t \in Task, ActivateTask(a, t) PROVE TypeInv'
    <2>1. \/ thread' = thread
          \/ thread' = [thread EXCEPT ![a] = Frame("front", t, "front")]
          \/ thread' = [thread EXCEPT ![a] = Frame("try", t, "activate")]
      BY <1>3 DEF ActivateTask, Work
    <2>2. /\ thread' \in [Thread -> ThreadType]
          /\ \A i \in Thread : \/ thread'[i] = thread[i]
                               \/ /\ thread'[i].task = t
                                  /\ thread'[i].at \in {"front", "try"}
      <3>1. /\ Frame("front", t, "front") \in ThreadType
            /\ Frame("try", t, "activate") \in ThreadType
        BY DEF Frame, ThreadType, Label, Via
      <3>2. thread \in [Thread -> ThreadType]
        BY DEF TypeInv, TypeOK, ThreadType
      <3>3. QED
        BY <1>1, <2>1, <3>1, <3>2 DEF Frame
    <2>3. handle' \in [Task -> HandleType]
      BY <1>3 DEF ActivateTask, TypeInv, TypeOK, HandleType
    <2>4. TypeOK'
      BY <1>3, <2>2, <2>3
      DEF ActivateTask, TypeInv, TypeOK, taskVars, heldVars, groupVars, deviceVars,
          handlerVars, ThreadType, HandleType
    <2>5. ThreadsNameTasks' /\ SignalsAssigned'
      BY <1>3, <2>2
      DEF ActivateTask, TypeInv, ThreadsNameTasks, SignalsAssigned, At, DispatchLabel,
          HandleLabel, heldVars
    <2>6. QED
      BY <2>4, <2>5 DEF TypeInv
  <1>4. CASE SaveArgs(a)
    <2>1. thread[a].task \in Task
      BY <1>1, <1>4 DEF SaveArgs, At, TypeInv, ThreadsNameTasks
    <2>2. thread' = [thread EXCEPT ![a].at = "try"]
      BY <1>4 DEF SaveArgs, Goto
    <2>3. argsSaved' \subseteq Task /\ thread' \in [Thread -> ThreadType]
      <3>1. argsSaved' \subseteq Task
        BY <1>4, <2>1 DEF SaveArgs, KeepArgs, TypeInv, TypeOK
      <3>2. thread' \in [Thread -> ThreadType]
        BY <1>1, <2>2, ZenonT(60) DEF TypeInv, TypeOK, ThreadType, Label
      <3>3. QED
        BY <3>1, <3>2
    <2>4. TypeOK'
      BY <1>4, <2>3
      DEF SaveArgs, TypeInv, TypeOK, heldVars, groupVars, deviceVars, handlerVars,
          ThreadType
    <2>5. ThreadsNameTasks' /\ SignalsAssigned'
      BY <1>1, <1>4, <2>1, <2>2
      DEF SaveArgs, TypeInv, TypeOK, ThreadsNameTasks, SignalsAssigned, At,
          DispatchLabel, HandleLabel, heldVars
    <2>6. QED
      BY <2>4, <2>5 DEF TypeInv
  <1>5. CASE CreateTask(a)
    <2> DEFINE t == thread[a].task
    <2>1. t \in Task
      BY <1>1, <1>5 DEF CreateTask, At, TypeInv, ThreadsNameTasks
    <2>2. /\ andSuccessors' \in [Task -> SUBSET Task]
          /\ numPredecessors' \in [Task -> Int]
      <3>1. Unfinished(Requires[t]) \in SUBSET Task
        BY <2>1, TaskAssumption DEF Unfinished
      <3>2. LinkTo(Unfinished(Requires[t]), t) /\ TypeOK
        BY <1>5 DEF CreateTask, TypeInv
      <3>3. QED
        BY <2>1, <3>1, <3>2, LinkToType
    <2>3. /\ argsSaved' \subseteq Task
          /\ state' \in [Task -> State]
          /\ handle' \in [Task -> HandleType]
      BY <1>5, <2>1
      DEF CreateTask, KeepArgs, TypeInv, TypeOK, HandleType, State, UNINITIALIZED,
          INITIALIZED, COMPLETED
    <2>4. thread' = [thread EXCEPT ![a] = Idle]
      BY <1>5 DEF CreateTask, Rest
    <2>5. thread' \in [Thread -> ThreadType]
      BY <2>4 DEF Idle, Frame, TypeInv, TypeOK, ThreadType, Label, Via
    <2>6. TypeOK'
      BY <1>5, <2>2, <2>3, <2>5
      DEF CreateTask, TypeInv, TypeOK, heldVars, groupVars, deviceVars, handlerVars,
          ThreadType, HandleType
    <2>7. ThreadsNameTasks' /\ SignalsAssigned'
      BY <1>1, <1>5, <2>4
      DEF CreateTask, TypeInv, TypeOK, ThreadsNameTasks, SignalsAssigned, At, Idle,
          Frame, DispatchLabel, HandleLabel, heldVars
    <2>8. QED
      BY <2>6, <2>7 DEF TypeInv
  <1>6. QED
    BY <1>2, <1>3, <1>4, <1>5 DEF Call

\* A dispatch loop takes the front of an ordered list.
LEMMA TakeFrontType ==
  ASSUME TypeInv, NEW h \in Thread, TakeFront(h)
  PROVE  TypeInv'
  <1> DEFINE front == runningOrdered[GroupOf[thread[h].task]]
  <1>1. front \in Seq(Task)
    <2>1. thread[h].at = "front"
      BY DEF TakeFront, At
    <2>2. thread[h].task \in Task
      BY <2>1 DEF At, TypeInv, ThreadsNameTasks
    <2>3. QED
      BY <2>2, TaskAssumption DEF TypeInv, TypeOK
  <1>2. \/ thread' = [thread EXCEPT ![h] = Idle]
        \/ \E t \in Task : thread' = [thread EXCEPT ![h] = Frame("try", t, "front")]
    <2>1. CASE front = <<>>
      BY <2>1 DEF TakeFront, Rest
    <2>2. CASE front # <<>>
      <3>1. Head(front) \in Task
        BY <1>1, <2>2
      <3>2. QED
        BY <2>2, <3>1 DEF TakeFront, Work
    <2>3. QED
      BY <2>1, <2>2
  <1>3. PICK frame \in ThreadType :
          /\ thread' = [thread EXCEPT ![h] = frame]
          /\ frame.at \in {"idle", "try"}
          /\ frame.at = "try" => frame.task \in Task
    <2>1. Idle \in ThreadType /\ \A t \in Task : Frame("try", t, "front") \in ThreadType
      BY DEF Idle, Frame, ThreadType, Label, Via
    <2>2. Idle.at = "idle"
          /\ \A t \in Task : /\ Frame("try", t, "front").at = "try"
                            /\ Frame("try", t, "front").task = t
      BY DEF Idle, Frame
    <2>3. QED
      BY <1>2, <2>1, <2>2
  <1>4. TypeOK'
    BY <1>3
    DEF TakeFront, TypeInv, TypeOK, taskVars, heldVars, groupVars, deviceVars,
        handlerVars, ThreadType
  <1>5. ThreadsNameTasks' /\ SignalsAssigned'
    BY <1>3
    DEF TakeFront, TypeInv, TypeOK, ThreadsNameTasks, SignalsAssigned, At,
        DispatchLabel, HandleLabel, heldVars
  <1>6. QED
    BY <1>4, <1>5 DEF TypeInv

\* dispatch() and what follows it.
LEMMA DispatchType ==
  ASSUME TypeInv, NEW h \in Thread, Dispatch(h)
  PROVE  TypeInv'
  <1> DEFINE t == thread[h].task
  <1>1. /\ t \in Task /\ thread[h].at # "idle"
        /\ \/ thread[h].at \in DispatchLabel
           \/ WaitCompleted(h)
    BY DEF Dispatch, MarkDispatched, Publish, SpawnCopier, RegisterHandler,
           WaitCompleted, At, TypeInv, ThreadsNameTasks, DispatchLabel
  <1>2. CASE MarkDispatched(h)
    <2>1. PICK label \in {"register", "publish"} :
            thread' = [thread EXCEPT ![h].at = label]
      BY <1>2 DEF MarkDispatched, Goto
    <2>2. thread' \in [Thread -> ThreadType]
      BY <2>1, ZenonT(60) DEF TypeInv, TypeOK, ThreadType, Label
    <2>3. state' \in [Task -> State]
      BY <1>1, <1>2
      DEF MarkDispatched, TypeInv, TypeOK, State, UNINITIALIZED, DISPATCHED, COMPLETED
    <2>4. TypeOK'
      BY <1>2, <2>2, <2>3
      DEF MarkDispatched, DispatchLeavesUnchanged, TypeInv, TypeOK, heldVars, groupVars,
          handlerVars, ThreadType
    <2>5. ThreadsNameTasks' /\ SignalsAssigned'
      BY <1>1, <1>2, <2>1
      DEF MarkDispatched, DispatchLeavesUnchanged, TypeInv, TypeOK, ThreadsNameTasks,
          SignalsAssigned, At, DispatchLabel, HandleLabel, heldVars
    <2>6. QED
      BY <2>4, <2>5 DEF TypeInv
  <1>3. CASE Publish(h)
    <2>1. PICK label \in {"register", "mark"} :
            thread' = [thread EXCEPT ![h].at = label]
      BY <1>3 DEF Publish, Goto
    <2>2. thread' \in [Thread -> ThreadType]
      BY <2>1, ZenonT(60) DEF TypeInv, TypeOK, ThreadType, Label
    <2>3. published' \subseteq Task
      BY <1>1, <1>3 DEF Publish, TypeInv, TypeOK
    <2>4. TypeOK'
      BY <1>3, <2>2, <2>3
      DEF Publish, DispatchLeavesUnchanged, TypeInv, TypeOK, heldVars, groupVars,
          handlerVars, ThreadType
    <2>5. ThreadsNameTasks' /\ SignalsAssigned'
      BY <1>1, <1>3, <2>1
      DEF Publish, DispatchLeavesUnchanged, TypeInv, TypeOK, ThreadsNameTasks,
          SignalsAssigned, At, DispatchLabel, HandleLabel, heldVars
    <2>6. QED
      BY <2>4, <2>5 DEF TypeInv
  <1>4. CASE SpawnCopier(h)
    <2>1. thread' = [thread EXCEPT ![h].at = "register"]
      BY <1>4 DEF SpawnCopier, Goto
    <2>2. thread' \in [Thread -> ThreadType]
      BY <2>1, ZenonT(60) DEF TypeInv, TypeOK, ThreadType, Label
    <2>3. copier' \in [Task -> {"none", "spawned", "issued", "marked"}]
      BY <1>1, <1>4 DEF SpawnCopier, TypeInv, TypeOK
    <2>4. TypeOK'
      BY <1>4, <2>2, <2>3
      DEF SpawnCopier, DispatchLeavesUnchanged, TypeInv, TypeOK, heldVars, groupVars,
          handlerVars, ThreadType
    <2>5. ThreadsNameTasks' /\ SignalsAssigned'
      BY <1>1, <1>4, <2>1
      DEF SpawnCopier, DispatchLeavesUnchanged, TypeInv, TypeOK, ThreadsNameTasks,
          SignalsAssigned, At, DispatchLabel, HandleLabel, heldVars
    <2>6. QED
      BY <2>4, <2>5 DEF TypeInv
  <1>5. CASE RegisterHandler(h)
    <2>1. EndTry(h, TRUE)
      BY <1>5 DEF RegisterHandler
    <2>2. /\ thread' \in [Thread -> ThreadType]
          /\ \A i \in Thread : i # h => thread'[i] = thread[i]
          /\ thread'[h].at \in {"idle", "pop", "front", "wait"}
          /\ thread'[h].at # "idle" => thread'[h].task = t
          /\ handle' \in [Task -> HandleType]
      BY <1>1, <2>1, EndTryMoves
    <2>3. registered' = registered \cup {t} /\ signalOf[t] \in Signal
      BY <1>5 DEF RegisterHandler, At, TypeInv, SignalsAssigned, DispatchLabel
    <2>4. TypeOK'
      BY <1>1, <1>5, <2>2, <2>3
      DEF RegisterHandler, DispatchLeavesUnchanged, TypeInv, TypeOK, heldVars,
          groupVars, handlerVars, ThreadType, HandleType
    <2>5. ThreadsNameTasks' /\ SignalsAssigned'
      BY <1>1, <1>5, <2>2, <2>3
      DEF RegisterHandler, DispatchLeavesUnchanged, TypeInv, ThreadsNameTasks,
          SignalsAssigned, At, DispatchLabel, HandleLabel, heldVars
    <2>6. QED
      BY <2>4, <2>5 DEF TypeInv
  <1>6. CASE WaitCompleted(h)
    <2>1. PICK frame \in ThreadType :
            /\ thread' = [thread EXCEPT ![h] = frame]
            /\ frame.at \in {"idle", "pop"}
            /\ frame.at = "pop" => frame.task = t
      <3>1. thread[h] \in ThreadType
        BY DEF TypeInv, TypeOK, ThreadType
      <3>2. \/ thread' = [thread EXCEPT ![h] = [thread[h] EXCEPT !.at = "pop"]]
            \/ thread' = [thread EXCEPT ![h] = Idle]
        BY <1>6 DEF WaitCompleted, Resume, Goto, Rest
      <3>3. /\ [thread[h] EXCEPT !.at = "pop"] \in ThreadType
            /\ [thread[h] EXCEPT !.at = "pop"].at = "pop"
            /\ [thread[h] EXCEPT !.at = "pop"].task = t
        BY <3>1 DEF ThreadType, Label
      <3>4. Idle \in ThreadType /\ Idle.at = "idle"
        BY DEF Idle, Frame, ThreadType, Label, Via
      <3>5. QED
        BY <3>2, <3>3, <3>4
    <2>2. /\ thread' \in [Thread -> ThreadType]
          /\ handle' \in [Task -> HandleType]
      <3>1. thread' \in [Thread -> ThreadType]
        BY <2>1 DEF TypeInv, TypeOK, ThreadType
      <3>2. handle' = handle \/ handle' = [handle EXCEPT ![t] = "returned"]
        BY <1>6 DEF WaitCompleted, Resume
      <3>3. handle' \in [Task -> HandleType]
        BY <3>2 DEF TypeInv, TypeOK, HandleType
      <3>4. QED
        BY <3>1, <3>3
    <2>3. TypeOK'
      BY <1>6, <2>2
      DEF WaitCompleted, DispatchLeavesUnchanged, TypeInv, TypeOK, heldVars,
          groupVars, handlerVars, ThreadType, HandleType
    <2>4. ThreadsNameTasks' /\ SignalsAssigned'
      BY <1>1, <1>6, <2>1
      DEF WaitCompleted, DispatchLeavesUnchanged, TypeInv, TypeOK, ThreadsNameTasks,
          SignalsAssigned, At, DispatchLabel, HandleLabel, heldVars
    <2>5. QED
      BY <2>3, <2>4 DEF TypeInv
  <1>7. QED
    BY <1>2, <1>3, <1>4, <1>5, <1>6 DEF Dispatch

\* The devices and the staging threads.
LEMMA DeviceType ==
  ASSUME TypeInv, NEW t \in Task, Device(t)
  PROVE  TypeInv'
  <1>1. /\ packetsLeft' \in [Task -> Int]
        /\ signalValue' \in [Signal -> Int]
    <2>1. FinishPacket(t) \/ UNCHANGED <<packetsLeft, signalValue>>
      BY DEF Device, CompletePacket, CopierIssue, CopierMark, CopierFinish
    <2>2. packetsLeft' \in [Task -> Int]
      BY <2>1 DEF FinishPacket, TypeInv, TypeOK
    <2>3. signalValue' \in [Signal -> Int]
      BY <2>1 DEF FinishPacket, TypeInv, TypeOK
    <2>4. QED
      BY <2>2, <2>3
  <1>2. /\ state' \in [Task -> State]
        /\ published' \subseteq Task
        /\ copier' \in [Task -> {"none", "spawned", "issued", "marked"}]
    <2>1. CASE CompletePacket(t)
      BY <2>1 DEF CompletePacket, TypeInv, TypeOK
    <2>2. CASE CopierIssue(t)
      BY <2>2 DEF CopierIssue, TypeInv, TypeOK
    <2>3. CASE CopierMark(t)
      <3>1. DISPATCHED \in State
        BY DEF State, UNINITIALIZED, DISPATCHED, COMPLETED
      <3>2. QED
        BY <2>3, <3>1 DEF CopierMark, TypeInv, TypeOK
    <2>4. CASE CopierFinish(t)
      BY <2>4 DEF CopierFinish, TypeInv, TypeOK
    <2>5. QED
      BY <2>1, <2>2, <2>3, <2>4 DEF Device
  <1>3. DeviceLeavesUnchanged
    BY DEF Device, CompletePacket, CopierIssue, CopierMark, CopierFinish
  <1>4. TypeOK'
    BY <1>1, <1>2, <1>3
    DEF DeviceLeavesUnchanged, TypeInv, TypeOK, heldVars, groupVars, handlerVars
  <1>5. ThreadsNameTasks' /\ SignalsAssigned'
    BY <1>3
    DEF DeviceLeavesUnchanged, TypeInv, ThreadsNameTasks, SignalsAssigned, At, heldVars
  <1>6. QED
    BY <1>4, <1>5 DEF TypeInv

\* The steps of the handler outside tryDispatch().
LEMMA HandlerType ==
  ASSUME TypeInv, NEW u \in Task,
         \/ HandleSignal(u) \/ VisitSuccessor(u) \/ ReleaseResources
         \/ MarkCompleted \/ DoProgress \/ PopReady
  PROVE  TypeInv'
  <1> DEFINE t == thread[Callback].task
  <1>1. Callback \in Thread /\ thread[Callback] \in ThreadType
    BY DEF Thread, TypeInv, TypeOK, ThreadType
  <1>2. \A frame \in ThreadType :
          thread' = [thread EXCEPT ![Callback] = frame] => thread' \in [Thread -> ThreadType]
    BY <1>1 DEF TypeInv, TypeOK, ThreadType
  <1>3. CASE HandleSignal(u)
    <2>1. thread' = [thread EXCEPT ![Callback] = Frame("visit", u, "drain")]
      BY <1>3 DEF HandleSignal, Work
    <2>2. Frame("visit", u, "drain") \in ThreadType /\ Frame("visit", u, "drain").task = u
      BY DEF Frame, ThreadType, Label, Via
    <2>3. /\ state' \in [Task -> State]
          /\ todo' \subseteq Task /\ registered' \subseteq registered
      BY <1>3
      DEF HandleSignal, TypeInv, TypeOK, State, UNINITIALIZED, EXECUTED, COMPLETED
    <2>4. TypeOK'
      BY <1>2, <1>3, <2>1, <2>2, <2>3
      DEF HandleSignal, HandlerLeavesUnchanged, TypeInv, TypeOK, groupVars, deviceVars,
          ThreadType
    <2>5. ThreadsNameTasks' /\ SignalsAssigned'
      BY <1>1, <1>3, <2>1, <2>2, <2>3
      DEF HandleSignal, HandlerLeavesUnchanged, TypeInv, TypeOK, ThreadsNameTasks,
          SignalsAssigned, At
    <2>6. QED
      BY <2>4, <2>5 DEF TypeInv
  <1>4. CASE VisitSuccessor(u)
    <2>1. /\ numPredecessors' \in [Task -> Int]
          /\ todo' \subseteq Task
          /\ tempList' \in Seq(Task)
      BY <1>4 DEF VisitSuccessor, TypeInv, TypeOK
    <2>2. TypeOK'
      BY <1>4, <2>1
      DEF VisitSuccessor, HandlerLeavesUnchanged, TypeInv, TypeOK, groupVars, deviceVars
    <2>3. ThreadsNameTasks' /\ SignalsAssigned'
      BY <1>4
      DEF VisitSuccessor, HandlerLeavesUnchanged, TypeInv, ThreadsNameTasks,
          SignalsAssigned, At
    <2>4. QED
      BY <2>2, <2>3 DEF TypeInv
  <1>5. CASE ReleaseResources
    <2>1. t \in Task /\ signalOf[t] \in Signal
      BY <1>1, <1>5
      DEF ReleaseResources, At, TypeInv, ThreadsNameTasks, SignalsAssigned, HandleLabel
    <2>2. /\ thread' = [thread EXCEPT ![Callback] = [thread[Callback] EXCEPT !.at = "complete"]]
          /\ [thread[Callback] EXCEPT !.at = "complete"] \in ThreadType
          /\ [thread[Callback] EXCEPT !.at = "complete"].task = t
      BY <1>1, <1>5 DEF ReleaseResources, Goto, ThreadType, Label
    <2>3. /\ freeSignals' \subseteq Signal
          /\ readyQueue' \in Seq(Task)
          /\ tempList' \in Seq(Task)
      BY <1>5, <2>1 DEF ReleaseResources, TypeInv, TypeOK
    <2>4. freeSegments' \in [Kernel -> SUBSET Nat]
      <3>1. KernelOf[t] \in Kernel /\ segmentOf[t] \in Nat
        BY <2>1, TaskAssumption DEF TypeInv, TypeOK
      <3>2. \/ freeSegments' = freeSegments
            \/ freeSegments' = [freeSegments EXCEPT
                                  ![KernelOf[t]] = freeSegments[KernelOf[t]] \cup {segmentOf[t]}]
        BY <1>5 DEF ReleaseResources
      <3>3. freeSegments \in [Kernel -> SUBSET Nat]
        BY DEF TypeInv, TypeOK
      <3>4. freeSegments[KernelOf[t]] \cup {segmentOf[t]} \in SUBSET Nat
        BY <3>1, <3>3
      <3>5. QED
        BY <3>1, <3>2, <3>3, <3>4
    <2>5. TypeOK'
      BY <1>2, <1>5, <2>2, <2>3, <2>4
      DEF ReleaseResources, HandlerLeavesUnchanged, TypeInv, TypeOK, groupVars,
          deviceVars, ThreadType
    <2>6. ThreadsNameTasks' /\ SignalsAssigned'
      BY <1>1, <1>5, <2>1, <2>2
      DEF ReleaseResources, HandlerLeavesUnchanged, TypeInv, TypeOK, ThreadsNameTasks,
          SignalsAssigned, At
    <2>7. QED
      BY <2>5, <2>6 DEF TypeInv
  <1>6. CASE MarkCompleted
    <2>1. t \in Task
      BY <1>1, <1>6 DEF MarkCompleted, At, TypeInv, ThreadsNameTasks
    <2>2. /\ thread' = [thread EXCEPT ![Callback] = [thread[Callback] EXCEPT !.at = "progress"]]
          /\ [thread[Callback] EXCEPT !.at = "progress"] \in ThreadType
          /\ [thread[Callback] EXCEPT !.at = "progress"].task = t
          /\ [thread[Callback] EXCEPT !.at = "progress"].at = "progress"
      BY <1>1, <1>6 DEF MarkCompleted, Goto, ThreadType, Label
    <2>3. state' \in [Task -> State]
      BY <1>6, <2>1
      DEF MarkCompleted, TypeInv, TypeOK, State, UNINITIALIZED, COMPLETED
    <2>4. TypeOK'
      BY <1>2, <1>6, <2>2, <2>3
      DEF MarkCompleted, HandlerLeavesUnchanged, TypeInv, TypeOK, groupVars,
          deviceVars, handlerVars, ThreadType
    <2>5. ThreadsNameTasks' /\ SignalsAssigned'
      BY <1>1, <1>6, <2>1, <2>2
      DEF MarkCompleted, HandlerLeavesUnchanged, TypeInv, TypeOK, ThreadsNameTasks,
          SignalsAssigned, At, DispatchLabel, HandleLabel
    <2>6. QED
      BY <2>4, <2>5 DEF TypeInv
  <1>7. CASE DoProgress
    <2>1. t \in Task
      BY <1>1, <1>7 DEF DoProgress, At, TypeInv, ThreadsNameTasks
    <2>2. PICK frame \in ThreadType :
            /\ thread' = [thread EXCEPT ![Callback] = frame]
            /\ frame.task = t /\ frame.at \in {"front", "pop"}
      <3>1. /\ Frame("front", t, "front") \in ThreadType
            /\ Frame("front", t, "front").task = t
            /\ Frame("front", t, "front").at = "front"
        BY <2>1 DEF Frame, ThreadType, Label, Via
      <3>2. /\ [thread[Callback] EXCEPT !.at = "pop"] \in ThreadType
            /\ [thread[Callback] EXCEPT !.at = "pop"].task = t
            /\ [thread[Callback] EXCEPT !.at = "pop"].at = "pop"
        BY <1>1 DEF ThreadType, Label
      <3>3. \/ thread' = [thread EXCEPT ![Callback] = Frame("front", t, "front")]
            \/ thread' = [thread EXCEPT ![Callback] =
                           [thread[Callback] EXCEPT !.at = "pop"]]
        BY <1>7 DEF DoProgress, Work, Goto
      <3>4. QED
        BY <3>1, <3>2, <3>3
    <2>3. budget' \in Nat
      BY <1>7 DEF DoProgress, DrainBudget, TypeInv, TypeOK
    <2>4. TypeOK'
      BY <1>2, <1>7, <2>2, <2>3
      DEF DoProgress, HandlerLeavesUnchanged, TypeInv, TypeOK, groupVars, deviceVars,
          ThreadType
    <2>5. ThreadsNameTasks' /\ SignalsAssigned'
      BY <1>1, <1>7, <2>1, <2>2
      DEF DoProgress, HandlerLeavesUnchanged, TypeInv, TypeOK, ThreadsNameTasks,
          SignalsAssigned, At, DispatchLabel, HandleLabel
    <2>6. QED
      BY <2>4, <2>5 DEF TypeInv
  <1>8. CASE PopReady
    <2>1. /\ readyQueue' \in Seq(Task) /\ budget' \in Nat
          /\ \E frame \in ThreadType :
               /\ thread' = [thread EXCEPT ![Callback] = frame]
               /\ frame.at \in {"idle", "try"}
               /\ frame.at = "try" => frame.task \in Task
      <3>1. CASE budget > 0 /\ readyQueue # <<>>
        <4>1. /\ thread' = [thread EXCEPT ![Callback] = Frame("try", Head(readyQueue), "drain")]
              /\ readyQueue' = Tail(readyQueue) /\ budget' = budget - 1
          BY <1>8, <3>1 DEF PopReady, Work
        <4>2. /\ Head(readyQueue) \in Task /\ readyQueue' \in Seq(Task)
              /\ budget' \in Nat
          BY <3>1, <4>1 DEF TypeInv, TypeOK
        <4>3. /\ Frame("try", Head(readyQueue), "drain") \in ThreadType
              /\ Frame("try", Head(readyQueue), "drain").task = Head(readyQueue)
              /\ Frame("try", Head(readyQueue), "drain").at = "try"
          BY <4>2 DEF Frame, ThreadType, Label, Via
        <4>4. QED
          BY <4>1, <4>2, <4>3
      <3>2. CASE ~(budget > 0 /\ readyQueue # <<>>)
        <4>1. /\ thread' = [thread EXCEPT ![Callback] = Idle]
              /\ readyQueue' = readyQueue /\ budget' = 0
          BY <1>8, <3>2 DEF PopReady, Rest
        <4>2. Idle \in ThreadType /\ Idle.at = "idle"
          BY DEF Idle, Frame, ThreadType, Label, Via
        <4>3. QED
          BY <4>1, <4>2 DEF TypeInv, TypeOK
      <3>3. QED
        BY <3>1, <3>2
    <2>2. PICK frame \in ThreadType :
            /\ thread' = [thread EXCEPT ![Callback] = frame]
            /\ frame.at \in {"idle", "try"}
            /\ frame.at = "try" => frame.task \in Task
      BY <2>1
    <2>3. TypeOK'
      BY <1>2, <1>8, <2>1, <2>2
      DEF PopReady, HandlerLeavesUnchanged, TypeInv, TypeOK, groupVars, deviceVars,
          ThreadType
    <2>4. ThreadsNameTasks' /\ SignalsAssigned'
      BY <1>1, <1>8, <2>2
      DEF PopReady, HandlerLeavesUnchanged, TypeInv, TypeOK, ThreadsNameTasks,
          SignalsAssigned, At, DispatchLabel, HandleLabel
    <2>5. QED
      BY <2>3, <2>4 DEF TypeInv
  <1>9. QED
    BY <1>3, <1>4, <1>5, <1>6, <1>7, <1>8

LEMMA TypeStep == TypeInv /\ [Next]_vars => TypeInv'
  <1> SUFFICES ASSUME TypeInv, [Next]_vars PROVE TypeInv'
    OBVIOUS
  <1>1. ASSUME NEW a \in App, Call(a) \/ AppStep(a) PROVE TypeInv'
    <2>1. a \in Thread
      BY DEF Thread
    <2>2. QED
      BY <1>1, <2>1, CallType, TakeFrontType, TryType, DispatchType DEF AppStep
  <1>2. CASE Handler
    <2>1. Callback \in Thread
      BY DEF Thread
    <2>2. CASE \/ \E u \in Task : HandleSignal(u) \/ VisitSuccessor(u)
               \/ MarkCompleted \/ ReleaseResources \/ DoProgress \/ PopReady
      <3>1. CASE \E u \in Task : HandleSignal(u) \/ VisitSuccessor(u)
        BY <3>1, HandlerType
      <3>2. CASE MarkCompleted \/ ReleaseResources \/ DoProgress \/ PopReady
        <4>1. thread[Callback].task \in Task
          BY <2>1, <3>2
          DEF MarkCompleted, ReleaseResources, DoProgress, PopReady, At, TypeInv,
              ThreadsNameTasks
        <4>2. QED
          BY <3>2, <4>1, HandlerType
      <3>3. QED
        BY <2>2, <3>1, <3>2
    <2>3. QED
      BY <1>2, <2>1, <2>2, TakeFrontType, TryType, DispatchType DEF Handler
  <1>3. ASSUME NEW t \in Task, Device(t) PROVE TypeInv'
    BY <1>3, DeviceType
  <1>4. CASE UNCHANGED vars
    BY <1>4
    DEF vars, taskVars, heldVars, groupVars, deviceVars, handlerVars, TypeInv, TypeOK,
        ThreadsNameTasks, SignalsAssigned, At
  <1>5. CASE Finished
    BY <1>4, <1>5 DEF Finished
  <1>6. QED
    BY <1>1, <1>2, <1>3, <1>4, <1>5 DEF Next

(***************************************************************************)
(* Type correctness, for every program: in particular the counters that    *)
(* the API, the handler and the devices update concurrently stay integers, *)
(* a thread that leaves the idle state always has a task, and a released   *)
(* signal is one of FreeSignalPool.                                        *)
(***************************************************************************)
THEOREM TypeCorrect == Spec => []TypeOK
  <1>1. Spec => []TypeInv
    BY TypeInit, TypeStep, PTL DEF Spec
  <1>2. TypeInv => TypeOK
    BY DEF TypeInv
  <1>3. QED
    BY <1>1, <1>2, PTL

-------------------------------------------------------------------------------
(***************************************************************************)
(* Ownership.  The pieces of OwnershipInv are proved action by action.     *)
(***************************************************************************)
LEMMA OwnershipInit ==
  ASSUME CreatedUnordered, Init
  PROVE  OwnershipInv
  <1> USE TaskAssumption, PoolAssumption, ThreadAssumption
  <1>1. TypeInv
    BY TypeInit
  <1>2. CreationPrivate
    BY DEF Init, CreationPrivate, At, Idle, Frame
  <1>3. OneOwner
    BY DEF Init, OneOwner, At, Idle, Frame, DispatchLabel, HandleLabel
  <1>4. PacketsInFlight
    BY DEF Init, PacketsInFlight, At, Idle, Frame
  <1>5. SignalsExclusive /\ SegmentsExclusive
    BY DEF Init, SignalsExclusive, SegmentsExclusive, Holds, UNINITIALIZED, READY,
           EXECUTED
  <1>6. QED
    BY <1>1, <1>2, <1>3, <1>4, <1>5 DEF OwnershipInv

(***************************************************************************)
(* Most steps move no resource and change no owner: the tasks in flight    *)
(* stay the same, and a thread at a dispatch or handler step was at one    *)
(* before, on the same task.                                               *)
(***************************************************************************)
SameOwners ==
  /\ UNCHANGED <<signalOf, segmentOf, freeSignals, freeSegments, signalValue,
                 packetsLeft, registered>>
  /\ \A t \in Task :
       \/ state'[t] = state[t]
       \/ state[t] < READY /\ state'[t] < READY
       \/ state[t] \in {READY, DISPATCHED} /\ state'[t] \in {READY, DISPATCHED}
  /\ \A i \in Thread :
       /\ thread'[i].at \in DispatchLabel =>
            thread[i].at \in DispatchLabel /\ thread'[i].task = thread[i].task
       /\ thread'[i].at \in HandleLabel => thread'[i] = thread[i]
       /\ thread[i].at = "complete" => thread'[i] = thread[i]
       /\ thread'[i].at = "spawn" => thread'[i] = thread[i]

LEMMA SameOwnersKept ==
  ASSUME OwnershipInv, TypeInv', SameOwners
  PROVE  /\ OneOwner' /\ SignalsExclusive' /\ SegmentsExclusive'
         /\ copier' = copier => PacketsInFlight'
  <1>1. /\ Callback \in Thread /\ state \in [Task -> State] /\ state' \in [Task -> State]
        /\ \A i \in Thread : thread[i].at # "idle" => thread[i].task \in Task
    BY DEF Thread, OwnershipInv, TypeInv, TypeOK, ThreadsNameTasks, At
  <1>2. InFlight' = InFlight
    BY <1>1 DEF SameOwners, InFlight, State, UNINITIALIZED, READY, DISPATCHED, COMPLETED
  <1>3. \A t \in Task : Holds(t)' <=> Holds(t)
    BY <1>1
    DEF SameOwners, Holds, Released, At, HandleLabel, State, UNINITIALIZED, READY,
        DISPATCHED, EXECUTED, COMPLETED
  <1>4. OneOwner'
    <2>1. \A i \in Thread : thread'[i].at \in DispatchLabel =>
            thread'[i].task \in InFlight' \ registered'
      BY <1>2 DEF SameOwners, OwnershipInv, OneOwner
    <2>2. \A i, j \in Thread :
            /\ thread'[i].at \in DispatchLabel /\ thread'[j].at \in DispatchLabel
            /\ thread'[i].task = thread'[j].task
            => i = j
      BY DEF SameOwners, OwnershipInv, OneOwner
    <2>3. registered' \subseteq InFlight'
      BY <1>2 DEF SameOwners, OwnershipInv, OneOwner
    <2>4. \A i \in Thread : thread'[i].at \in HandleLabel =>
            i = Callback /\ state'[thread'[i].task] = EXECUTED
      <3> SUFFICES ASSUME NEW i \in Thread, thread'[i].at \in HandleLabel
                   PROVE  i = Callback /\ state'[thread'[i].task] = EXECUTED
        OBVIOUS
      <3>1. thread'[i] = thread[i] /\ thread[i].task \in Task
        BY <1>1 DEF SameOwners, HandleLabel
      <3>2. i = Callback /\ state[thread[i].task] = EXECUTED
        BY <3>1 DEF OwnershipInv, OneOwner
      <3>3. QED
        BY <3>1, <3>2 DEF SameOwners, READY, DISPATCHED, EXECUTED
    <2>5. QED
      BY <2>1, <2>2, <2>3, <2>4 DEF OneOwner
  <1>5. SignalsExclusive'
    BY <1>3 DEF SameOwners, OwnershipInv, SignalsExclusive
  <1>6. SegmentsExclusive'
    BY <1>3 DEF SameOwners, OwnershipInv, SegmentsExclusive
  <1>7. ASSUME copier' = copier PROVE PacketsInFlight'
    BY <1>2, <1>7 DEF SameOwners, OwnershipInv, PacketsInFlight, At
  <1>8. QED
    BY <1>4, <1>5, <1>6, <1>7

(***************************************************************************)
(* Every step but those of a constructor and of CreateTask deals with      *)
(* known tasks only.                                                       *)
(***************************************************************************)
OnlyKnown ==
  /\ \A t \in Task : \/ handle'[t] = handle[t]
                     \/ t \in Known /\ handle'[t] \in {"returned", "activated"}
  /\ \A t \in Task : state'[t] = state[t] \/ t \in Known
  /\ \A i \in Thread : \/ thread'[i] = thread[i]
                       \/ thread'[i].at = "idle"
                       \/ thread'[i].at # "create" /\ thread'[i].task \in Known

KnownLists(K) ==
  /\ \A p \in Task : andSuccessors[p] \subseteq K
  /\ todo \subseteq K
  /\ readyQueue \in Seq(K)
  /\ tempList \in Seq(K)
  /\ \A g \in Group : runningOrdered[g] \in Seq(Task \ Created)

LEMMA OnlyKnownKept ==
  ASSUME OwnershipInv, OnlyKnown, KnownLists(Known)'
  PROVE  CreationPrivate'
  <1>1. Known' = Known
    BY DEF OnlyKnown, Known
  <1>2. \A i \in Thread : At(i, "create")' => thread'[i] = thread[i]
    BY DEF OnlyKnown, At
  <1>3. \A i \in Thread : At(i, "create")' =>
          thread'[i].task \in Created /\ handle'[thread'[i].task] = "object"
    <2> SUFFICES ASSUME NEW i \in Thread, At(i, "create")'
                 PROVE  thread'[i].task \in Created /\ handle'[thread'[i].task] = "object"
      OBVIOUS
    <2>1. /\ thread[i].task \in Created /\ handle[thread[i].task] = "object"
          /\ thread'[i].task = thread[i].task
      BY <1>2 DEF OwnershipInv, CreationPrivate, At
    <2>2. thread[i].task \in Task \ Known
      BY <2>1, TaskAssumption DEF Known
    <2>3. QED
      BY <2>1, <2>2 DEF OnlyKnown
  <1>4. \A i, j \in Thread :
          /\ At(i, "create")' /\ At(j, "create")'
          /\ thread'[i].task = thread'[j].task
          => i = j
    BY <1>2 DEF OwnershipInv, CreationPrivate, At
  <1>5. \A t \in Task \ Known' : state'[t] = UNINITIALIZED
    BY <1>1 DEF OnlyKnown, OwnershipInv, CreationPrivate
  <1>6. \A i \in Thread : thread'[i].at \notin {"idle", "create"} =>
          thread'[i].task \in Known'
    BY <1>1 DEF OnlyKnown, OwnershipInv, CreationPrivate
  <1>7. QED
    BY <1>3, <1>4, <1>5, <1>6 DEF CreationPrivate, KnownLists

\* What CreationPrivate says of the lists.
LEMMA KnownListsNow == OwnershipInv => KnownLists(Known)
  BY DEF OwnershipInv, CreationPrivate, KnownLists

\* A thread that ends a call of tryDispatch() goes on with a known task.
LEMMA EndTryKnown ==
  ASSUME OwnershipInv, NEW h \in Thread, NEW b \in BOOLEAN,
         thread[h].at \in {"try", "register"}, EndTry(h, b)
  PROVE  /\ thread[h].task \in Known
         /\ \A t \in Task : \/ handle'[t] = handle[t]
                            \/ t \in Known /\ handle'[t] \in {"returned", "activated"}
         /\ \A i \in Thread : i # h => thread'[i] = thread[i]
         /\ thread'[h].at \in {"idle", "pop", "front", "wait"}
         /\ thread'[h].at # "idle" => thread'[h].task \in Known
  <1>1. thread[h].task \in Known /\ thread[h].at # "idle" /\ TypeInv
    BY DEF OwnershipInv, CreationPrivate
  <1>2. QED
    BY <1>1, EndTryMoves

LEMMA KeepForLaterOwners ==
  ASSUME OwnershipInv, NEW h \in Thread, KeepForLater(h)
  PROVE  SameOwners /\ OnlyKnown /\ copier' = copier
  <1> DEFINE t == thread[h].task
  <1>1. /\ thread[h].at = "try" /\ EndTry(h, FALSE)
        /\ state[t] < READY /\ state' = [state EXCEPT ![t] = INITIALIZED]
        /\ UNCHANGED <<signalOf, segmentOf, freeSignals, freeSegments, signalValue,
                       packetsLeft, registered, copier>>
    BY DEF KeepForLater, At, heldVars, TryLeavesUnchanged
  <1>2. /\ t \in Known
        /\ \A u \in Task : \/ handle'[u] = handle[u]
                           \/ u \in Known /\ handle'[u] \in {"returned", "activated"}
        /\ \A i \in Thread : i # h => thread'[i] = thread[i]
        /\ thread'[h].at \in {"idle", "pop", "front", "wait"}
        /\ thread'[h].at # "idle" => thread'[h].task \in Known
    BY <1>1, EndTryKnown
  <1>3. state \in [Task -> State]
    BY DEF OwnershipInv, TypeInv, TypeOK
  <1>4. \A u \in Task : \/ state'[u] = state[u]
                       \/ /\ u \in Known
                          /\ state[u] < READY /\ state'[u] < READY
    BY <1>1, <1>2, <1>3 DEF READY, INITIALIZED
  <1>5. SameOwners
    BY <1>1, <1>2, <1>4 DEF SameOwners, DispatchLabel, HandleLabel
  <1>6. OnlyKnown
    BY <1>2, <1>4 DEF OnlyKnown
  <1>7. QED
    BY <1>1, <1>5, <1>6

LEMMA FailedTryOwnership ==
  ASSUME CreatedUnordered, OwnershipInv, NEW h \in Thread,
         \/ TryTaken(h) \/ TryWaitsForRequired(h) \/ TryWaitsForPrevious(h)
         \/ TryLacksResources(h)
  PROVE  OwnershipInv'
  <1> DEFINE t == thread[h].task
  <1>1. TypeInv'
    BY TryType DEF TryDispatch, OwnershipInv
  <1>2. SameOwners /\ OnlyKnown /\ copier' = copier
    <2>1. CASE TryTaken(h)
      <3>1. /\ thread[h].at = "try" /\ EndTry(h, FALSE)
            /\ UNCHANGED <<state, signalOf, segmentOf, freeSignals, freeSegments,
                           signalValue, packetsLeft, registered, copier>>
        BY <2>1 DEF TryTaken, At, heldVars, TryLeavesUnchanged
      <3>2. /\ \A u \in Task : \/ handle'[u] = handle[u]
                               \/ u \in Known /\ handle'[u] \in {"returned", "activated"}
            /\ \A i \in Thread : i # h => thread'[i] = thread[i]
            /\ thread'[h].at \in {"idle", "pop", "front", "wait"}
            /\ thread'[h].at # "idle" => thread'[h].task \in Known
        BY <3>1, EndTryKnown
      <3>3. QED
        BY <3>1, <3>2 DEF SameOwners, OnlyKnown, DispatchLabel, HandleLabel
    <2>2. CASE KeepForLater(h)
      BY <2>2, KeepForLaterOwners
    <2>3. QED
      BY <2>1, <2>2 DEF TryWaitsForRequired, TryWaitsForPrevious, TryLacksResources
  <1>3. Known' = Known /\ t \in Known /\ KnownLists(Known) /\ t \in Task
    <2>1. thread[h].at = "try"
      BY DEF TryTaken, TryWaitsForRequired, TryWaitsForPrevious, TryLacksResources,
             KeepForLater, At
    <2>2. t \in Known
      BY <2>1 DEF OwnershipInv, CreationPrivate
    <2>3. QED
      BY <1>2, <2>2, KnownListsNow DEF OnlyKnown, Known
  <1>4. \A p \in Task : andSuccessors'[p] \subseteq Known
    <2>1. CASE UNCHANGED andSuccessors
      BY <1>3, <2>1 DEF KnownLists
    <2>2. CASE \E P \in SUBSET Task : LinkTo(P, t)
      <3>1. \A p \in Task : andSuccessors'[p] \subseteq andSuccessors[p] \cup {t}
        BY <1>3, <2>2, LinkToType DEF OwnershipInv, TypeInv
      <3>2. QED
        BY <1>3, <3>1 DEF KnownLists
    <2>3. WaitsFor(t) \in SUBSET Task
      BY <1>3, TaskAssumption DEF WaitsFor, Unfinished
    <2>4. TryWaitsForPrevious(h) => {prevOrdered[t]} \in SUBSET Task
      BY <1>3 DEF TryWaitsForPrevious, PrevBlocks, OwnershipInv, TypeInv, TypeOK
    <2>5. QED
      BY <2>1, <2>2, <2>3, <2>4
      DEF TryTaken, TryWaitsForRequired, TryWaitsForPrevious, TryLacksResources,
          LinkToPrevious
  <1>5. readyQueue' \in Seq(Known)
    <2>1. readyQueue' = readyQueue \/ readyQueue' = Append(readyQueue, t)
      BY DEF TryTaken, TryWaitsForRequired, TryWaitsForPrevious, TryLacksResources,
             QueueForResources
    <2>2. QED
      BY <1>3, <2>1 DEF KnownLists
  <1>6. UNCHANGED <<todo, tempList, runningOrdered>>
    BY DEF TryTaken, TryWaitsForRequired, TryWaitsForPrevious, TryLacksResources,
           KeepForLater, TryLeavesUnchanged, handlerVars
  <1>7. KnownLists(Known)'
    BY <1>3, <1>4, <1>5, <1>6 DEF KnownLists
  <1>8. QED
    BY <1>1, <1>2, <1>7, SameOwnersKept, OnlyKnownKept DEF OwnershipInv

(***************************************************************************)
(* A successful attempt takes a free signal and a free segment, which no   *)
(* task in flight holds, for a task that nobody dispatches or handles.     *)
(***************************************************************************)
LEMMA TryAcquiresOwnership ==
  ASSUME CreatedUnordered, OwnershipInv, NEW h \in Thread, TryAcquires(h)
  PROVE  OwnershipInv'
  <1> DEFINE t == thread[h].task
  <1>1. TypeInv' /\ TypeOK /\ Callback \in Thread
    BY TryType DEF TryDispatch, OwnershipInv, TypeInv, Thread
  <1>2. /\ thread[h].at = "try" /\ t \in Known /\ t \in Task
        /\ state[t] < READY /\ state' = [state EXCEPT ![t] = READY]
        /\ packetsLeft' = [packetsLeft EXCEPT ![t] = Packets[t]]
        /\ UNCHANGED <<handle, andSuccessors, readyQueue, todo, tempList, copier,
                       registered>>
    <2>1. thread[h].at = "try"
      BY DEF TryAcquires, At
    <2>2. t \in Known /\ t \in Task
      BY <2>1 DEF OwnershipInv, CreationPrivate, Known
    <2>3. QED
      BY <2>1, <2>2 DEF TryAcquires, AcquireAqlPacket, Dispatchable, TryLeavesUnchanged, handlerVars
  <1>3. PICK label \in {"mark", "publish", "spawn"} :
          /\ thread' = [thread EXCEPT ![h] = [thread[h] EXCEPT !.at = label]]
          /\ label = "spawn" => KindOf[t] = "staged"
    <2>1. KindOf[t] \in Kind
      BY <1>2, TaskAssumption
    <2>2. /\ FirstDispatchStep(t) \in {"mark", "publish", "spawn"}
          /\ FirstDispatchStep(t) = "spawn" => KindOf[t] = "staged"
      BY <2>1 DEF FirstDispatchStep, Kind
    <2>3. thread' = [thread EXCEPT ![h] = [thread[h] EXCEPT !.at = FirstDispatchStep(t)]]
      BY DEF TryAcquires, Goto
    <2>4. QED
      BY <2>2, <2>3
  <1>4. /\ \A i \in Thread : i # h => thread'[i] = thread[i]
        /\ thread'[h].at = label /\ thread'[h].task = t
    BY <1>1, <1>3 DEF TypeOK
  <1>5. /\ state \in [Task -> State] /\ packetsLeft \in [Task -> Int]
        /\ Packets[t] \in Nat \ {0}
        /\ \A i \in Thread : thread[i].at # "idle" => thread[i].task \in Task
        /\ \A u \in Task : u # t => state'[u] = state[u] /\ packetsLeft'[u] = packetsLeft[u]
        /\ state'[t] = READY /\ packetsLeft'[t] = Packets[t]
    <2>1. Packets[t] \in Nat \ {0}
      BY <1>2, TaskAssumption
    <2>2. \A i \in Thread : thread[i].at # "idle" => thread[i].task \in Task
      BY DEF OwnershipInv, TypeInv, ThreadsNameTasks, At
    <2>3. QED
      BY <1>1, <1>2, <2>1, <2>2 DEF TypeOK
  <1>6. InFlight' = InFlight \cup {t} /\ t \notin InFlight
    BY <1>2, <1>5 DEF InFlight, State, READY, DISPATCHED
  <1>7. OneOwner'
    <2>1. \A i \in Thread : thread[i].at \in DispatchLabel => thread[i].task \in InFlight \ registered
      BY DEF OwnershipInv, OneOwner
    <2>2. t \notin registered /\ registered \subseteq InFlight
      BY <1>6 DEF OwnershipInv, OneOwner
    <2>3. \A i \in Thread : thread'[i].at \in DispatchLabel =>
            thread'[i].task \in InFlight' \ registered'
      BY <1>2, <1>4, <1>6, <2>1, <2>2
    <2>4. \A i, j \in Thread :
            /\ thread'[i].at \in DispatchLabel /\ thread'[j].at \in DispatchLabel
            /\ thread'[i].task = thread'[j].task
            => i = j
      BY <1>4, <1>6, <2>1 DEF OwnershipInv, OneOwner
    <2>5. registered' \subseteq InFlight'
      BY <1>2, <1>6, <2>2
    <2>6. \A i \in Thread : thread'[i].at \in HandleLabel =>
            i = Callback /\ state'[thread'[i].task] = EXECUTED
      <3> SUFFICES ASSUME NEW i \in Thread, thread'[i].at \in HandleLabel
                   PROVE  i = Callback /\ state'[thread'[i].task] = EXECUTED
        OBVIOUS
      <3>1. i # h /\ thread'[i] = thread[i]
        BY <1>4 DEF HandleLabel
      <3>2. i = Callback /\ state[thread[i].task] = EXECUTED /\ thread[i].task \in Task
        BY <1>5, <3>1 DEF OwnershipInv, OneOwner, HandleLabel
      <3>3. QED
        BY <1>2, <1>5, <3>1, <3>2 DEF EXECUTED, READY
    <2>7. QED
      BY <2>3, <2>4, <2>5, <2>6 DEF OneOwner
  <1>8. PacketsInFlight'
    <2>1. copier[t] = "none"
      BY <1>2, <1>6 DEF OwnershipInv, PacketsInFlight
    <2>2. \A u \in Task :
            /\ packetsLeft'[u] >= 0
            /\ packetsLeft'[u] > 0 => u \in InFlight'
            /\ copier'[u] # "none" => KindOf[u] = "staged" /\ packetsLeft'[u] > 0
      BY <1>2, <1>5, <1>6, <2>1 DEF OwnershipInv, PacketsInFlight
    <2>3. \A i \in Thread : thread'[i].at = "spawn" =>
            /\ KindOf[thread'[i].task] = "staged" /\ packetsLeft'[thread'[i].task] > 0
            /\ copier'[thread'[i].task] = "none"
      <3> SUFFICES ASSUME NEW i \in Thread, thread'[i].at = "spawn"
                   PROVE  /\ KindOf[thread'[i].task] = "staged"
                          /\ packetsLeft'[thread'[i].task] > 0
                          /\ copier'[thread'[i].task] = "none"
        OBVIOUS
      <3>1. CASE i = h
        BY <1>2, <1>3, <1>4, <1>5, <2>1, <3>1
      <3>2. CASE i # h
        <4>1. thread'[i] = thread[i] /\ thread[i].at = "spawn" /\ thread[i].task \in Task
          BY <1>4, <1>5, <3>2
        <4>2. thread[i].task \in InFlight
          BY <4>1 DEF OwnershipInv, OneOwner, DispatchLabel
        <4>3. QED
          BY <1>2, <1>5, <1>6, <4>1, <4>2 DEF OwnershipInv, PacketsInFlight, At
      <3>3. QED
        BY <3>1, <3>2
    <2>4. QED
      BY <2>2, <2>3 DEF PacketsInFlight, At
  <1>9. /\ ~Holds(t)
        /\ \A u \in Task : u # t => (Holds(u)' <=> Holds(u))
    <2>1. \A u \in Task : u # t => (Released(u)' <=> Released(u))
      BY <1>1, <1>2, <1>4 DEF Released, At
    <2>2. ~Holds(t)
      BY <1>2, <1>5 DEF Holds, State, READY, EXECUTED
    <2>3. QED
      BY <1>5, <2>1, <2>2 DEF Holds
  <1>10. SignalsExclusive'
    <2>1. PICK s \in freeSignals : TakeSignal(t, s) /\ AcquireAqlPacket(t, s)
      BY DEF TryAcquires
    <2>2. /\ s \in Signal /\ signalValue[s] = 0
          /\ signalOf'[t] = s /\ \A u \in Task : u # t => signalOf'[u] = signalOf[u]
          /\ freeSignals' = freeSignals \ {s}
          /\ signalValue'[s] = Packets[t]
          /\ \A r \in Signal : r # s => signalValue'[r] = signalValue[r]
      BY <1>1, <1>2, <1>5, <2>1 DEF TakeSignal, AcquireAqlPacket, TypeOK, OwnershipInv, SignalsExclusive
    <2>3. \A u \in Task : u # t /\ Holds(u) =>
            signalOf[u] \in Signal \ freeSignals /\ signalOf[u] # s
      BY <2>1 DEF OwnershipInv, SignalsExclusive
    <2>4. \A u \in Task : Holds(u)' =>
            /\ signalOf'[u] \in Signal \ freeSignals'
            /\ signalValue'[signalOf'[u]] = packetsLeft'[u]
      BY <1>5, <1>9, <2>2, <2>3 DEF OwnershipInv, SignalsExclusive
    <2>5. \A u, v \in Task :
            Holds(u)' /\ Holds(v)' /\ signalOf'[u] = signalOf'[v] => u = v
      BY <1>9, <2>2, <2>3 DEF OwnershipInv, SignalsExclusive
    <2>6. \A r \in freeSignals' : signalValue'[r] = 0
      BY <1>1, <2>2 DEF TypeOK, OwnershipInv, SignalsExclusive
    <2>7. QED
      BY <2>4, <2>5, <2>6 DEF SignalsExclusive
  <1>11. SegmentsExclusive'
    <2>1. CASE IsKernel(t)
      <3>1. PICK x \in freeSegments[KernelOf[t]] :
              /\ segmentOf' = [segmentOf EXCEPT ![t] = x]
              /\ freeSegments' = [freeSegments EXCEPT
                                    ![KernelOf[t]] = freeSegments[KernelOf[t]] \ {x}]
        BY <2>1 DEF TryAcquires
      <3>2. /\ segmentOf'[t] = x
            /\ \A u \in Task : u # t => segmentOf'[u] = segmentOf[u]
            /\ \A k \in Kernel : freeSegments'[k] =
                 IF k = KernelOf[t] THEN freeSegments[k] \ {x} ELSE freeSegments[k]
        BY <1>1, <1>2, <3>1 DEF TypeOK
      <3>3. \A u \in Task : KernelOf[u] \in Kernel
        BY TaskAssumption
      <3>4. x \in 1..SegmentCount[KernelOf[t]]
        BY <1>2, <3>1, <3>3 DEF OwnershipInv, SegmentsExclusive
      <3>5. \A u \in Task : Holds(u)' /\ IsKernel(u) =>
              segmentOf'[u] \in (1..SegmentCount[KernelOf[u]]) \ freeSegments'[KernelOf[u]]
        BY <1>9, <3>2, <3>3, <3>4 DEF OwnershipInv, SegmentsExclusive
      <3>6. \A u, v \in Task :
              /\ Holds(u)' /\ Holds(v)' /\ IsKernel(u) /\ IsKernel(v)
              /\ KernelOf[u] = KernelOf[v] /\ segmentOf'[u] = segmentOf'[v]
              => u = v
        BY <1>9, <3>1, <3>2 DEF OwnershipInv, SegmentsExclusive
      <3>7. \A k \in Kernel : freeSegments'[k] \subseteq 1..SegmentCount[k]
        BY <3>2 DEF OwnershipInv, SegmentsExclusive
      <3>8. QED
        BY <3>5, <3>6, <3>7 DEF SegmentsExclusive, IsKernel
    <2>2. CASE ~IsKernel(t)
      <3>1. UNCHANGED <<segmentOf, freeSegments>>
        BY <2>2 DEF TryAcquires
      <3>2. QED
        BY <1>9, <2>2, <3>1 DEF OwnershipInv, SegmentsExclusive, IsKernel
    <2>3. QED
      BY <2>1, <2>2
  <1>12. CreationPrivate'
    <2>1. OnlyKnown
      BY <1>2, <1>4, <1>5 DEF OnlyKnown
    <2>2. \A g \in Group : runningOrdered'[g] \in Seq(Task \ Created)
      <3>1. \A q \in Seq(Task \ Created) : SubSeq(q, 2, Len(q)) \in Seq(Task \ Created)
        OBVIOUS
      <3>2. \A g \in Group : runningOrdered'[g] \in {runningOrdered[g],
              SubSeq(runningOrdered[g], 2, Len(runningOrdered[g]))}
        BY <1>1 DEF TryAcquires, TypeOK
      <3>3. QED
        BY <3>1, <3>2, KnownListsNow DEF KnownLists
    <2>3. Known' = Known
      BY <1>2 DEF Known
    <2>4. KnownLists(Known)'
      BY <1>2, <2>2, <2>3, KnownListsNow DEF KnownLists
    <2>5. QED
      BY <2>1, <2>4, OnlyKnownKept
  <1>13. QED
    BY <1>1, <1>7, <1>8, <1>10, <1>11, <1>12
    DEF OwnershipInv

(***************************************************************************)
(* After the attempt: the dispatcher is the one owner of its task until it *)
(* has registered the handler.                                             *)
(***************************************************************************)
LEMMA DispatchOwnership ==
  ASSUME CreatedUnordered, OwnershipInv, NEW h \in Thread, Dispatch(h)
  PROVE  OwnershipInv'
  <1> DEFINE t == thread[h].task
  <1>1. TypeInv' /\ TypeOK /\ Callback \in Thread
    BY DispatchType DEF OwnershipInv, TypeInv, Thread
  <1>2. /\ thread[h].at \in {"mark", "publish", "spawn", "register", "wait"}
        /\ t \in Known /\ t \in Task
        /\ UNCHANGED <<andSuccessors, todo, readyQueue, tempList, runningOrdered,
                       signalOf, segmentOf, freeSignals, freeSegments, signalValue,
                       packetsLeft>>
    <2>1. thread[h].at \in {"mark", "publish", "spawn", "register", "wait"}
      BY DEF Dispatch, MarkDispatched, Publish, SpawnCopier, RegisterHandler,
             WaitCompleted, At
    <2>2. t \in Known /\ t \in Task
      BY <2>1 DEF OwnershipInv, CreationPrivate, Known
    <2>3. DispatchLeavesUnchanged
      BY DEF Dispatch, MarkDispatched, Publish, SpawnCopier, RegisterHandler,
             WaitCompleted
    <2>4. QED
      BY <2>1, <2>2, <2>3
      DEF DispatchLeavesUnchanged, heldVars, groupVars, handlerVars
  <1>3. thread[h].at \in DispatchLabel => t \in InFlight /\ t \notin registered
    BY DEF OwnershipInv, OneOwner
  <1>4. ASSUME OnlyKnown PROVE CreationPrivate'
    <2>1. Known' = Known
      BY <1>4 DEF OnlyKnown, Known
    <2>2. KnownLists(Known)'
      BY <1>2, <2>1, KnownListsNow DEF KnownLists
    <2>3. QED
      BY <1>4, <2>2, OnlyKnownKept
  <1>5. CASE MarkDispatched(h)
    <2>1. PICK label \in {"register", "publish"} :
            /\ thread[h].at = "mark"
            /\ thread' = [thread EXCEPT ![h] = [thread[h] EXCEPT !.at = label]]
      BY <1>5 DEF MarkDispatched, Goto, At
    <2>2. /\ \A i \in Thread : i # h => thread'[i] = thread[i]
          /\ thread'[h].at = label /\ thread'[h].task = t
      BY <1>1, <2>1 DEF TypeOK
    <2>3. /\ state' = [state EXCEPT ![t] = DISPATCHED]
          /\ UNCHANGED <<registered, copier, handle>>
      BY <1>5 DEF MarkDispatched
    <2>4. \A u \in Task : \/ state'[u] = state[u]
                         \/ /\ u = t
                            /\ state[u] \in {READY, DISPATCHED}
                            /\ state'[u] \in {READY, DISPATCHED}
      BY <1>1, <1>2, <1>3, <2>1, <2>3 DEF TypeOK, InFlight, DispatchLabel
    <2>5. SameOwners
      BY <1>2, <2>1, <2>2, <2>3, <2>4 DEF SameOwners, DispatchLabel, HandleLabel
    <2>6. OnlyKnown
      BY <1>2, <2>2, <2>3, <2>4 DEF OnlyKnown
    <2>7. QED
      BY <1>1, <1>4, <2>3, <2>5, <2>6, SameOwnersKept DEF OwnershipInv
  <1>6. CASE Publish(h)
    <2>1. PICK label \in {"register", "mark"} :
            /\ thread[h].at = "publish"
            /\ thread' = [thread EXCEPT ![h] = [thread[h] EXCEPT !.at = label]]
      BY <1>6 DEF Publish, Goto, At
    <2>2. /\ \A i \in Thread : i # h => thread'[i] = thread[i]
          /\ thread'[h].at = label /\ thread'[h].task = t
      BY <1>1, <2>1 DEF TypeOK
    <2>3. UNCHANGED <<state, registered, copier, handle>>
      BY <1>6 DEF Publish
    <2>4. SameOwners
      BY <1>2, <2>1, <2>2, <2>3 DEF SameOwners, DispatchLabel, HandleLabel
    <2>5. OnlyKnown
      BY <1>2, <2>2, <2>3 DEF OnlyKnown
    <2>6. QED
      BY <1>1, <1>4, <2>3, <2>4, <2>5, SameOwnersKept DEF OwnershipInv
  <1>7. CASE SpawnCopier(h)
    <2>1. /\ thread[h].at = "spawn"
          /\ thread' = [thread EXCEPT ![h] = [thread[h] EXCEPT !.at = "register"]]
      BY <1>7 DEF SpawnCopier, Goto, At
    <2>2. /\ \A i \in Thread : i # h => thread'[i] = thread[i]
          /\ thread'[h].at = "register" /\ thread'[h].task = t
      BY <1>1, <2>1 DEF TypeOK
    <2>3. /\ UNCHANGED <<state, registered, handle>>
          /\ \A u \in Task : u # t => copier'[u] = copier[u]
      BY <1>1, <1>7 DEF SpawnCopier, TypeOK
    <2>4. SameOwners
      BY <1>2, <2>1, <2>2, <2>3 DEF SameOwners, DispatchLabel, HandleLabel
    <2>5. OnlyKnown
      BY <1>2, <2>2, <2>3 DEF OnlyKnown
    <2>6. PacketsInFlight'
      <3>1. KindOf[t] = "staged" /\ packetsLeft[t] > 0
        BY <2>1 DEF OwnershipInv, PacketsInFlight, At
      <3>2. \A u \in Task :
              /\ packetsLeft'[u] >= 0
              /\ packetsLeft'[u] > 0 => u \in InFlight'
              /\ copier'[u] # "none" => KindOf[u] = "staged" /\ packetsLeft'[u] > 0
        BY <1>2, <2>3, <3>1 DEF OwnershipInv, PacketsInFlight, InFlight
      <3>3. \A i \in Thread : thread'[i].at = "spawn" =>
              /\ KindOf[thread'[i].task] = "staged" /\ packetsLeft'[thread'[i].task] > 0
              /\ copier'[thread'[i].task] = "none"
        <4> SUFFICES ASSUME NEW i \in Thread, thread'[i].at = "spawn"
                     PROVE  /\ KindOf[thread'[i].task] = "staged"
                            /\ packetsLeft'[thread'[i].task] > 0
                            /\ copier'[thread'[i].task] = "none"
          OBVIOUS
        <4>1. i # h /\ thread'[i] = thread[i] /\ thread[i].at = "spawn"
          BY <2>2
        <4>2. thread[i].task # t
          BY <2>1, <4>1 DEF OwnershipInv, OneOwner, DispatchLabel
        <4>3. thread[i].task \in Task
          BY <4>1 DEF OwnershipInv, TypeInv, ThreadsNameTasks, At
        <4>4. QED
          BY <1>2, <2>3, <4>1, <4>2, <4>3 DEF OwnershipInv, PacketsInFlight, At
      <3>4. QED
        BY <3>2, <3>3 DEF PacketsInFlight, At
    <2>7. QED
      BY <1>1, <1>4, <2>4, <2>5, <2>6, SameOwnersKept DEF OwnershipInv
  <1>8. CASE RegisterHandler(h)
    <2>1. /\ thread[h].at = "register" /\ EndTry(h, TRUE)
          /\ registered' = registered \cup {t}
          /\ UNCHANGED <<state, copier>>
      BY <1>8 DEF RegisterHandler, At
    <2>2. /\ \A u \in Task : \/ handle'[u] = handle[u]
                             \/ u \in Known /\ handle'[u] \in {"returned", "activated"}
          /\ \A i \in Thread : i # h => thread'[i] = thread[i]
          /\ thread'[h].at \in {"idle", "pop", "front", "wait"}
          /\ thread'[h].at # "idle" => thread'[h].task \in Known
      BY <2>1, EndTryKnown
    <2>3. OnlyKnown
      BY <2>1, <2>2 DEF OnlyKnown
    <2>4. InFlight' = InFlight /\ t \in InFlight
      BY <1>3, <2>1 DEF InFlight, DispatchLabel
    <2>5. OneOwner'
      <3>1. \A i \in Thread : thread'[i].at \in DispatchLabel =>
              /\ thread'[i] = thread[i] /\ i # h /\ thread[i].task # t
        BY <2>1, <2>2 DEF OwnershipInv, OneOwner, DispatchLabel
      <3>2. \A i \in Thread : thread'[i].at \in HandleLabel => thread'[i] = thread[i]
        BY <2>2 DEF HandleLabel
      <3>3. QED
        BY <2>1, <2>4, <3>1, <3>2 DEF OwnershipInv, OneOwner
    <2>6. PacketsInFlight'
      <3>1. \A i \in Thread : thread'[i].at = "spawn" => thread'[i] = thread[i]
        BY <2>2
      <3>2. QED
        BY <1>2, <2>1, <2>4, <3>1 DEF OwnershipInv, PacketsInFlight, At
    <2>7. \A u \in Task : Holds(u)' <=> Holds(u)
      BY <1>1, <2>1, <2>2 DEF Holds, Released, At
    <2>8. SignalsExclusive' /\ SegmentsExclusive'
      BY <1>2, <2>7 DEF OwnershipInv, SignalsExclusive, SegmentsExclusive
    <2>9. QED
      BY <1>1, <1>4, <2>3, <2>5, <2>6, <2>8 DEF OwnershipInv
  <1>9. CASE WaitCompleted(h)
    <2>1. /\ thread[h].at = "wait" /\ Resume(h, FALSE)
          /\ UNCHANGED <<state, registered, copier>>
      BY <1>9 DEF WaitCompleted, At
    <2>2. /\ \A i \in Thread : i # h => thread'[i] = thread[i]
          /\ thread'[h].at \in {"idle", "pop"}
          /\ thread'[h].at # "idle" => thread'[h].task = t
      <3>1. \/ thread' = [thread EXCEPT ![h] = [thread[h] EXCEPT !.at = "pop"]]
            \/ thread' = [thread EXCEPT ![h] = Idle]
        BY <2>1 DEF Resume, Goto, Rest
      <3>2. Idle.at = "idle"
        BY DEF Idle, Frame
      <3>3. QED
        BY <1>1, <3>1, <3>2 DEF TypeOK
    <2>3. \A u \in Task : handle'[u] = handle[u] \/ (u = t /\ handle'[u] = "returned")
      BY <1>1, <2>1 DEF Resume, TypeOK
    <2>4. SameOwners
      BY <1>2, <2>1, <2>2 DEF SameOwners, DispatchLabel, HandleLabel
    <2>5. OnlyKnown
      BY <1>2, <2>1, <2>2, <2>3 DEF OnlyKnown
    <2>6. QED
      BY <1>1, <1>4, <2>1, <2>4, <2>5, SameOwnersKept DEF OwnershipInv
  <1>10. QED
    BY <1>5, <1>6, <1>7, <1>8, <1>9 DEF Dispatch

(***************************************************************************)
(* A device or a staging thread only touches the signal of a task in       *)
(* flight, which that task holds.                                          *)
(***************************************************************************)
LEMMA DeviceOwnership ==
  ASSUME CreatedUnordered, OwnershipInv, NEW t \in Task, Device(t)
  PROVE  OwnershipInv'
  <1>1. TypeInv' /\ TypeOK
    BY DeviceType DEF OwnershipInv, TypeInv
  <1>2. UNCHANGED <<handle, andSuccessors, todo, readyQueue, tempList, runningOrdered,
                    signalOf, segmentOf, freeSignals, freeSegments, registered, thread>>
    BY DEF Device, CompletePacket, CopierIssue, CopierMark, CopierFinish,
           DeviceLeavesUnchanged, heldVars, groupVars, handlerVars
  <1>3. packetsLeft[t] > 0 => t \in InFlight /\ Holds(t)
    <2>1. packetsLeft[t] > 0 => t \in InFlight
      BY DEF OwnershipInv, PacketsInFlight
    <2>2. t \in InFlight => Holds(t)
      BY DEF InFlight, Holds, Released, At, OwnershipInv, OneOwner, HandleLabel, Thread,
             READY, DISPATCHED, EXECUTED
    <2>3. QED
      BY <2>1, <2>2
  <1>4. ASSUME \A u \in Task : state'[u] = state[u] \/ u \in Known
        PROVE  CreationPrivate'
    <2>1. OnlyKnown /\ Known' = Known
      BY <1>2, <1>4 DEF OnlyKnown, Known
    <2>2. KnownLists(Known)'
      BY <1>2, <2>1, KnownListsNow DEF KnownLists
    <2>3. QED
      BY <2>1, <2>2, OnlyKnownKept
  <1>5. ASSUME packetsLeft[t] > 0, FinishPacket(t), state' = state
        PROVE  /\ OneOwner' /\ SignalsExclusive' /\ SegmentsExclusive' /\ CreationPrivate'
               /\ packetsLeft'[t] = packetsLeft[t] - 1
               /\ \A u \in Task : u # t => packetsLeft'[u] = packetsLeft[u]
               /\ InFlight' = InFlight
    <2>1. Holds(t) /\ \A u \in Task : Holds(u)' <=> Holds(u)
      BY <1>2, <1>3, <1>5 DEF Holds, Released, At
    <2>2. InFlight' = InFlight
      BY <1>5 DEF InFlight
    <2>3. OneOwner'
      BY <1>2, <1>5, <2>2 DEF OwnershipInv, OneOwner
    <2>4. /\ packetsLeft'[t] = packetsLeft[t] - 1
          /\ \A u \in Task : u # t => packetsLeft'[u] = packetsLeft[u]
      BY <1>1, <1>5 DEF FinishPacket, TypeOK
    <2>5. /\ signalOf[t] \in Signal \ freeSignals
          /\ signalValue[signalOf[t]] = packetsLeft[t]
      BY <2>1 DEF OwnershipInv, SignalsExclusive
    <2>6. /\ signalValue'[signalOf[t]] = signalValue[signalOf[t]] - 1
          /\ \A r \in Signal : r # signalOf[t] => signalValue'[r] = signalValue[r]
      BY <1>1, <1>5, <2>5 DEF FinishPacket, TypeOK
    <2>7. \A u \in Task : Holds(u)' =>
            /\ signalOf'[u] \in Signal \ freeSignals'
            /\ signalValue'[signalOf'[u]] = packetsLeft'[u]
      BY <1>2, <2>1, <2>4, <2>5, <2>6 DEF OwnershipInv, SignalsExclusive
    <2>8. \A r \in freeSignals' : signalValue'[r] = 0
      BY <1>1, <1>2, <2>5, <2>6 DEF OwnershipInv, SignalsExclusive, TypeOK
    <2>9. SignalsExclusive'
      BY <1>2, <2>1, <2>7, <2>8 DEF OwnershipInv, SignalsExclusive
    <2>10. SegmentsExclusive'
      BY <1>2, <2>1 DEF OwnershipInv, SegmentsExclusive
    <2>11. QED
      BY <1>4, <1>5, <2>2, <2>3, <2>4, <2>9, <2>10
  <1>6. CASE CompletePacket(t)
    <2>1. /\ packetsLeft[t] > 0 /\ (KindOf[t] = "staged" => packetsLeft[t] > 1)
          /\ FinishPacket(t) /\ state' = state /\ copier' = copier
      BY <1>1, <1>6 DEF CompletePacket, TypeOK
    <2>2. /\ packetsLeft[t] \in Int /\ packetsLeft'[t] = packetsLeft[t] - 1
          /\ \A u \in Task : u # t => packetsLeft'[u] = packetsLeft[u]
          /\ InFlight' = InFlight /\ t \in InFlight
      BY <1>1, <1>3, <1>5, <2>1 DEF TypeOK
    <2>3. \A u \in Task :
            /\ packetsLeft'[u] >= 0
            /\ packetsLeft'[u] > 0 => u \in InFlight'
            /\ KindOf[u] = "staged" /\ packetsLeft[u] > 0 => packetsLeft'[u] > 0
      BY <2>1, <2>2 DEF OwnershipInv, PacketsInFlight
    <2>4. \A i \in Thread : thread[i].at = "spawn" => thread[i].task \in Task
      BY DEF OwnershipInv, TypeInv, ThreadsNameTasks, At
    <2>5. PacketsInFlight'
      BY <1>2, <2>1, <2>3, <2>4 DEF OwnershipInv, PacketsInFlight, At
    <2>6. QED
      BY <1>1, <1>5, <2>1, <2>5 DEF OwnershipInv
  <1>7. CASE CopierFinish(t)
    <2>1. /\ copier[t] = "marked" /\ copier' = [copier EXCEPT ![t] = "none"]
          /\ FinishPacket(t) /\ state' = state
      BY <1>7 DEF CopierFinish
    <2>2. packetsLeft[t] > 0 /\ packetsLeft[t] \in Int
      BY <1>1, <2>1 DEF OwnershipInv, PacketsInFlight, TypeOK
    <2>3. /\ \A u \in Task : u # t => packetsLeft'[u] = packetsLeft[u] /\ copier'[u] = copier[u]
          /\ copier'[t] = "none" /\ packetsLeft'[t] = packetsLeft[t] - 1
          /\ InFlight' = InFlight
      BY <1>1, <1>5, <2>1, <2>2 DEF TypeOK
    <2>4. \A i \in Thread : thread[i].at = "spawn" => thread[i].task \in Task \ {t}
      BY <2>1 DEF OwnershipInv, PacketsInFlight, TypeInv, ThreadsNameTasks, At
    <2>5. \A u \in Task :
            /\ packetsLeft'[u] >= 0
            /\ packetsLeft'[u] > 0 => u \in InFlight'
            /\ copier'[u] # "none" => KindOf[u] = "staged" /\ packetsLeft'[u] > 0
      BY <2>2, <2>3 DEF OwnershipInv, PacketsInFlight
    <2>6. PacketsInFlight'
      BY <1>2, <2>3, <2>4, <2>5 DEF OwnershipInv, PacketsInFlight, At
    <2>7. QED
      BY <1>1, <1>5, <2>1, <2>2, <2>6 DEF OwnershipInv
  <1>8. CASE CopierIssue(t) \/ CopierMark(t)
    <2>1. /\ copier[t] # "none" /\ copier' \in [Task -> {"none", "spawned", "issued", "marked"}]
          /\ \A u \in Task : u # t => copier'[u] = copier[u] /\ state'[u] = state[u]
          /\ \/ state'[t] = state[t]
             \/ state'[t] = DISPATCHED
          /\ UNCHANGED <<packetsLeft, signalValue>>
      <3>1. copier' \in [Task -> {"none", "spawned", "issued", "marked"}]
        BY <1>1 DEF TypeInv, TypeOK
      <3>2. CASE CopierIssue(t)
        BY <1>1, <3>1, <3>2 DEF CopierIssue, TypeOK
      <3>3. CASE CopierMark(t)
        BY <1>1, <3>1, <3>3 DEF CopierMark, TypeOK
      <3>4. QED
        BY <1>8, <3>2, <3>3
    <2>2. KindOf[t] = "staged" /\ packetsLeft[t] > 0 /\ t \in InFlight
      BY <1>3, <2>1 DEF OwnershipInv, PacketsInFlight
    <2>3. SameOwners
      BY <1>2, <2>1, <2>2 DEF SameOwners, InFlight
    <2>4. t \in Known
      BY <2>2
      DEF OwnershipInv, CreationPrivate, InFlight, UNINITIALIZED, READY, DISPATCHED
    <2>5. CreationPrivate'
      BY <1>4, <2>1, <2>4
    <2>6. \A i \in Thread : thread[i].at = "spawn" => thread[i].task \in Task \ {t}
      BY <2>1 DEF OwnershipInv, PacketsInFlight, TypeInv, ThreadsNameTasks, At
    <2>7. InFlight' = InFlight
      BY <2>1, <2>2 DEF InFlight
    <2>8. PacketsInFlight'
      BY <1>2, <2>1, <2>2, <2>6, <2>7 DEF OwnershipInv, PacketsInFlight, At
    <2>9. QED
      BY <1>1, <2>3, <2>5, <2>8, SameOwnersKept DEF OwnershipInv
  <1>9. QED
    BY <1>6, <1>7, <1>8 DEF Device

(***************************************************************************)
(* The handler: it starts on a task whose packets are all gone, gives its  *)
(* resources back once, and then completes it.                             *)
(***************************************************************************)
LEMMA HandlerOwnership ==
  ASSUME CreatedUnordered, OwnershipInv, NEW u \in Task,
         \/ HandleSignal(u) \/ VisitSuccessor(u) \/ ReleaseResources
         \/ MarkCompleted \/ DoProgress \/ PopReady
  PROVE  OwnershipInv'
  <1> DEFINE t == thread[Callback].task
  <1>1. TypeInv' /\ TypeOK /\ Callback \in Thread
    BY HandlerType DEF OwnershipInv, TypeInv, Thread
  <1>2. UNCHANGED <<handle, runningOrdered, signalOf, segmentOf, signalValue,
                    packetsLeft, copier, andSuccessors>>
    BY DEF HandleSignal, VisitSuccessor, ReleaseResources, MarkCompleted, DoProgress,
           PopReady, HandlerLeavesUnchanged, groupVars, deviceVars
  <1>3. Known' = Known /\ KnownLists(Known)
    BY <1>2, KnownListsNow DEF Known
  <1>4. /\ thread[Callback].at \notin {"idle", "create"} => t \in Known /\ t \in Task
        /\ thread[Callback].at \in HandleLabel => state[t] = EXECUTED
        /\ \A i \in Thread : i # Callback => thread[i].at \notin HandleLabel
    BY <1>1 DEF OwnershipInv, CreationPrivate, OneOwner, Known
  <1>5. \A i \in Thread : thread[i].at \in DispatchLabel => thread[i].task \in InFlight \ registered
    BY DEF OwnershipInv, OneOwner
  <1>6. CASE HandleSignal(u)
    <2>1. /\ thread[Callback].at = "idle"
          /\ thread' = [thread EXCEPT ![Callback] = Frame("visit", u, "drain")]
          /\ u \in registered /\ signalValue[signalOf[u]] = 0
          /\ registered' = registered \ {u}
          /\ state' = [state EXCEPT ![u] = EXECUTED]
          /\ todo' = andSuccessors[u]
          /\ UNCHANGED <<readyQueue, tempList, freeSignals, freeSegments>>
      BY <1>6 DEF HandleSignal, At, Work
    <2>2. /\ \A i \in Thread : i # Callback => thread'[i] = thread[i]
          /\ thread'[Callback].at = "visit" /\ thread'[Callback].task = u
      BY <1>1, <2>1 DEF Frame, TypeOK
    <2>3. /\ u \in InFlight /\ Holds(u)
          /\ state'[u] = EXECUTED /\ \A v \in Task : v # u => state'[v] = state[v]
          /\ InFlight' = InFlight \ {u}
      <3>1. u \in InFlight
        BY <2>1 DEF OwnershipInv, OneOwner
      <3>2. Holds(u)
        BY <2>1, <3>1 DEF InFlight, Holds, Released, At, READY, DISPATCHED, EXECUTED
      <3>3. state'[u] = EXECUTED /\ \A v \in Task : v # u => state'[v] = state[v]
        BY <1>1, <2>1 DEF TypeOK
      <3>4. QED
        BY <3>1, <3>2, <3>3 DEF InFlight, READY, DISPATCHED, EXECUTED
    <2>4. \A v \in Task : Holds(v)' <=> Holds(v)
      BY <2>1, <2>2, <2>3 DEF Holds, Released, At, READY, EXECUTED
    <2>5. OneOwner'
      <3>1. \A i \in Thread : thread'[i].at \in DispatchLabel =>
              /\ thread'[i] = thread[i]
              /\ thread'[i].task \in InFlight' \ registered'
        BY <1>5, <2>1, <2>2, <2>3 DEF DispatchLabel
      <3>2. \A i \in Thread : thread'[i].at \in HandleLabel =>
              i = Callback /\ state'[thread'[i].task] = EXECUTED
        BY <1>4, <2>2, <2>3
      <3>3. registered' \subseteq InFlight'
        BY <2>1, <2>3 DEF OwnershipInv, OneOwner
      <3>4. QED
        BY <3>1, <3>2, <3>3 DEF OwnershipInv, OneOwner
    <2>6. PacketsInFlight'
      <3>1. packetsLeft[u] = 0
        BY <2>1, <2>3 DEF OwnershipInv, SignalsExclusive
      <3>2. \A i \in Thread : thread'[i].at = "spawn" => thread'[i] = thread[i]
        BY <2>2
      <3>3. QED
        BY <1>2, <2>3, <3>1, <3>2 DEF OwnershipInv, PacketsInFlight, At
    <2>7. SignalsExclusive' /\ SegmentsExclusive'
      BY <1>2, <2>1, <2>4 DEF OwnershipInv, SignalsExclusive, SegmentsExclusive
    <2>8. CreationPrivate'
      <3>1. u \in Known
        BY <2>3 DEF OwnershipInv, CreationPrivate, InFlight, UNINITIALIZED, READY, DISPATCHED
      <3>2. OnlyKnown
        BY <1>2, <2>2, <2>3, <3>1 DEF OnlyKnown
      <3>3. KnownLists(Known)'
        BY <1>2, <1>3, <2>1 DEF KnownLists
      <3>4. QED
        BY <3>2, <3>3, OnlyKnownKept
    <2>9. QED
      BY <1>1, <2>5, <2>6, <2>7, <2>8 DEF OwnershipInv
  <1>7. CASE VisitSuccessor(u)
    <2>1. /\ u \in todo /\ todo' = todo \ {u}
          /\ tempList' = tempList \/ tempList' = Append(tempList, u)
          /\ UNCHANGED <<state, freeSignals, freeSegments, thread, readyQueue, registered>>
      BY <1>7 DEF VisitSuccessor
    <2>2. SameOwners
      BY <1>2, <2>1 DEF SameOwners
    <2>3. OnlyKnown
      BY <1>2, <2>1 DEF OnlyKnown
    <2>4. tempList' \in Seq(Known)
      BY <1>3, <2>1 DEF KnownLists
    <2>5. KnownLists(Known)'
      BY <1>2, <1>3, <2>1, <2>4 DEF KnownLists
    <2>6. QED
      BY <1>1, <1>2, <2>2, <2>3, <2>5, SameOwnersKept, OnlyKnownKept DEF OwnershipInv
  <1>8. CASE MarkCompleted
    <2>1. /\ thread[Callback].at = "complete"
          /\ thread' = [thread EXCEPT ![Callback] = [thread[Callback] EXCEPT !.at = "progress"]]
          /\ state' = [state EXCEPT ![t] = COMPLETED]
          /\ UNCHANGED <<freeSignals, freeSegments, todo, tempList, readyQueue, registered>>
      BY <1>8 DEF MarkCompleted, At, Goto, handlerVars
    <2>2. /\ \A i \in Thread : i # Callback => thread'[i] = thread[i]
          /\ thread'[Callback].at = "progress" /\ thread'[Callback].task = t
      BY <1>1, <2>1 DEF TypeOK
    <2>3. /\ t \in Known /\ t \in Task /\ state[t] = EXECUTED
          /\ state'[t] = COMPLETED /\ \A v \in Task : v # t => state'[v] = state[v]
      BY <1>1, <1>4, <2>1 DEF HandleLabel, TypeOK
    <2>4. InFlight' = InFlight
      BY <2>3 DEF InFlight, READY, DISPATCHED, EXECUTED, COMPLETED
    <2>5. \A v \in Task : Holds(v)' <=> Holds(v)
      <3>1. \A v \in Task : v = t => ~Holds(v) /\ ~Holds(v)'
        BY <2>1, <2>3 DEF Holds, Released, At, READY, EXECUTED, COMPLETED
      <3>2. \A v \in Task : v # t => (Holds(v)' <=> Holds(v))
        BY <2>1, <2>2, <2>3 DEF Holds, Released, At
      <3>3. QED
        BY <3>1, <3>2
    <2>6. OneOwner'
      <3>1. \A i \in Thread : thread'[i].at \in DispatchLabel => thread'[i] = thread[i]
        BY <2>2 DEF DispatchLabel
      <3>2. \A i \in Thread : thread'[i].at \notin HandleLabel
        BY <1>4, <2>2 DEF HandleLabel
      <3>3. QED
        BY <2>1, <2>4, <3>1, <3>2 DEF OwnershipInv, OneOwner
    <2>7. PacketsInFlight'
      <3>1. \A i \in Thread : thread'[i].at = "spawn" => thread'[i] = thread[i]
        BY <2>2
      <3>2. QED
        BY <1>2, <2>4, <3>1 DEF OwnershipInv, PacketsInFlight, At
    <2>8. SignalsExclusive' /\ SegmentsExclusive'
      BY <1>2, <2>1, <2>5 DEF OwnershipInv, SignalsExclusive, SegmentsExclusive
    <2>9. CreationPrivate'
      <3>1. OnlyKnown
        BY <1>2, <2>2, <2>3 DEF OnlyKnown
      <3>2. KnownLists(Known)'
        BY <1>2, <1>3, <2>1 DEF KnownLists
      <3>3. QED
        BY <3>1, <3>2, OnlyKnownKept
    <2>10. QED
      BY <1>1, <2>6, <2>7, <2>8, <2>9 DEF OwnershipInv
  <1>9. CASE ReleaseResources
    <2>1. /\ thread[Callback].at = "visit"
          /\ thread' = [thread EXCEPT ![Callback] = [thread[Callback] EXCEPT !.at = "complete"]]
          /\ readyQueue' = readyQueue \o tempList /\ tempList' = <<>>
          /\ freeSignals' = freeSignals \cup {signalOf[t]}
          /\ UNCHANGED <<state, todo, registered>>
      BY <1>9 DEF ReleaseResources, At, Goto
    <2>2. /\ \A i \in Thread : i # Callback => thread'[i] = thread[i]
          /\ thread'[Callback].at = "complete" /\ thread'[Callback].task = t
      BY <1>1, <2>1 DEF TypeOK
    <2>3. t \in Known /\ t \in Task /\ state[t] = EXECUTED
      BY <1>4, <2>1 DEF HandleLabel
    <2>4. /\ Holds(t)
          /\ \A v \in Task : v = t => ~Holds(v)'
          /\ \A v \in Task : v # t => (Holds(v)' <=> Holds(v))
      <3>1. Holds(t) /\ \A v \in Task : v = t => ~Holds(v)'
        BY <2>1, <2>2, <2>3 DEF Holds, Released, At, READY, EXECUTED
      <3>2. \A v \in Task : v # t => (Holds(v)' <=> Holds(v))
        BY <2>1, <2>2 DEF Holds, Released, At
      <3>3. QED
        BY <3>1, <3>2
    <2>5. InFlight' = InFlight
      BY <2>1 DEF InFlight
    <2>6. OneOwner'
      <3>1. \A i \in Thread : thread'[i].at \in DispatchLabel => thread'[i] = thread[i]
        BY <2>2 DEF DispatchLabel
      <3>2. \A i \in Thread : thread'[i].at \in HandleLabel =>
              i = Callback /\ state'[thread'[i].task] = EXECUTED
        BY <1>4, <2>1, <2>2, <2>3
      <3>3. QED
        BY <2>1, <2>5, <3>1, <3>2 DEF OwnershipInv, OneOwner
    <2>7. PacketsInFlight'
      <3>1. \A i \in Thread : thread'[i].at = "spawn" => thread'[i] = thread[i]
        BY <2>2
      <3>2. QED
        BY <1>2, <2>5, <3>1 DEF OwnershipInv, PacketsInFlight, At
    <2>8. SignalsExclusive'
      <3>1. packetsLeft[t] = 0
        <4>1. t \notin InFlight
          BY <2>3 DEF InFlight, READY, DISPATCHED, EXECUTED
        <4>2. packetsLeft[t] \in Int
          BY <1>1, <2>3 DEF TypeOK
        <4>3. QED
          BY <2>3, <4>1, <4>2 DEF OwnershipInv, PacketsInFlight
      <3>2. signalValue[signalOf[t]] = 0
        BY <2>3, <2>4, <3>1 DEF OwnershipInv, SignalsExclusive
      <3>3. \A v \in Task : Holds(v)' =>
              Holds(v) /\ v # t /\ signalOf[v] # signalOf[t]
        BY <2>3, <2>4 DEF OwnershipInv, SignalsExclusive
      <3>4. QED
        BY <1>2, <2>1, <3>2, <3>3 DEF OwnershipInv, SignalsExclusive
    <2>9. SegmentsExclusive'
      <3>1. \A v \in Task : Holds(v)' => Holds(v) /\ v # t
        BY <2>4
      <3>2. CASE IsKernel(t)
        <4>1. freeSegments' = [freeSegments EXCEPT
                ![KernelOf[t]] = freeSegments[KernelOf[t]] \cup {segmentOf[t]}]
          BY <1>9, <3>2 DEF ReleaseResources
        <4>2. \A v \in Task : KernelOf[v] \in Kernel
          BY TaskAssumption
        <4>3. \A k \in Kernel : freeSegments'[k] =
                IF k = KernelOf[t] THEN freeSegments[k] \cup {segmentOf[t]} ELSE freeSegments[k]
          BY <1>1, <4>1 DEF TypeOK
        <4>4. segmentOf[t] \in 1..SegmentCount[KernelOf[t]]
          BY <2>3, <2>4, <3>2 DEF OwnershipInv, SegmentsExclusive
        <4>5. \A v \in Task : Holds(v)' /\ IsKernel(v) =>
                segmentOf[v] \in (1..SegmentCount[KernelOf[v]]) \ freeSegments'[KernelOf[v]]
          <5> SUFFICES ASSUME NEW v \in Task, Holds(v)', IsKernel(v)
                       PROVE  segmentOf[v] \in
                                (1..SegmentCount[KernelOf[v]]) \ freeSegments'[KernelOf[v]]
            OBVIOUS
          <5>1. Holds(v) /\ v # t
            BY <3>1
          <5>2. segmentOf[v] \in (1..SegmentCount[KernelOf[v]]) \ freeSegments[KernelOf[v]]
            BY <5>1 DEF OwnershipInv, SegmentsExclusive
          <5>3. KernelOf[v] = KernelOf[t] => segmentOf[v] # segmentOf[t]
            BY <2>3, <2>4, <3>2, <5>1 DEF OwnershipInv, SegmentsExclusive
          <5>4. QED
            BY <4>2, <4>3, <5>2, <5>3
        <4>6. \A k \in Kernel : freeSegments'[k] \subseteq 1..SegmentCount[k]
          BY <4>3, <4>4, ZenonT(60) DEF OwnershipInv, SegmentsExclusive
        <4>7. QED
          BY <1>2, <3>1, <4>5, <4>6 DEF OwnershipInv, SegmentsExclusive
      <3>3. CASE ~IsKernel(t)
        <4>1. freeSegments' = freeSegments
          BY <1>9, <3>3 DEF ReleaseResources
        <4>2. QED
          BY <1>2, <3>1, <4>1 DEF OwnershipInv, SegmentsExclusive
      <3>4. QED
        BY <3>2, <3>3
    <2>10. CreationPrivate'
      <3>1. OnlyKnown
        BY <1>2, <2>1, <2>2, <2>3 DEF OnlyKnown
      <3>2. readyQueue' \in Seq(Known) /\ tempList' \in Seq(Known)
        BY <1>3, <2>1 DEF KnownLists
      <3>3. KnownLists(Known)'
        BY <1>2, <1>3, <2>1, <3>2 DEF KnownLists
      <3>4. QED
        BY <3>1, <3>3, OnlyKnownKept
    <2>11. QED
      BY <1>1, <2>6, <2>7, <2>8, <2>9, <2>10 DEF OwnershipInv
  <1>10. CASE DoProgress
    <2>1. /\ thread[Callback].at = "progress"
          /\ \/ thread' = [thread EXCEPT ![Callback] = Frame("front", t, "front")]
             \/ thread' = [thread EXCEPT ![Callback] = [thread[Callback] EXCEPT !.at = "pop"]]
          /\ UNCHANGED <<state, freeSignals, freeSegments, todo, tempList, readyQueue,
                         registered>>
      BY <1>10 DEF DoProgress, At, Work, Goto
    <2>2. /\ \A i \in Thread : i # Callback => thread'[i] = thread[i]
          /\ thread'[Callback].at \in {"front", "pop"} /\ thread'[Callback].task = t
      BY <1>1, <2>1 DEF Frame, TypeOK
    <2>3. SameOwners
      BY <1>2, <2>1, <2>2 DEF SameOwners, DispatchLabel, HandleLabel
    <2>4. OnlyKnown
      BY <1>2, <1>4, <2>1, <2>2 DEF OnlyKnown
    <2>5. KnownLists(Known)'
      BY <1>2, <1>3, <2>1 DEF KnownLists
    <2>6. QED
      BY <1>1, <1>2, <2>3, <2>4, <2>5, SameOwnersKept, OnlyKnownKept DEF OwnershipInv
  <1>11. CASE PopReady
    <2>1. /\ thread[Callback].at = "pop"
          /\ UNCHANGED <<state, freeSignals, freeSegments, todo, tempList, registered>>
      BY <1>11 DEF PopReady, At
    <2>2. /\ \A i \in Thread : i # Callback => thread'[i] = thread[i]
          /\ thread'[Callback].at \in {"idle", "try"}
          /\ thread'[Callback].at = "try" => thread'[Callback].task \in Known
          /\ readyQueue' \in Seq(Known)
      <3>1. CASE budget > 0 /\ readyQueue # <<>>
        <4>1. /\ thread' = [thread EXCEPT ![Callback] = Frame("try", Head(readyQueue), "drain")]
              /\ readyQueue' = Tail(readyQueue)
          BY <1>11, <3>1 DEF PopReady, Work
        <4>2. Head(readyQueue) \in Known /\ readyQueue' \in Seq(Known)
          BY <1>3, <3>1, <4>1 DEF KnownLists
        <4>3. QED
          BY <1>1, <4>1, <4>2 DEF Frame, TypeOK
      <3>2. CASE ~(budget > 0 /\ readyQueue # <<>>)
        <4>1. thread' = [thread EXCEPT ![Callback] = Idle] /\ readyQueue' = readyQueue
          BY <1>11, <3>2 DEF PopReady, Rest
        <4>2. QED
          BY <1>1, <1>3, <4>1 DEF Idle, Frame, TypeOK, KnownLists
      <3>3. QED
        BY <3>1, <3>2
    <2>3. SameOwners
      BY <1>2, <2>1, <2>2 DEF SameOwners, DispatchLabel, HandleLabel
    <2>4. OnlyKnown
      BY <1>2, <2>1, <2>2 DEF OnlyKnown
    <2>5. KnownLists(Known)'
      BY <1>2, <1>3, <2>1, <2>2 DEF KnownLists
    <2>6. QED
      BY <1>1, <1>2, <2>3, <2>4, <2>5, SameOwnersKept, OnlyKnownKept DEF OwnershipInv
  <1>12. QED
    BY <1>6, <1>7, <1>8, <1>9, <1>10, <1>11

\* A constructor and CreateTask work on a task nobody else knows.
LEMMA CallOwnership ==
  ASSUME CreatedUnordered, OwnershipInv, NEW a \in App,
         Call(a) \/ SaveArgs(a) \/ CreateTask(a)
  PROVE  OwnershipInv'
  <1>1. TypeInv' /\ TypeOK /\ a \in Thread
    BY CallType DEF OwnershipInv, TypeInv, Thread
  <1>2. UNCHANGED <<signalOf, segmentOf, freeSignals, freeSegments, signalValue,
                    packetsLeft, registered, copier, todo, readyQueue, tempList>>
    BY DEF Call, Construct, ActivateTask, SaveArgs, CreateTask, heldVars, deviceVars,
           handlerVars
  <1>3. ASSUME NEW t \in Task, Construct(a, t) PROVE OwnershipInv'
    <2>1. PICK label \in {"create", "save", "try"} :
            /\ thread' = [thread EXCEPT ![a] = Frame(label, t, "launch")]
            /\ label = "create" <=> t \in Created
      BY <1>3 DEF Construct, Work
    <2>2. /\ thread[a].at = "idle"
          /\ \A i \in Thread : i # a => thread'[i] = thread[i]
          /\ thread'[a].at = label /\ thread'[a].task = t
      BY <1>1, <1>3, <2>1 DEF Construct, At, Frame, TypeOK
    <2>3. /\ handle[t] = "none" /\ handle'[t] = "object"
          /\ \A u \in Task : u # t => handle'[u] = handle[u]
          /\ UNCHANGED <<state, andSuccessors>>
      BY <1>1, <1>3 DEF Construct, TypeOK
    <2>4. Known' = Known /\ (t \in Known <=> t \notin Created)
      BY <2>3 DEF Known
    <2>5. SameOwners
      BY <1>2, <2>2, <2>3 DEF SameOwners, DispatchLabel, HandleLabel
    <2>6. \A g \in Group : runningOrdered'[g] \in Seq(Task \ Created)
      <3>1. CASE Ordered(t)
        <4>1. t \in Task \ Created
          BY <3>1 DEF CreatedUnordered
        <4>2. runningOrdered' = [runningOrdered EXCEPT
                ![GroupOf[t]] = Append(runningOrdered[GroupOf[t]], t)]
          BY <1>3, <3>1 DEF Construct
        <4>3. \A g \in Group : \/ runningOrdered'[g] = runningOrdered[g]
                              \/ runningOrdered'[g] = Append(runningOrdered[g], t)
          BY <1>1, <4>2 DEF TypeOK
        <4>4. \A q \in Seq(Task \ Created) : Append(q, t) \in Seq(Task \ Created)
          BY <4>1
        <4>5. QED
          BY <4>3, <4>4, KnownListsNow DEF KnownLists
      <3>2. CASE ~Ordered(t)
        BY <1>3, <3>2, KnownListsNow DEF Construct, KnownLists, groupVars
      <3>3. QED
        BY <3>1, <3>2
    <2>7. \A i \in Thread : i # a /\ thread[i].at = "create" =>
            /\ thread[i].task \in Created /\ thread[i].task \in Task
            /\ handle[thread[i].task] = "object" /\ thread[i].task # t
      BY <2>3, TaskAssumption DEF OwnershipInv, CreationPrivate, At
    <2>8. CreationPrivate'
      <3>1. \A i \in Thread : thread'[i].at = "create" =>
              thread'[i].task \in Created /\ handle'[thread'[i].task] = "object"
        BY <2>1, <2>2, <2>3, <2>7
      <3>2. \A i, j \in Thread :
              /\ thread'[i].at = "create" /\ thread'[j].at = "create"
              /\ thread'[i].task = thread'[j].task
              => i = j
        BY <2>2, <2>7 DEF OwnershipInv, CreationPrivate, At
      <3>3. \A i \in Thread : thread'[i].at \notin {"idle", "create"} =>
              thread'[i].task \in Known'
        BY <2>1, <2>2, <2>4 DEF OwnershipInv, CreationPrivate
      <3>4. KnownLists(Known)'
        BY <1>2, <2>3, <2>4, <2>6, KnownListsNow DEF KnownLists
      <3>5. \A u \in Task \ Known' : state'[u] = UNINITIALIZED
        BY <2>3, <2>4 DEF OwnershipInv, CreationPrivate
      <3>6. QED
        BY <3>1, <3>2, <3>3, <3>4, <3>5 DEF CreationPrivate, KnownLists, At
    <2>9. QED
      BY <1>1, <1>2, <2>5, <2>8, SameOwnersKept DEF OwnershipInv
  <1>4. ASSUME NEW t \in Task, ActivateTask(a, t) PROVE OwnershipInv'
    <2>1. /\ thread[a].at = "idle" /\ t \in Known
          /\ handle' = [handle EXCEPT ![t] = "activated"]
          /\ UNCHANGED <<state, andSuccessors, runningOrdered>>
      BY <1>4 DEF ActivateTask, At, Known, taskVars, groupVars
    <2>2. \/ thread' = thread
          \/ thread' = [thread EXCEPT ![a] = Frame("front", t, "front")]
          \/ thread' = [thread EXCEPT ![a] = Frame("try", t, "activate")]
      BY <1>4 DEF ActivateTask, Work
    <2>3. /\ \A i \in Thread : i # a => thread'[i] = thread[i]
          /\ thread'[a].at \in {"idle", "front", "try"}
          /\ thread'[a].at # "idle" => thread'[a].task = t
      BY <1>1, <2>1, <2>2 DEF Frame, TypeOK
    <2>4. SameOwners
      BY <1>2, <2>1, <2>3 DEF SameOwners, DispatchLabel, HandleLabel
    <2>5. OnlyKnown
      BY <1>1, <2>1, <2>3 DEF OnlyKnown, TypeOK
    <2>6. KnownLists(Known)'
      <3>1. Known' = Known
        BY <2>5 DEF OnlyKnown, Known
      <3>2. QED
        BY <1>2, <2>1, <3>1, KnownListsNow DEF KnownLists
    <2>7. QED
      BY <1>1, <1>2, <2>4, <2>5, <2>6, SameOwnersKept, OnlyKnownKept DEF OwnershipInv
  <1>5. CASE SaveArgs(a)
    <2>1. /\ thread[a].at = "save"
          /\ thread' = [thread EXCEPT ![a] = [thread[a] EXCEPT !.at = "try"]]
          /\ UNCHANGED <<state, handle, andSuccessors, runningOrdered>>
      BY <1>5 DEF SaveArgs, At, Goto, groupVars
    <2>2. /\ \A i \in Thread : i # a => thread'[i] = thread[i]
          /\ thread'[a].at = "try" /\ thread'[a].task = thread[a].task
          /\ thread[a].task \in Known
      BY <1>1, <2>1, ZenonT(60) DEF OwnershipInv, CreationPrivate, TypeOK
    <2>3. SameOwners
      BY <1>2, <2>1, <2>2 DEF SameOwners, DispatchLabel, HandleLabel
    <2>4. OnlyKnown
      BY <2>1, <2>2 DEF OnlyKnown
    <2>5. KnownLists(Known)'
      <3>1. Known' = Known
        BY <2>1 DEF Known
      <3>2. QED
        BY <1>2, <2>1, <3>1, KnownListsNow DEF KnownLists
    <2>6. QED
      BY <1>1, <1>2, <2>3, <2>4, <2>5, SameOwnersKept, OnlyKnownKept DEF OwnershipInv
  <1>6. CASE CreateTask(a)
    <2>1. PICK t \in Task : t = thread[a].task
      BY <1>1, <1>6 DEF CreateTask, At, OwnershipInv, TypeInv, ThreadsNameTasks
    <2>2. /\ thread[a].at = "create"
          /\ thread' = [thread EXCEPT ![a] = Idle]
          /\ state' = [state EXCEPT ![t] = INITIALIZED]
          /\ handle' = [handle EXCEPT ![t] = "returned"]
          /\ LinkTo(Unfinished(Requires[t]), t)
          /\ runningOrdered' = runningOrdered
      BY <1>6, <2>1 DEF CreateTask, At, Rest, groupVars
    <2>3. /\ \A i \in Thread : i # a => thread'[i] = thread[i]
          /\ thread'[a].at = "idle"
      BY <1>1, <2>2 DEF Idle, Frame, TypeOK
    <2>4. t \in Created /\ handle[t] = "object" /\ t \notin Known
      BY <1>1, <2>1, <2>2 DEF OwnershipInv, CreationPrivate, At, Known
    <2>5. /\ state[t] = UNINITIALIZED /\ state'[t] = INITIALIZED
          /\ \A u \in Task : u # t => state'[u] = state[u] /\ handle'[u] = handle[u]
          /\ handle'[t] = "returned"
      BY <1>1, <2>2, <2>4 DEF OwnershipInv, CreationPrivate, TypeOK
    <2>6. SameOwners
      BY <1>2, <2>2, <2>3, <2>5
      DEF SameOwners, DispatchLabel, HandleLabel, UNINITIALIZED, INITIALIZED, READY
    <2>7. Known' = Known \cup {t}
      BY <2>4, <2>5 DEF Known
    <2>8. \A i \in Thread : thread'[i].at = "create" =>
            /\ thread'[i] = thread[i] /\ i # a /\ thread[i].task # t
            /\ thread[i].task \in Task
      BY <1>1, <2>1, <2>2, <2>3, TaskAssumption DEF OwnershipInv, CreationPrivate, At
    <2>9. KnownLists(Known)'
      <3>1. \A p \in Task : andSuccessors'[p] \subseteq andSuccessors[p] \cup {t}
        <4>1. Unfinished(Requires[t]) \in SUBSET Task
          BY <2>1, TaskAssumption DEF Unfinished
        <4>2. QED
          BY <1>1, <2>2, <4>1, LinkToType
      <3>2. \A q \in Seq(Known) : q \in Seq(Known')
        BY <2>7
      <3>3. QED
        BY <1>2, <2>2, <2>7, <3>1, <3>2, KnownListsNow DEF KnownLists
    <2>10. CreationPrivate'
      <3>1. \A i \in Thread : thread'[i].at = "create" =>
              thread'[i].task \in Created /\ handle'[thread'[i].task] = "object"
        BY <2>5, <2>8 DEF OwnershipInv, CreationPrivate, At
      <3>2. \A i, j \in Thread :
              /\ thread'[i].at = "create" /\ thread'[j].at = "create"
              /\ thread'[i].task = thread'[j].task
              => i = j
        BY <2>8 DEF OwnershipInv, CreationPrivate, At
      <3>3. \A i \in Thread : thread'[i].at \notin {"idle", "create"} =>
              thread'[i].task \in Known'
        BY <2>3, <2>7 DEF OwnershipInv, CreationPrivate
      <3>4. \A u \in Task \ Known' : state'[u] = UNINITIALIZED
        BY <2>5, <2>7 DEF OwnershipInv, CreationPrivate
      <3>5. QED
        BY <2>9, <3>1, <3>2, <3>3, <3>4 DEF CreationPrivate, KnownLists, At
    <2>11. QED
      BY <1>1, <1>2, <2>6, <2>10, SameOwnersKept DEF OwnershipInv
  <1>7. QED
    BY <1>3, <1>4, <1>5, <1>6 DEF Call

LEMMA TakeFrontOwnership ==
  ASSUME CreatedUnordered, OwnershipInv, NEW h \in Thread, TakeFront(h)
  PROVE  OwnershipInv'
  <1> DEFINE front == runningOrdered[GroupOf[thread[h].task]]
  <1>1. TypeInv' /\ TypeOK
    BY TakeFrontType DEF OwnershipInv, TypeInv
  <1>2. /\ thread[h].at = "front"
        /\ UNCHANGED <<state, signalOf, segmentOf, freeSignals, freeSegments, signalValue,
                       packetsLeft, registered, copier, todo, readyQueue, tempList, handle,
                       andSuccessors, runningOrdered>>
    BY DEF TakeFront, At, taskVars, heldVars, groupVars, deviceVars, handlerVars
  <1>3. front \in Seq(Task \ Created)
    <2>1. thread[h].task \in Task
      BY <1>2 DEF OwnershipInv, TypeInv, ThreadsNameTasks, At
    <2>2. QED
      BY <2>1, TaskAssumption, KnownListsNow DEF KnownLists
  <1>4. /\ \A i \in Thread : i # h => thread'[i] = thread[i]
        /\ thread'[h].at \in {"idle", "try"}
        /\ thread'[h].at = "try" => thread'[h].task \in Known
    <2>1. CASE front = <<>>
      BY <1>1, <2>1 DEF TakeFront, Rest, Idle, Frame, TypeOK
    <2>2. CASE front # <<>>
      <3>1. Head(front) \in Known
        BY <1>3, <2>2 DEF Known
      <3>2. thread' = [thread EXCEPT ![h] = Frame("try", Head(front), "front")]
        BY <2>2 DEF TakeFront, Work
      <3>3. QED
        BY <1>1, <3>1, <3>2 DEF Frame, TypeOK
    <2>3. QED
      BY <2>1, <2>2
  <1>5. SameOwners
    BY <1>2, <1>4 DEF SameOwners, DispatchLabel, HandleLabel
  <1>6. OnlyKnown
    BY <1>2, <1>4 DEF OnlyKnown
  <1>7. KnownLists(Known)'
    <2>1. Known' = Known
      BY <1>2 DEF Known
    <2>2. QED
      BY <1>2, <2>1, KnownListsNow DEF KnownLists
  <1>8. QED
    BY <1>1, <1>2, <1>5, <1>6, <1>7, SameOwnersKept, OnlyKnownKept DEF OwnershipInv

LEMMA OwnershipStep ==
  ASSUME CreatedUnordered, OwnershipInv, [Next]_vars
  PROVE  OwnershipInv'
  <1>1. Callback \in Thread /\ \A a \in App : a \in Thread
    BY DEF Thread
  <1>2. ASSUME NEW h \in Thread, TryDispatch(h) PROVE OwnershipInv'
    BY <1>2, FailedTryOwnership, TryAcquiresOwnership DEF TryDispatch
  <1>3. ASSUME NEW a \in App, Call(a) \/ AppStep(a) PROVE OwnershipInv'
    BY <1>1, <1>2, <1>3, CallOwnership, TakeFrontOwnership, DispatchOwnership DEF AppStep
  <1>4. CASE Handler
    <2>1. CASE \E u \in Task : HandleSignal(u) \/ VisitSuccessor(u)
      BY <2>1, HandlerOwnership
    <2>2. CASE MarkCompleted \/ ReleaseResources \/ DoProgress \/ PopReady
      <3>1. thread[Callback].task \in Task
        BY <1>1, <2>2
        DEF MarkCompleted, ReleaseResources, DoProgress, PopReady, At, OwnershipInv,
            TypeInv, ThreadsNameTasks
      <3>2. QED
        BY <2>2, <3>1, HandlerOwnership
    <2>3. CASE TakeFront(Callback) \/ TryDispatch(Callback) \/ Dispatch(Callback)
      BY <1>1, <1>2, <2>3, TakeFrontOwnership, DispatchOwnership
    <2>4. QED
      BY <1>4, <2>1, <2>2, <2>3 DEF Handler
  <1>5. ASSUME NEW t \in Task, Device(t) PROVE OwnershipInv'
    BY <1>5, DeviceOwnership
  <1>6. CASE UNCHANGED vars
    <2>1. /\ UNCHANGED <<taskVars, heldVars, groupVars, deviceVars, handlerVars>>
          /\ UNCHANGED <<thread, handle, readyQueue, registered>>
      BY <1>6 DEF vars
    <2>2. TypeInv'
      BY <1>6, TypeStep DEF OwnershipInv
    <2>3. SameOwners
      BY <2>1 DEF SameOwners, taskVars, heldVars, deviceVars
    <2>4. OnlyKnown
      BY <2>1 DEF OnlyKnown, taskVars
    <2>5. KnownLists(Known)'
      <3>1. Known' = Known
        BY <2>1 DEF Known
      <3>2. QED
        BY <2>1, <3>1, KnownListsNow DEF KnownLists, taskVars, groupVars, handlerVars
    <2>6. copier' = copier
      BY <2>1 DEF deviceVars
    <2>7. QED
      BY <2>2, <2>3, <2>4, <2>5, <2>6, SameOwnersKept, OnlyKnownKept DEF OwnershipInv
  <1>7. CASE Finished
    BY <1>6, <1>7 DEF Finished
  <1>8. QED
    BY <1>3, <1>4, <1>5, <1>6, <1>7 DEF Next

(***************************************************************************)
(* OwnershipInv holds of every program that creates no task in an ordered  *)
(* group: a task has one dispatcher, then one registered handler, then one *)
(* run of the handler, and owns its signal and segment through all three.  *)
(***************************************************************************)
THEOREM OwnershipCorrect == CreatedUnordered => (Spec => []OwnershipInv)
  <1> SUFFICES ASSUME CreatedUnordered PROVE Spec => []OwnershipInv
    OBVIOUS
  <1>1. Init => OwnershipInv
    BY OwnershipInit
  <1>2. OwnershipInv /\ [Next]_vars => OwnershipInv'
    BY OwnershipStep
  <1>3. QED
    BY <1>1, <1>2, PTL DEF Spec

(***************************************************************************)
(* A pooled signal or kernarg segment never has two owners: neither two    *)
(* tasks, nor a task and the pool, although the launching threads, the     *)
(* handler and the devices act on them under different locks or none.      *)
(***************************************************************************)
THEOREM ResourcesStayExclusive == CreatedUnordered => (Spec => []ResourcesExclusive)
  <1>1. OwnershipInv => ResourcesExclusive
    BY DEF OwnershipInv, ResourcesExclusive
  <1>2. QED
    BY <1>1, OwnershipCorrect, PTL

-------------------------------------------------------------------------------
(***************************************************************************)
(* Action properties.                                                      *)
(***************************************************************************)
\* The tasks whose state a step of a thread, a device or the handler sets.
LEMMA StateSteps ==
  ASSUME OwnershipInv, [Next]_vars
  PROVE  \/ state' = state
         \/ \E h \in Thread : KeepForLater(h) \/ TryAcquires(h) \/ MarkDispatched(h)
         \/ \E a \in App : CreateTask(a)
         \/ \E t \in Task : HandleSignal(t) \/ CopierMark(t)
         \/ MarkCompleted
  <1> DEFINE Goal ==
        \/ state' = state
        \/ \E h \in Thread : KeepForLater(h) \/ TryAcquires(h) \/ MarkDispatched(h)
        \/ \E a \in App : CreateTask(a)
        \/ \E t \in Task : HandleSignal(t) \/ CopierMark(t)
        \/ MarkCompleted
  <1>1. Callback \in Thread /\ \A a \in App : a \in Thread
    BY DEF Thread
  <1>2. ASSUME NEW h \in Thread, TakeFront(h) \/ TryDispatch(h) \/ Dispatch(h) PROVE Goal
    BY <1>2
    DEF TakeFront, TryDispatch, TryTaken, TryWaitsForRequired, TryWaitsForPrevious,
        TryLacksResources, Dispatch, Publish, SpawnCopier, RegisterHandler, WaitCompleted,
        taskVars
  <1>3. ASSUME NEW a \in App, Call(a) \/ AppStep(a) PROVE Goal
    <2>1. CASE Call(a) \/ SaveArgs(a)
      BY <2>1 DEF Call, Construct, ActivateTask, SaveArgs, taskVars
    <2>2. CASE CreateTask(a)
      BY <2>2
    <2>3. CASE TakeFront(a) \/ TryDispatch(a) \/ Dispatch(a)
      BY <1>1, <1>2, <2>3
    <2>4. QED
      BY <1>3, <2>1, <2>2, <2>3 DEF AppStep
  <1>4. CASE Handler
    <2>1. CASE \/ \E u \in Task : VisitSuccessor(u)
               \/ ReleaseResources \/ DoProgress \/ PopReady
      BY <2>1 DEF VisitSuccessor, ReleaseResources, DoProgress, PopReady
    <2>2. CASE MarkCompleted \/ \E t \in Task : HandleSignal(t)
      BY <2>2
    <2>3. CASE TakeFront(Callback) \/ TryDispatch(Callback) \/ Dispatch(Callback)
      BY <1>1, <1>2, <2>3
    <2>4. QED
      BY <1>4, <2>1, <2>2, <2>3 DEF Handler
  <1>5. ASSUME NEW t \in Task, Device(t) PROVE Goal
    BY <1>5 DEF Device, CompletePacket, CopierIssue, CopierFinish
  <1>6. CASE UNCHANGED vars
    BY <1>6 DEF vars, taskVars
  <1>7. CASE Finished
    BY <1>6, <1>7 DEF Finished
  <1>8. QED
    BY <1>3, <1>4, <1>5, <1>6, <1>7 DEF Next

LEMMA StateAdvances ==
  ASSUME OwnershipInv, [Next]_vars, NEW t \in Task
  PROVE  state'[t] >= state[t]
  <1> USE DEF UNINITIALIZED, INITIALIZED, READY, DISPATCHED, EXECUTED, COMPLETED
  <1>0. state \in [Task -> State]
    BY DEF OwnershipInv, TypeInv, TypeOK
  <1>1. state \in [Task -> State] /\ state[t] \in Int /\ state[t] <= COMPLETED
    <2>1. state[t] \in State
      BY <1>0
    <2>2. QED
      BY <1>0, <2>1 DEF State
  <1>2. \A x \in Int : state' = [state EXCEPT ![t] = x] => state'[t] = x
    BY <1>1
  <1>3. \A u, x : u # t /\ state' = [state EXCEPT ![u] = x] => state'[t] = state[t]
    BY <1>1
  <1>4. ASSUME NEW u, NEW x \in Int, state' = [state EXCEPT ![u] = x],
               u = t => state[t] <= x
        PROVE  state'[t] >= state[t]
    BY <1>1, <1>2, <1>3, <1>4
  <1>5. CASE state' = state
    BY <1>1, <1>5
  <1>6. ASSUME NEW h \in Thread, KeepForLater(h) PROVE state'[t] >= state[t]
    <2>1. /\ state[thread[h].task] < READY
          /\ state' = [state EXCEPT ![thread[h].task] = INITIALIZED]
      BY <1>6 DEF KeepForLater
    <2>2. QED
      BY <1>1, <1>4, <2>1 DEF State
  <1>7. ASSUME NEW h \in Thread, TryAcquires(h) PROVE state'[t] >= state[t]
    <2>1. /\ state[thread[h].task] < READY
          /\ state' = [state EXCEPT ![thread[h].task] = READY]
      BY <1>7 DEF TryAcquires, Dispatchable
    <2>2. QED
      BY <1>1, <1>4, <2>1
  <1>8. ASSUME NEW h \in Thread, MarkDispatched(h) PROVE state'[t] >= state[t]
    <2>1. /\ thread[h].task \in InFlight
          /\ state' = [state EXCEPT ![thread[h].task] = DISPATCHED]
      BY <1>8 DEF MarkDispatched, At, OwnershipInv, OneOwner, DispatchLabel
    <2>2. QED
      BY <1>1, <1>4, <2>1 DEF InFlight
  <1>9. ASSUME NEW a \in App, CreateTask(a) PROVE state'[t] >= state[t]
    <2>1. /\ a \in Thread /\ At(a, "create")
          /\ state' = [state EXCEPT ![thread[a].task] = INITIALIZED]
      BY <1>9 DEF CreateTask, Thread
    <2>2. thread[a].task \in Created /\ handle[thread[a].task] = "object"
      BY <2>1 DEF OwnershipInv, CreationPrivate
    <2>3. thread[a].task \in Task \ Known
      BY <2>2, TaskAssumption DEF Known
    <2>4. state[thread[a].task] = UNINITIALIZED
      BY <2>3 DEF OwnershipInv, CreationPrivate
    <2>5. thread[a].task = t => state[t] <= INITIALIZED
      BY <2>4
    <2>6. QED
      BY <1>1, <1>4, <2>1, <2>5
  <1>10. ASSUME NEW u \in Task, HandleSignal(u) PROVE state'[t] >= state[t]
    <2>1. u \in InFlight /\ state' = [state EXCEPT ![u] = EXECUTED]
      BY <1>10 DEF HandleSignal, OwnershipInv, OneOwner
    <2>2. QED
      BY <1>1, <1>4, <2>1 DEF InFlight
  <1>11. ASSUME NEW u \in Task, CopierMark(u) PROVE state'[t] >= state[t]
    <2>1. copier[u] # "none" /\ state' = [state EXCEPT ![u] = DISPATCHED]
      BY <1>11 DEF CopierMark
    <2>2. u \in InFlight
      BY <2>1 DEF OwnershipInv, PacketsInFlight
    <2>3. QED
      BY <1>1, <1>4, <2>1, <2>2 DEF InFlight
  <1>12. CASE MarkCompleted
    <2>1. state' = [state EXCEPT ![thread[Callback].task] = COMPLETED]
      BY <1>12 DEF MarkCompleted
    <2>2. QED
      BY <1>1, <1>4, <2>1
  <1>13. QED
    BY <1>5, <1>6, <1>7, <1>8, <1>9, <1>10, <1>11, <1>12, StateSteps

(***************************************************************************)
(* state_ never moves backwards, although the launching thread, a staging  *)
(* thread and the handler all store it without a common lock.              *)
(***************************************************************************)
THEOREM StatesOnlyAdvance == CreatedUnordered => (Spec => StatesAdvance)
  <1>1. OwnershipInv /\ [Next]_vars => [\A t \in Task : state'[t] >= state[t]]_vars
    BY StateAdvances
  <1>2. QED
    BY <1>1, OwnershipCorrect, PTL DEF Spec, StatesAdvance

\* A task becomes READY as its resources are acquired.
LEMMA ReadyByAcquiring ==
  ASSUME OwnershipInv, [Next]_vars, NEW t \in Task, state[t] < READY, state'[t] >= READY
  PROVE  \E h \in Thread : TryAcquires(h) /\ thread[h].task = t
  <1> USE DEF INITIALIZED, READY, DISPATCHED, EXECUTED
  <1>1. state \in [Task -> State] /\ state[t] \in Int
    BY DEF OwnershipInv, TypeInv, TypeOK, State
  <1>2. ASSUME NEW u, NEW x, state' = [state EXCEPT ![u] = x]
        PROVE  u = t /\ x >= READY
    BY <1>1, <1>2
  <1>3. state' # state
    BY <1>1
  <1>4. \A h \in Thread : ~KeepForLater(h)
    <2> SUFFICES ASSUME NEW h \in Thread, KeepForLater(h) PROVE FALSE
      OBVIOUS
    <2>1. state' = [state EXCEPT ![thread[h].task] = INITIALIZED]
      BY DEF KeepForLater
    <2>2. INITIALIZED >= READY
      BY <1>2, <2>1
    <2>3. QED
      BY <2>2
  <1>5. \A a \in App : ~CreateTask(a)
    BY <1>2 DEF CreateTask
  <1>6. \A h \in Thread : ~MarkDispatched(h)
    <2> SUFFICES ASSUME NEW h \in Thread, MarkDispatched(h) PROVE FALSE
      OBVIOUS
    <2>1. /\ state' = [state EXCEPT ![thread[h].task] = DISPATCHED]
          /\ thread[h].task \in InFlight
      BY DEF MarkDispatched, At, OwnershipInv, OneOwner, DispatchLabel
    <2>2. thread[h].task = t
      BY <1>2, <2>1
    <2>3. QED
      BY <2>1, <2>2 DEF InFlight
  <1>7. \A u \in Task : ~HandleSignal(u)
    <2> SUFFICES ASSUME NEW u \in Task, HandleSignal(u) PROVE FALSE
      OBVIOUS
    <2>1. state' = [state EXCEPT ![u] = EXECUTED] /\ u \in InFlight
      BY DEF HandleSignal, OwnershipInv, OneOwner
    <2>2. u = t
      BY <1>2, <2>1
    <2>3. QED
      BY <2>1, <2>2 DEF InFlight
  <1>8. \A u \in Task : ~CopierMark(u)
    <2> SUFFICES ASSUME NEW u \in Task, CopierMark(u) PROVE FALSE
      OBVIOUS
    <2>1. state' = [state EXCEPT ![u] = DISPATCHED] /\ copier[u] # "none"
      BY DEF CopierMark
    <2>2. u = t
      BY <1>2, <2>1
    <2>3. u \in InFlight
      BY <2>1 DEF OwnershipInv, PacketsInFlight
    <2>4. QED
      BY <2>2, <2>3 DEF InFlight
  <1>9. ~MarkCompleted
    <2> SUFFICES ASSUME MarkCompleted PROVE FALSE
      OBVIOUS
    <2>1. /\ state' = [state EXCEPT ![thread[Callback].task] = COMPLETED]
          /\ state[thread[Callback].task] = EXECUTED
      BY DEF MarkCompleted, At, OwnershipInv, OneOwner, HandleLabel, Thread
    <2>2. thread[Callback].task = t
      BY <1>2, <2>1
    <2>3. QED
      BY <2>1, <2>2
  <1>10. PICK h \in Thread : TryAcquires(h)
    BY <1>3, <1>4, <1>5, <1>6, <1>7, <1>8, <1>9, StateSteps
  <1>11. state' = [state EXCEPT ![thread[h].task] = READY]
    BY <1>10 DEF TryAcquires
  <1>12. thread[h].task = t
    BY <1>2, <1>11
  <1>13. QED
    BY <1>10, <1>12

(***************************************************************************)
(* The packets of a task, and the count of its dispatches, grow in one     *)
(* kind of step only.                                                      *)
(***************************************************************************)
LEMMA PacketSteps ==
  ASSUME [Next]_vars
  PROVE  \/ UNCHANGED <<packetsLeft, dispatches>>
         \/ \E h \in Thread : TryAcquires(h)
         \/ /\ \E u \in Task : packetsLeft' = [packetsLeft EXCEPT ![u] = @ - 1]
            /\ UNCHANGED dispatches
  <1> DEFINE Goal ==
        \/ UNCHANGED <<packetsLeft, dispatches>>
        \/ \E h \in Thread : TryAcquires(h)
        \/ /\ \E u \in Task : packetsLeft' = [packetsLeft EXCEPT ![u] = @ - 1]
           /\ UNCHANGED dispatches
  <1>1. Callback \in Thread /\ \A a \in App : a \in Thread
    BY DEF Thread
  <1>2. ASSUME NEW h \in Thread, TakeFront(h) \/ TryDispatch(h) \/ Dispatch(h) PROVE Goal
    BY <1>2
    DEF TakeFront, TryDispatch, TryTaken, TryWaitsForRequired, TryWaitsForPrevious,
        TryLacksResources, KeepForLater, Dispatch, MarkDispatched, Publish,
        SpawnCopier, RegisterHandler, WaitCompleted, DispatchLeavesUnchanged, deviceVars
  <1>3. ASSUME NEW a \in App, Call(a) \/ AppStep(a) PROVE Goal
    <2>1. CASE Call(a) \/ SaveArgs(a) \/ CreateTask(a)
      BY <2>1 DEF Call, Construct, ActivateTask, SaveArgs, CreateTask, deviceVars
    <2>2. CASE TakeFront(a) \/ TryDispatch(a) \/ Dispatch(a)
      BY <1>1, <1>2, <2>2
    <2>3. QED
      BY <1>3, <2>1, <2>2 DEF AppStep
  <1>4. CASE Handler
    <2>1. CASE \/ \E t \in Task : HandleSignal(t) \/ VisitSuccessor(t)
               \/ ReleaseResources \/ MarkCompleted \/ DoProgress \/ PopReady
      BY <2>1 DEF HandleSignal, VisitSuccessor, ReleaseResources, MarkCompleted,
                  DoProgress, PopReady, HandlerLeavesUnchanged, deviceVars
    <2>2. CASE TakeFront(Callback) \/ TryDispatch(Callback) \/ Dispatch(Callback)
      BY <1>1, <1>2, <2>2
    <2>3. QED
      BY <1>4, <2>1, <2>2 DEF Handler
  <1>5. ASSUME NEW t \in Task, Device(t) PROVE Goal
    BY <1>5 DEF Device, CompletePacket, CopierIssue, CopierMark, CopierFinish, FinishPacket,
                DeviceLeavesUnchanged
  <1>6. CASE UNCHANGED vars
    BY <1>6 DEF vars, deviceVars
  <1>7. CASE Finished
    BY <1>6, <1>7 DEF Finished
  <1>8. QED
    BY <1>3, <1>4, <1>5, <1>6, <1>7 DEF Next

LEMMA PacketsGivenOnce ==
  ASSUME TypeOK, [Next]_vars, NEW t \in Task, packetsLeft'[t] > packetsLeft[t]
  PROVE  state[t] < READY
  <1>1. packetsLeft \in [Task -> Int] /\ packetsLeft[t] \in Int
    BY DEF TypeOK
  <1>2. CASE packetsLeft' = packetsLeft
    BY <1>1, <1>2
  <1>3. ASSUME NEW h \in Thread, TryAcquires(h) PROVE state[t] < READY
    <2>1. /\ state[thread[h].task] < READY
          /\ packetsLeft' = [packetsLeft EXCEPT ![thread[h].task] = Packets[thread[h].task]]
      BY <1>3 DEF TryAcquires, AcquireAqlPacket, Dispatchable
    <2>2. thread[h].task # t => packetsLeft'[t] = packetsLeft[t]
      BY <1>1, <2>1
    <2>3. QED
      BY <1>1, <2>1, <2>2
  <1>4. ASSUME NEW u \in Task, packetsLeft' = [packetsLeft EXCEPT ![u] = @ - 1]
        PROVE  state[t] < READY
    BY <1>1, <1>4
  <1>5. QED
    BY <1>2, <1>3, <1>4, PacketSteps

(***************************************************************************)
(* A task is dispatched once it is READY, and not before: the strengthening*)
(* that makes TasksRunOnce inductive.  Since state_ never moves backwards  *)
(* (StateAdvances), READY and what follows are reached once.               *)
(***************************************************************************)
DispatchedWhenReady ==
  \A t \in Task : dispatches[t] = (IF state[t] >= READY THEN 1 ELSE 0)

LEMMA DispatchedInit == Init => DispatchedWhenReady
  BY DEF Init, DispatchedWhenReady, UNINITIALIZED, READY

LEMMA DispatchedStep ==
  ASSUME OwnershipInv, CreatedUnordered, DispatchedWhenReady, [Next]_vars
  PROVE  DispatchedWhenReady'
  <1> SUFFICES ASSUME NEW t \in Task
               PROVE  dispatches'[t] = (IF state'[t] >= READY THEN 1 ELSE 0)
    BY DEF DispatchedWhenReady, READY
  <1>1. /\ state[t] \in Int /\ READY \in Int
        /\ dispatches \in [Task -> Nat]
        /\ dispatches[t] = (IF state[t] >= READY THEN 1 ELSE 0)
    BY DEF OwnershipInv, TypeInv, TypeOK, State, READY, DispatchedWhenReady
  <1>2. state'[t] >= state[t]
    BY StateAdvances
  <1>3. state' \in [Task -> State]
    BY TypeStep DEF OwnershipInv, TypeInv, TypeOK
  <1>4. ASSUME NEW h \in Thread, TryAcquires(h)
        PROVE  dispatches'[t] = (IF state'[t] >= READY THEN 1 ELSE 0)
    <2>1. /\ state[thread[h].task] < READY
          /\ state' = [state EXCEPT ![thread[h].task] = READY]
          /\ dispatches' = [dispatches EXCEPT ![thread[h].task] = @ + 1]
      BY <1>4 DEF TryAcquires, AcquireAqlPacket, Dispatchable
    <2>2. CASE thread[h].task = t
      BY <1>1, <2>1, <2>2 DEF OwnershipInv, TypeInv, TypeOK, READY
    <2>3. CASE thread[h].task # t
      BY <1>1, <2>1, <2>3 DEF OwnershipInv, TypeInv, TypeOK
    <2>4. QED
      BY <2>2, <2>3
  <1>5. CASE UNCHANGED dispatches /\ \A h \in Thread : ~TryAcquires(h)
    <2>1. state[t] < READY => ~(state'[t] >= READY)
      BY <1>5, ReadyByAcquiring
    <2>2. state[t] >= READY => state'[t] >= READY
      BY <1>1, <1>2, <1>3 DEF State
    <2>3. QED
      BY <1>1, <1>5, <2>1, <2>2
  <1>6. QED
    BY <1>4, <1>5, PacketSteps

(***************************************************************************)
(* Over the whole run a task is given to a device at most once, and once   *)
(* when it is COMPLETED: nothing makes a READY task acquirable again,      *)
(* whichever of the loops tried it before.  CreateTask would, in an        *)
(* ordered group (task.cpp:2161), which is what the premise leaves out.    *)
(***************************************************************************)
THEOREM TasksDispatchedOnce == CreatedUnordered => (Spec => []TasksRunOnce)
  <1>1. DispatchedWhenReady /\ TypeOK => TasksRunOnce
    BY DEF DispatchedWhenReady, TypeOK, State, TasksRunOnce, READY, COMPLETED
  <1>2. CreatedUnordered /\ OwnershipInv /\ DispatchedWhenReady /\ [Next]_vars
        => DispatchedWhenReady'
    BY DispatchedStep
  <1>3. OwnershipInv => TypeOK
    BY DEF OwnershipInv, TypeInv
  <1>4. CreatedUnordered => [](CreatedUnordered)
    BY DEF CreatedUnordered, Ordered
  <1>5. QED
    BY <1>1, <1>2, <1>3, <1>4, OwnershipCorrect, DispatchedInit, PTL DEF Spec

===============================================================================

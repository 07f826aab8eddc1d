------------------------ MODULE HostCallback_refinement ------------------------
(***************************************************************************)
(* Proofs, for programs whose tasks are in unordered groups: that no task  *)
(* starts before what it requires, that predecessors are counted exactly,  *)
(* and that every step of HostCallback is a step of TaskGraph or none.     *)
(***************************************************************************)
EXTENDS HostCallback_proofs

\* What a sequence is made of.
LEMMA SeqOfMore ==
  ASSUME NEW S, NEW T, S \subseteq T, NEW q \in Seq(S)
  PROVE  q \in Seq(T)
  OBVIOUS

LEMMA StateType ==
  ASSUME OwnershipInv, NEW t \in Task
  PROVE  /\ state[t] \in State
         /\ state[t] # UNINITIALIZED <=> state[t] >= INITIALIZED
  BY DEF OwnershipInv, TypeInv, TypeOK, State, UNINITIALIZED, INITIALIZED, COMPLETED

LEMMA DependencyInit ==
  ASSUME Unordered, Init
  PROVE  DependencyInv
  <1> USE DEF Init, Idle, Frame, At
  <1>1. Callback \in Thread
    BY DEF Thread
  <1>2. NothingOrdered /\ VisitsSuccessors
    BY <1>1 DEF NothingOrdered, VisitsSuccessors
  <1>3. FirstAttemptAlone
    BY DEF FirstAttemptAlone, FirstLabel
  <1>4. LinksComplete
    BY DEF LinksComplete
  <1>5. AttemptsCleared
    BY DEF AttemptsCleared, UNINITIALIZED, READY
  <1>6. PredecessorCountExact
    <2>1. \A t \in Task : {p \in Task : StillCounts(p, t)} = {}
      BY DEF StillCounts
    <2>2. QED
      BY <2>1, FS_EmptySet DEF PredecessorCountExact
  <1>7. QED
    BY <1>2, <1>3, <1>4, <1>5, <1>6 DEF DependencyInv

-------------------------------------------------------------------------------
(***************************************************************************)
(* What every step does, said of the thread h that moves in it, if any     *)
(* does: an attempt starts on a cleared task, on a new one, or from the    *)
(* same thread's save, and the first state of a task is stored by the      *)
(* thread that makes the first attempt, as it ends.                        *)
(***************************************************************************)
StartsAttempt(h) ==
  \/ thread'[h].at = "try" /\ thread'[h].task \in Cleared'
  \/ handle[thread'[h].task] = "none" /\ state' = state
  \/ /\ thread[h].at = "save" /\ thread'[h].at = "try" /\ state' = state
     /\ thread'[h].task = thread[h].task

FirstStored(h, t) ==
  /\ thread[h].at \in FirstLabel /\ thread[h].task = t
  /\ thread'[h].at \notin FirstLabel
  /\ state'[t] # UNINITIALIZED

OneMove(h) ==
  /\ \A i \in Thread : i # h => thread'[i] = thread[i]
  /\ \/ thread'[h] = thread[h]
     \/ /\ thread'[h].at = "idle" \/ handle'[thread'[h].task] # "none"
        /\ thread'[h].at # "front" /\ thread'[h].via # "front"
        /\ thread'[h].at \in FirstLabel => StartsAttempt(h)
  /\ \A t \in Task :
       \/ state'[t] = state[t]
       \/ state[t] # UNINITIALIZED /\ state'[t] # UNINITIALIZED
       \/ FirstStored(h, t)
  /\ \A t \in Task :
       \/ handle'[t] = handle[t]
       \/ handle'[t] = "object" /\ state'[t] = UNINITIALIZED
       \/ handle'[t] \in {"returned", "activated"} /\ state'[t] # UNINITIALIZED
  /\ prevOrdered' = prevOrdered

\* What a step does to the lists and to the states after the first.
ListsCleared ==
  /\ readyQueue' \in Seq(Cleared')
  /\ tempList' \in Seq(Cleared')
  /\ \A t \in Task : state'[t] >= READY => state[t] >= READY \/ t \in Cleared'

\* What a step does to the links.
LinksGrow ==
  /\ \A p \in Task : andSuccessors[p] \subseteq andSuccessors'[p]
  /\ \A p, t \in Task :
       t \in andSuccessors'[p] => t \in andSuccessors[p] \/ state'[t] # UNINITIALIZED
  /\ \A t \in Task : state[t] = UNINITIALIZED /\ state'[t] # UNINITIALIZED =>
       \A p \in Requires[t] : state'[p] >= EXECUTED \/ t \in andSuccessors'[p]

LEMMA ClearedGrows ==
  ASSUME OwnershipInv, OwnershipInv', \A t \in Task : state'[t] >= state[t]
  PROVE  Cleared \subseteq Cleared'
  <1>1. \A t \in Task : state[t] \in Int /\ state'[t] \in Int
    BY DEF OwnershipInv, TypeInv, TypeOK, State
  <1>2. \A t \in Task : Requires[t] \subseteq Task
    BY TaskAssumption
  <1>3. QED
    BY <1>1, <1>2 DEF Cleared, INITIALIZED, EXECUTED

LEMMA FirstAttemptKept ==
  ASSUME OwnershipInv, OwnershipInv', DependencyInv, NEW h \in Thread, OneMove(h)
  PROVE  FirstAttemptAlone'
  <1>1. /\ thread \in [Thread -> ThreadType] /\ thread' \in [Thread -> ThreadType]
        /\ \A i \in Thread : thread[i].at # "idle" => thread[i].task \in Task
        /\ \A i \in Thread : thread'[i].at # "idle" => thread'[i].task \in Task
    BY DEF OwnershipInv, TypeInv, TypeOK, ThreadsNameTasks, At, ThreadType
  <1>2. FirstAttemptAlone
    BY DEF DependencyInv
  <1>3. \A t \in Task : state[t] # UNINITIALIZED => state'[t] # UNINITIALIZED
    BY DEF OneMove, FirstStored
  <1>4. \A t \in Task : handle[t] # "none" => handle'[t] # "none"
    BY DEF OneMove
  <1>5. \A i \in Thread : thread'[i].at # "idle" => handle'[thread'[i].task] # "none"
    BY <1>1, <1>2, <1>4 DEF OneMove, FirstAttemptAlone, At
  <1>6. \A t \in Task : handle'[t] = "none" => state'[t] = UNINITIALIZED
    <2> SUFFICES ASSUME NEW t \in Task, handle'[t] = "none"
                 PROVE  state'[t] = UNINITIALIZED
      OBVIOUS
    <2>1. handle[t] = "none" /\ state[t] = UNINITIALIZED
      BY <1>2, <1>4 DEF FirstAttemptAlone
    <2>2. ~FirstStored(h, t)
      BY <1>2, <2>1 DEF FirstStored, FirstAttemptAlone, FirstLabel, At
    <2>3. QED
      BY <2>1, <2>2 DEF OneMove
  <1>7. \A t \in Task : handle'[t] \in {"returned", "activated"} =>
          state'[t] # UNINITIALIZED
    BY <1>2, <1>3 DEF OneMove, FirstAttemptAlone
  \* A thread at its first attempt was at one before, or starts one.
  <1>8. ASSUME NEW i \in Thread, thread'[i].at \in FirstLabel,
               state'[thread'[i].task] = UNINITIALIZED
        PROVE  /\ thread'[i].task \in Task
               /\ state[thread'[i].task] = UNINITIALIZED
               /\ \/ thread[i].at \in FirstLabel /\ thread[i].task = thread'[i].task
                  \/ i = h /\ handle[thread'[i].task] = "none"
    <2>1. thread'[i].task \in Task
      BY <1>1, <1>8 DEF FirstLabel
    <2>2. thread'[i].task \notin Cleared'
      BY <1>8 DEF Cleared, UNINITIALIZED, INITIALIZED
    <2>3. QED
      BY <1>3, <1>8, <2>1, <2>2 DEF OneMove, StartsAttempt, FirstLabel
  <1>9. \A i, j \in Thread :
          /\ thread'[i].at \in FirstLabel /\ thread'[j].at \in FirstLabel
          /\ thread'[i].task = thread'[j].task
          /\ state'[thread'[i].task] = UNINITIALIZED
          => i = j
    <2>1. \A i \in Thread : thread[i].at \in FirstLabel => handle[thread[i].task] # "none"
      BY <1>2 DEF FirstAttemptAlone, FirstLabel, At
    <2>2. QED
      BY <1>2, <1>8, <2>1 DEF FirstAttemptAlone
  <1>10. ASSUME NEW i \in Thread, thread'[i].at \in {"save", "create"}
         PROVE  state'[thread'[i].task] = UNINITIALIZED
    <2> DEFINE t == thread'[i].task
    <2>1. t \in Task
      BY <1>1, <1>10
    <2>2. CASE thread'[i] = thread[i]
      <3>1. state[t] = UNINITIALIZED
        BY <1>2, <1>10, <2>2 DEF FirstAttemptAlone
      <3>2. ~FirstStored(h, t)
        BY <1>2, <1>10, <2>2, <3>1 DEF FirstStored, FirstAttemptAlone, FirstLabel
      <3>3. QED
        BY <2>1, <3>1, <3>2 DEF OneMove
    <2>3. CASE thread'[i] # thread[i]
      <3>1. handle[t] = "none" /\ state' = state
        BY <1>10, <2>3 DEF OneMove, StartsAttempt, FirstLabel
      <3>2. QED
        BY <1>2, <2>1, <3>1 DEF FirstAttemptAlone
    <2>4. QED
      BY <2>2, <2>3
  <1>11. QED
    BY <1>5, <1>6, <1>7, <1>9, <1>10 DEF FirstAttemptAlone, At

LEMMA AttemptsKept ==
  ASSUME OwnershipInv, OwnershipInv', DependencyInv, NEW h \in Thread, OneMove(h),
         \A t \in Task : state'[t] >= state[t], ListsCleared
  PROVE  AttemptsCleared'
  <1>1. Cleared \subseteq Cleared'
    BY ClearedGrows
  <1>2. /\ FirstAttemptAlone /\ AttemptsCleared
        /\ \A i \in Thread : thread'[i].at # "idle" => thread'[i].task \in Task
    BY DEF DependencyInv, OwnershipInv, TypeInv, ThreadsNameTasks, At
  <1>3. ASSUME NEW i \in Thread, thread'[i].at = "try",
               state'[thread'[i].task] # UNINITIALIZED
        PROVE  thread'[i].task \in Cleared'
    <2> DEFINE t == thread'[i].task
    <2>1. t \in Task
      BY <1>2, <1>3
    <2>2. CASE thread'[i] = thread[i]
      <3>1. CASE state[t] # UNINITIALIZED
        BY <1>1, <1>2, <1>3, <2>2, <3>1 DEF AttemptsCleared, At
      <3>2. CASE state[t] = UNINITIALIZED
        <4>1. FirstStored(h, t)
          BY <1>3, <2>1, <3>2 DEF OneMove
        <4>2. QED
          BY <1>2, <1>3, <2>2, <3>2, <4>1 DEF FirstStored, FirstAttemptAlone, FirstLabel
      <3>3. QED
        BY <3>1, <3>2
    <2>3. CASE thread'[i] # thread[i]
      <3>1. i = h /\ StartsAttempt(h)
        BY <1>3, <2>3 DEF OneMove, FirstLabel
      <3>2. CASE handle[t] = "none" /\ state' = state
        BY <1>2, <1>3, <2>1, <3>2 DEF FirstAttemptAlone
      <3>3. CASE thread[h].at = "save" /\ state' = state /\ t = thread[h].task
        BY <1>2, <1>3, <3>3 DEF FirstAttemptAlone
      <3>4. QED
        BY <3>1, <3>2, <3>3 DEF StartsAttempt
    <2>4. QED
      BY <2>2, <2>3
  <1>4. \A t \in Task : state'[t] >= READY => t \in Cleared'
    BY <1>1, <1>2 DEF ListsCleared, AttemptsCleared
  <1>5. QED
    BY <1>3, <1>4 DEF AttemptsCleared, ListsCleared, At

LEMMA LinksKept ==
  ASSUME OwnershipInv, OwnershipInv', DependencyInv, LinksGrow,
         \A t \in Task : state'[t] >= state[t]
  PROVE  LinksComplete'
  <1>1. \A t \in Task : Requires[t] \subseteq Task
    BY TaskAssumption
  <1>2. \A t \in Task : state[t] \in Int /\ state'[t] \in Int /\ state[t] >= UNINITIALIZED
    BY DEF OwnershipInv, TypeInv, TypeOK, State, UNINITIALIZED
  <1>3. \A t \in Task : state[t] # UNINITIALIZED => state'[t] # UNINITIALIZED
    BY <1>2 DEF UNINITIALIZED
  <1>4. \A p \in Task : state[p] >= EXECUTED => state'[p] >= EXECUTED
    BY <1>2 DEF EXECUTED
  <1>5. LinksComplete
    BY DEF DependencyInv
  <1>6. QED
    BY <1>1, <1>3, <1>4, <1>5 DEF LinksComplete, LinksGrow

\* The invariant after a step, from what the step does.
LEMMA DependencyKept ==
  ASSUME OwnershipInv, OwnershipInv', DependencyInv, NEW h \in Thread, OneMove(h),
         \A t \in Task : state'[t] >= state[t],
         ListsCleared, LinksGrow, VisitsSuccessors', PredecessorCountExact'
  PROVE  DependencyInv'
  <1>1. NothingOrdered'
    BY DEF DependencyInv, NothingOrdered, OneMove
  <1>2. QED
    BY <1>1, FirstAttemptKept, AttemptsKept, LinksKept DEF DependencyInv
-------------------------------------------------------------------------------
(***************************************************************************)
(* The counts of predecessors.                                             *)
(***************************************************************************)
\* The callback thread visits the same successors of the same task.
SameVisit ==
  /\ thread'[Callback].at = "visit" <=> thread[Callback].at = "visit"
  /\ thread[Callback].at = "visit" => thread'[Callback] = thread[Callback]
  /\ todo' = todo

SameCounts ==
  /\ andSuccessors' = andSuccessors
  /\ numPredecessors' = numPredecessors
  /\ SameVisit
  /\ \A p \in Task : state'[p] < EXECUTED <=> state[p] < EXECUTED

LEMMA CountsKept ==
  ASSUME DependencyInv, SameCounts
  PROVE  PredecessorCountExact' /\ VisitsSuccessors'
  <1>1. \A p, t \in Task : StillCounts(p, t)' <=> StillCounts(p, t)
    BY DEF SameCounts, SameVisit, StillCounts, At
  <1>2. \A t \in Task : {p \in Task : StillCounts(p, t)}' = {p \in Task : StillCounts(p, t)}
    BY <1>1
  <1>3. PredecessorCountExact'
    BY <1>2 DEF SameCounts, DependencyInv, PredecessorCountExact
  <1>4. VisitsSuccessors'
    BY DEF SameCounts, SameVisit, DependencyInv, VisitsSuccessors, At
  <1>5. QED
    BY <1>3, <1>4

\* The first links of a task are counted once each.
LEMMA FirstLinks ==
  ASSUME OwnershipInv, DependencyInv, SameVisit,
         NEW t \in Task, state[t] = UNINITIALIZED,
         state' = [state EXCEPT ![t] = INITIALIZED],
         LinkTo(Unfinished(Requires[t]), t)
  PROVE  PredecessorCountExact' /\ VisitsSuccessors' /\ LinksGrow
  <1> DEFINE P == Unfinished(Requires[t])
             Counts(u) == {p \in Task : StillCounts(p, u)}
  <1>1. /\ state \in [Task -> State] /\ andSuccessors \in [Task -> SUBSET Task]
        /\ numPredecessors \in [Task -> Int]
        /\ Requires[t] \subseteq Task /\ P \subseteq Task
    BY TaskAssumption DEF OwnershipInv, TypeInv, TypeOK, Unfinished
  <1>2. /\ \A p \in Task :
             andSuccessors'[p] = IF p \in P THEN andSuccessors[p] \cup {t}
                                 ELSE andSuccessors[p]
        /\ numPredecessors' = [numPredecessors EXCEPT ![t] = @ + Cardinality(P)]
    BY DEF LinkTo
  <1>3. \A p \in Task : t \notin andSuccessors[p]
    BY DEF DependencyInv, LinksComplete
  <1>4. /\ \A p \in Task : state'[p] < EXECUTED <=> state[p] < EXECUTED
        /\ \A p \in P : state[p] < EXECUTED
        /\ state'[t] # UNINITIALIZED
    BY <1>1 DEF Unfinished, UNINITIALIZED, INITIALIZED, EXECUTED
  <1>5. Counts(t) = {} /\ Counts(t)' = P
    BY <1>1, <1>2, <1>3, <1>4 DEF StillCounts, SameVisit, At
  <1>6. \A u \in Task : u # t => Counts(u)' = Counts(u)
    <2>1. \A u, p \in Task : u # t => (u \in andSuccessors'[p] <=> u \in andSuccessors[p])
      BY <1>2
    <2>2. \A u, p \in Task : u # t => (StillCounts(p, u)' <=> StillCounts(p, u))
      BY <1>4, <2>1 DEF StillCounts, SameVisit, At
    <2>3. QED
      BY <2>2
  <1>7. PredecessorCountExact'
    <2>1. \A u \in Task : numPredecessors[u] = Cardinality(Counts(u))
      BY DEF DependencyInv, PredecessorCountExact
    <2>2. numPredecessors[t] = 0
      BY <1>5, <2>1, FS_EmptySet
    <2>3. Cardinality(P) \in Nat
      BY <1>1, FiniteAssumption, FS_Subset, FS_CardinalityType
    <2>4. numPredecessors'[t] = Cardinality(P)
      BY <1>1, <1>2, <2>2, <2>3
    <2>5. \A u \in Task : numPredecessors'[u] = Cardinality(Counts(u)')
      BY <1>1, <1>2, <1>5, <1>6, <2>1, <2>4
    <2>6. QED
      BY <2>5 DEF PredecessorCountExact
  <1>8. VisitsSuccessors'
    <2>1. At(Callback, "visit") => todo \subseteq andSuccessors[thread[Callback].task]
      BY DEF DependencyInv, VisitsSuccessors
    <2>2. At(Callback, "visit") => thread[Callback].task \in Task
      BY DEF OwnershipInv, TypeInv, ThreadsNameTasks, At, Thread
    <2>3. QED
      BY <1>2, <2>1, <2>2 DEF SameVisit, VisitsSuccessors, At
  <1>9. LinksGrow
    <2>1. \A p \in Requires[t] : state'[p] >= EXECUTED \/ t \in andSuccessors'[p]
      <3> SUFFICES ASSUME NEW p \in Requires[t], p \notin P
                   PROVE  state'[p] >= EXECUTED
        BY <1>1, <1>2
      <3>1. p \in Task /\ ~(state[p] < EXECUTED)
        BY <1>1 DEF Unfinished
      <3>2. state'[p] \in Int /\ ~(state'[p] < EXECUTED)
        BY <1>1, <1>4, <3>1 DEF State, INITIALIZED
      <3>3. QED
        BY <3>2 DEF EXECUTED
    <2>2. \A u \in Task : u # t => state'[u] = state[u]
      BY <1>1
    <2>3. QED
      BY <1>2, <1>4, <2>1, <2>2 DEF LinksGrow
  <1>10. QED
    BY <1>7, <1>8, <1>9

\* Without new links, a task whose state is stored for the first time must be
\* cleared.
LEMMA NoLinks ==
  ASSUME andSuccessors' = andSuccessors,
         \A t \in Task : state[t] = UNINITIALIZED /\ state'[t] # UNINITIALIZED =>
           t \in Cleared'
  PROVE  LinksGrow
  BY DEF LinksGrow, Cleared

-------------------------------------------------------------------------------
(***************************************************************************)
(* The attempts.                                                           *)
(***************************************************************************)
LEMMA EndTryMove ==
  ASSUME OwnershipInv, DependencyInv, NEW h \in Thread, NEW b \in BOOLEAN,
         thread[h].at # "idle", thread[h].at # "visit", EndTry(h, b)
  PROVE  /\ \A i \in Thread : i # h => thread'[i] = thread[i]
         /\ thread'[h].at \in {"idle", "pop", "wait"} /\ thread'[h].via # "front"
         /\ thread'[h].at = "idle" \/ handle'[thread'[h].task] # "none"
         /\ \A t \in Task : \/ handle'[t] = handle[t]
                            \/ t = thread[h].task /\ handle'[t] = "returned"
         /\ todo' = todo => SameVisit
  <1>1. /\ thread' \in [Thread -> ThreadType]
        /\ \A i \in Thread : i # h => thread'[i] = thread[i]
        /\ thread'[h].at \in {"idle", "pop", "front", "wait"}
        /\ thread'[h].at # "idle" => thread'[h].task = thread[h].task
        /\ \A t \in Task :
             handle'[t] = IF t = thread[h].task /\ handle' # handle
                          THEN "returned" ELSE handle[t]
    BY EndTryMoves DEF OwnershipInv
  <1>2. thread \in [Thread -> ThreadType] /\ thread[h].via # "front"
    BY DEF OwnershipInv, TypeInv, TypeOK, DependencyInv, NothingOrdered, ThreadType
  <1>3. thread'[h].at # "front" /\ thread'[h].via # "front"
    BY <1>2 DEF EndTry, Resume, Goto, Rest, Idle, Frame, ThreadType
  <1>4. handle[thread[h].task] # "none" /\ thread[h].task \in Task
    BY DEF DependencyInv, FirstAttemptAlone, OwnershipInv, TypeInv, ThreadsNameTasks, At
  <1>5. todo' = todo => SameVisit
    BY <1>1 DEF SameVisit, Thread
  <1>6. QED
    BY <1>1, <1>3, <1>4, <1>5

\* What an attempt finds of the requirements of its task.
LEMMA AttemptClears ==
  ASSUME OwnershipInv, OwnershipInv', DependencyInv, NEW h \in Thread,
         thread[h].at = "try", WaitsFor(thread[h].task) = {},
         \A t \in Task : state'[t] >= state[t],
         state'[thread[h].task] >= INITIALIZED
  PROVE  thread[h].task \in Cleared'
  <1> DEFINE t == thread[h].task
  <1>1. t \in Task /\ Requires[t] \subseteq Task
    BY TaskAssumption DEF OwnershipInv, TypeInv, ThreadsNameTasks, At
  <1>2. \A p \in Task : state[p] \in Int /\ state'[p] \in Int /\ state[p] >= UNINITIALIZED
    BY DEF OwnershipInv, TypeInv, TypeOK, State, UNINITIALIZED
  <1>3. CASE state[t] = UNINITIALIZED
    <2>1. Unfinished(Requires[t]) = {}
      BY <1>3 DEF WaitsFor, UNINITIALIZED, INITIALIZED
    <2>2. \A p \in Requires[t] : state'[p] >= EXECUTED
      BY <1>1, <1>2, <2>1 DEF Unfinished, EXECUTED
    <2>3. QED
      BY <1>1, <2>2 DEF Cleared
  <1>4. CASE state[t] # UNINITIALIZED
    <2>1. t \in Cleared
      BY <1>4 DEF DependencyInv, AttemptsCleared, At
    <2>2. QED
      BY <2>1, ClearedGrows
  <1>5. QED
    BY <1>3, <1>4
LEMMA FailedTryDependency ==
  ASSUME OwnershipInv, OwnershipInv', DependencyInv, NEW h \in Thread,
         \A t \in Task : state'[t] >= state[t],
         \/ TryTaken(h) \/ TryWaitsForRequired(h) \/ TryWaitsForPrevious(h)
         \/ TryLacksResources(h)
  PROVE  DependencyInv'
  <1> DEFINE t == thread[h].task
  <1>1. /\ thread[h].at = "try" /\ EndTry(h, FALSE)
        /\ UNCHANGED <<prevOrdered, todo, tempList>>
    BY DEF TryTaken, TryWaitsForRequired, TryWaitsForPrevious, TryLacksResources,
           KeepForLater, TryLeavesUnchanged, handlerVars, At
  <1>2. /\ t \in Task /\ prevOrdered[t] = NoTask
        /\ state \in [Task -> State] /\ state' \in [Task -> State]
    BY <1>1 DEF OwnershipInv, TypeInv, TypeOK, ThreadsNameTasks, At, DependencyInv,
                NothingOrdered
  <1>3. /\ \A i \in Thread : i # h => thread'[i] = thread[i]
        /\ thread'[h].at \in {"idle", "pop", "wait"} /\ thread'[h].via # "front"
        /\ thread'[h].at = "idle" \/ handle'[thread'[h].task] # "none"
        /\ \A u \in Task : \/ handle'[u] = handle[u]
                           \/ u = t /\ handle'[u] = "returned"
        /\ SameVisit
    BY <1>1, EndTryMove
  <1>4. /\ \A u \in Task : u # t => state'[u] = state[u]
        /\ state'[t] # UNINITIALIZED /\ state'[t] >= INITIALIZED
        /\ state'[t] >= READY => state[t] >= READY
        /\ state'[t] < EXECUTED <=> state[t] < EXECUTED
    <2>1. CASE TryTaken(h)
      BY <1>2, <2>1 DEF TryTaken, State, UNINITIALIZED, INITIALIZED, READY, COMPLETED
    <2>2. CASE KeepForLater(h)
      <3>1. state[t] < READY /\ state' = [state EXCEPT ![t] = INITIALIZED]
        BY <2>2 DEF KeepForLater
      <3>2. QED
        BY <1>2, <3>1 DEF State, UNINITIALIZED, INITIALIZED, READY, EXECUTED, COMPLETED
    <2>3. QED
      BY <2>1, <2>2 DEF TryWaitsForRequired, TryWaitsForPrevious, TryLacksResources
  <1>5. OneMove(h)
    BY <1>1, <1>3, <1>4 DEF OneMove, FirstStored, FirstLabel
  <1>6. Cleared \subseteq Cleared' /\ readyQueue \in Seq(Cleared) /\ tempList \in Seq(Cleared)
    BY ClearedGrows DEF DependencyInv, AttemptsCleared
  <1>7. /\ readyQueue \in Seq(Cleared') /\ tempList' \in Seq(Cleared')
        /\ \A u \in Task : state'[u] >= READY => state[u] >= READY \/ u \in Cleared'
    BY <1>1, <1>4, <1>6, SeqOfMore
  <1>8. CASE TryTaken(h)
    <2>1. state' = state /\ UNCHANGED <<readyQueue, andSuccessors, numPredecessors>>
      BY <1>8 DEF TryTaken
    <2>2. ListsCleared
      BY <1>7, <2>1 DEF ListsCleared
    <2>3. SameCounts /\ LinksGrow
      BY <1>3, <2>1, NoLinks DEF SameCounts
    <2>4. QED
      BY <1>5, <2>2, <2>3, CountsKept, DependencyKept
  <1>9. CASE TryWaitsForRequired(h)
    <2>1. /\ state[t] = UNINITIALIZED /\ readyQueue' = readyQueue
          /\ state' = [state EXCEPT ![t] = INITIALIZED]
          /\ LinkTo(Unfinished(Requires[t]), t)
      BY <1>2, <1>9, StateType
      DEF TryWaitsForRequired, KeepForLater, WaitsFor, State, UNINITIALIZED, INITIALIZED
    <2>2. PredecessorCountExact' /\ VisitsSuccessors' /\ LinksGrow
      BY <1>2, <1>3, <2>1, FirstLinks
    <2>3. ListsCleared
      BY <1>7, <2>1 DEF ListsCleared
    <2>4. QED
      BY <1>5, <2>2, <2>3, DependencyKept
  <1>10. CASE TryLacksResources(h)
    <2>1. WaitsFor(t) = {} /\ UNCHANGED <<andSuccessors, numPredecessors>>
      BY <1>10 DEF TryLacksResources
    <2>2. t \in Cleared'
      BY <1>1, <1>4, <2>1, AttemptClears
    <2>3. SameCounts /\ LinksGrow
      BY <1>3, <1>4, <2>1, <2>2, NoLinks DEF SameCounts
    <2>4. readyQueue' = readyQueue \/ readyQueue' = Append(readyQueue, t)
      BY <1>10 DEF TryLacksResources, QueueForResources
    <2>5. ListsCleared
      BY <1>7, <2>2, <2>4 DEF ListsCleared
    <2>6. QED
      BY <1>5, <2>3, <2>5, CountsKept, DependencyKept
  <1>11. ~TryWaitsForPrevious(h)
    BY <1>2 DEF TryWaitsForPrevious, PrevBlocks
  <1>12. QED
    BY <1>8, <1>9, <1>10, <1>11

LEMMA TryAcquiresDependency ==
  ASSUME OwnershipInv, OwnershipInv', DependencyInv, NEW h \in Thread,
         \A t \in Task : state'[t] >= state[t], TryAcquires(h)
  PROVE  DependencyInv'
  <1> DEFINE t == thread[h].task
  <1>1. /\ thread[h].at = "try" /\ WaitsFor(t) = {} /\ state[t] < READY
        /\ state' = [state EXCEPT ![t] = READY]
        /\ thread' = [thread EXCEPT ![h].at = FirstDispatchStep(t)]
        /\ UNCHANGED <<prevOrdered, todo, tempList, readyQueue, handle, andSuccessors,
                       numPredecessors>>
    BY DEF TryAcquires, TryLeavesUnchanged, handlerVars, At, Dispatchable, Goto
  <1>2. /\ t \in Task /\ state \in [Task -> State] /\ thread \in [Thread -> ThreadType]
        /\ handle[t] # "none" /\ thread[h].via # "front"
    BY <1>1 DEF OwnershipInv, TypeInv, TypeOK, ThreadsNameTasks, At, ThreadType,
                DependencyInv, NothingOrdered, FirstAttemptAlone
  <1>3. FirstDispatchStep(t) \in {"mark", "publish", "spawn"}
    BY DEF FirstDispatchStep
  <1>4. /\ \A i \in Thread : i # h => thread'[i] = thread[i]
        /\ thread'[h].at \in {"mark", "publish", "spawn"}
        /\ thread'[h].task = t /\ thread'[h].via # "front"
    BY <1>1, <1>2, <1>3 DEF ThreadType
  <1>5. /\ \A u \in Task : u # t => state'[u] = state[u]
        /\ state'[t] = READY /\ state'[t] # UNINITIALIZED /\ state'[t] >= INITIALIZED
        /\ \A u \in Task : state'[u] < EXECUTED <=> state[u] < EXECUTED
    BY <1>1, <1>2 DEF State, UNINITIALIZED, INITIALIZED, READY, EXECUTED, COMPLETED
  <1>6. OneMove(h)
    BY <1>1, <1>2, <1>4, <1>5 DEF OneMove, FirstStored, FirstLabel
  <1>7. t \in Cleared'
    BY <1>1, <1>5, AttemptClears
  <1>8. ListsCleared
    <2>1. /\ Cleared \subseteq Cleared'
          /\ readyQueue \in Seq(Cleared) /\ tempList \in Seq(Cleared)
      BY ClearedGrows DEF DependencyInv, AttemptsCleared
    <2>2. QED
      BY <1>1, <1>5, <1>7, <2>1, SeqOfMore DEF ListsCleared
  <1>9. SameCounts /\ LinksGrow
    <2>1. SameVisit
      BY <1>1, <1>4 DEF SameVisit, Thread
    <2>2. QED
      BY <1>1, <1>5, <1>7, <2>1, NoLinks DEF SameCounts
  <1>10. QED
    BY <1>6, <1>8, <1>9, CountsKept, DependencyKept

-------------------------------------------------------------------------------
(***************************************************************************)
(* The steps that concern no attempt: dispatch, the devices, most of the   *)
(* handler.  They change no first state and no list.                       *)
(***************************************************************************)
NoAttempt(h) ==
  /\ \A i \in Thread : i # h => thread'[i] = thread[i]
  /\ \/ thread'[h] = thread[h]
     \/ /\ thread'[h].at = "idle" \/ handle'[thread'[h].task] # "none"
        /\ thread'[h].at \notin FirstLabel \cup {"front"} /\ thread'[h].via # "front"
  /\ \A t \in Task : \/ state'[t] = state[t]
                     \/ state[t] >= READY /\ state'[t] >= READY
  /\ \A t \in Task : \/ handle'[t] = handle[t]
                     \/ handle'[t] = "returned" /\ state'[t] >= READY
  /\ UNCHANGED <<prevOrdered, andSuccessors, readyQueue, tempList>>

LEMMA NoAttemptDependency ==
  ASSUME OwnershipInv, OwnershipInv', DependencyInv, NEW h \in Thread,
         \A t \in Task : state'[t] >= state[t],
         NoAttempt(h), PredecessorCountExact', VisitsSuccessors'
  PROVE  DependencyInv'
  <1>1. \A t \in Task : /\ state[t] >= READY => state[t] # UNINITIALIZED
                        /\ state'[t] >= READY => state'[t] # UNINITIALIZED
    BY DEF READY, UNINITIALIZED
  <1>2. OneMove(h)
    BY <1>1 DEF NoAttempt, OneMove
  <1>3. ListsCleared
    <2>1. /\ Cleared \subseteq Cleared'
          /\ readyQueue \in Seq(Cleared) /\ tempList \in Seq(Cleared)
      BY ClearedGrows DEF DependencyInv, AttemptsCleared
    <2>2. QED
      BY <2>1, SeqOfMore DEF NoAttempt, ListsCleared
  <1>4. LinksGrow
    BY <1>1, NoLinks DEF NoAttempt
  <1>5. QED
    BY <1>2, <1>3, <1>4, DependencyKept
LEMMA DispatchDependency ==
  ASSUME OwnershipInv, OwnershipInv', DependencyInv, NEW h \in Thread,
         \A t \in Task : state'[t] >= state[t], Dispatch(h)
  PROVE  DependencyInv'
  <1> DEFINE t == thread[h].task
  <1>1. /\ thread[h].at \in {"mark", "publish", "spawn", "register", "wait"}
        /\ UNCHANGED <<prevOrdered, andSuccessors, numPredecessors, readyQueue, tempList,
                       todo>>
    BY DEF Dispatch, MarkDispatched, Publish, SpawnCopier, RegisterHandler, WaitCompleted,
           DispatchLeavesUnchanged, handlerVars, At
  <1>2. /\ t \in Task /\ handle[t] # "none" /\ thread[h].via # "front"
        /\ state \in [Task -> State] /\ thread \in [Thread -> ThreadType]
        /\ handle \in [Task -> HandleType]
    BY <1>1 DEF OwnershipInv, TypeInv, TypeOK, ThreadsNameTasks, At, ThreadType,
                HandleType, DependencyInv, NothingOrdered, FirstAttemptAlone
  <1>3. thread[h].at \in DispatchLabel => state[t] \in {READY, DISPATCHED}
    BY DEF OwnershipInv, OneOwner, InFlight
  <1> DEFINE Ended ==
        /\ \A i \in Thread : i # h => thread'[i] = thread[i]
        /\ \/ thread'[h].at = "idle" /\ thread'[h].via # "front"
           \/ /\ thread'[h].at \in {"pop", "wait", "mark", "publish", "register"}
              /\ thread'[h].task = t /\ thread'[h].via # "front"
        /\ \A u \in Task : \/ handle'[u] = handle[u]
                           \/ /\ handle'[u] = "returned" /\ u = t
                              /\ state'[u] >= READY
  <1>4. /\ Ended
        /\ \A u \in Task : \/ state'[u] = state[u]
                           \/ state[u] \in {READY, DISPATCHED} /\ state'[u] = DISPATCHED
    <2>1. CASE MarkDispatched(h)
      <3>1. /\ thread' = [thread EXCEPT ![h].at =
                            IF KindOf[t] = "cpu" THEN "register" ELSE "publish"]
            /\ handle' = handle /\ state' = [state EXCEPT ![t] = DISPATCHED]
            /\ thread[h].at = "mark"
        BY <2>1 DEF MarkDispatched, Goto, At
      <3>2. QED
        BY <1>2, <1>3, <3>1 DEF ThreadType, DispatchLabel
    <2>2. CASE Publish(h)
      <3>1. /\ thread' = [thread EXCEPT ![h].at =
                            IF KindOf[t] = "cpu" THEN "mark" ELSE "register"]
            /\ handle' = handle /\ state' = state
        BY <2>2 DEF Publish, Goto
      <3>2. QED
        BY <1>2, <3>1 DEF ThreadType
    <2>3. CASE SpawnCopier(h)
      <3>1. /\ thread' = [thread EXCEPT ![h].at = "register"]
            /\ handle' = handle /\ state' = state
        BY <2>3 DEF SpawnCopier, Goto
      <3>2. QED
        BY <1>2, <3>1 DEF ThreadType
    <2>4. CASE RegisterHandler(h)
      <3>1. EndTry(h, TRUE) /\ state' = state /\ thread[h].at = "register"
        BY <2>4 DEF RegisterHandler, At
      <3>2. /\ \A i \in Thread : i # h => thread'[i] = thread[i]
            /\ thread'[h].at \in {"idle", "pop", "wait"} /\ thread'[h].via # "front"
            /\ \A u \in Task : \/ handle'[u] = handle[u]
                               \/ u = t /\ handle'[u] = "returned"
        BY <3>1, EndTryMove
      <3>3. thread'[h].at # "idle" => thread'[h].task = t
        BY <3>1, EndTryMoves DEF OwnershipInv
      <3>4. state'[t] >= READY
        BY <1>3, <3>1 DEF DispatchLabel, READY, DISPATCHED
      <3>5. QED
        BY <3>1, <3>2, <3>3, <3>4
    <2>5. CASE WaitCompleted(h)
      <3>1. Resume(h, FALSE) /\ state' = state /\ state[t] = COMPLETED
        BY <2>5 DEF WaitCompleted
      <3>2. \/ thread' = [thread EXCEPT ![h].at = "pop"]
            \/ thread' = [thread EXCEPT ![h] = Idle]
        BY <3>1 DEF Resume, Goto, Rest
      <3>3. handle' = handle \/ handle' = [handle EXCEPT ![t] = "returned"]
        BY <3>1 DEF Resume
      <3>4. state'[t] >= READY
        BY <3>1 DEF READY, COMPLETED
      <3>5. QED
        BY <1>2, <3>1, <3>2, <3>3, <3>4 DEF Idle, Frame, ThreadType
    <2>6. QED
      BY <2>1, <2>2, <2>3, <2>4, <2>5 DEF Dispatch
  <1>5. handle'[t] # "none"
    BY <1>2, <1>4
  <1>6. NoAttempt(h)
    BY <1>1, <1>4, <1>5 DEF NoAttempt, FirstLabel, READY, DISPATCHED
  <1>7. SameCounts
    <2>1. SameVisit
      BY <1>1, <1>4 DEF SameVisit, Thread
    <2>2. \A u \in Task : state'[u] < EXECUTED <=> state[u] < EXECUTED
      BY <1>4 DEF READY, DISPATCHED, EXECUTED
    <2>3. QED
      BY <1>1, <2>1, <2>2 DEF SameCounts
  <1>8. QED
    BY <1>6, <1>7, CountsKept, NoAttemptDependency

LEMMA DeviceDependency ==
  ASSUME OwnershipInv, OwnershipInv', DependencyInv,
         \A t \in Task : state'[t] >= state[t], NEW t \in Task, Device(t)
  PROVE  DependencyInv'
  <1>1. /\ Callback \in Thread
        /\ UNCHANGED <<thread, handle, prevOrdered, andSuccessors, numPredecessors,
                       readyQueue, tempList, todo>>
    BY DEF Thread, Device, CompletePacket, CopierIssue, CopierMark, CopierFinish,
           DeviceLeavesUnchanged, handlerVars
  <1>2. \A u \in Task : \/ state'[u] = state[u]
                        \/ state[u] \in {READY, DISPATCHED} /\ state'[u] = DISPATCHED
    <2>1. CASE CopierMark(t)
      <3>1. copier[t] # "none" /\ state' = [state EXCEPT ![t] = DISPATCHED]
        BY <2>1 DEF CopierMark
      <3>2. state[t] \in {READY, DISPATCHED} /\ state \in [Task -> State]
        BY <3>1 DEF OwnershipInv, PacketsInFlight, InFlight, TypeInv, TypeOK
      <3>3. QED
        BY <3>1, <3>2
    <2>2. CASE CompletePacket(t) \/ CopierIssue(t) \/ CopierFinish(t)
      BY <2>2 DEF CompletePacket, CopierIssue, CopierFinish
    <2>3. QED
      BY <2>1, <2>2 DEF Device
  <1>3. NoAttempt(Callback)
    BY <1>1, <1>2 DEF NoAttempt, READY, DISPATCHED
  <1>4. SameCounts
    <2>1. \A u \in Task : state'[u] < EXECUTED <=> state[u] < EXECUTED
      BY <1>2 DEF READY, DISPATCHED, EXECUTED
    <2>2. QED
      BY <1>1, <2>1 DEF SameCounts, SameVisit
  <1>5. QED
    BY <1>1, <1>3, <1>4, CountsKept, NoAttemptDependency

-------------------------------------------------------------------------------
(***************************************************************************)
(* The handler.                                                            *)
(***************************************************************************)
LEMMA HandleSignalDependency ==
  ASSUME OwnershipInv, OwnershipInv', DependencyInv,
         \A u \in Task : state'[u] >= state[u], NEW t \in Task, HandleSignal(t)
  PROVE  DependencyInv'
  <1>1. /\ Callback \in Thread /\ thread[Callback].at = "idle" /\ t \in registered
        /\ state' = [state EXCEPT ![t] = EXECUTED] /\ todo' = andSuccessors[t]
        /\ thread' = [thread EXCEPT ![Callback] = Frame("visit", t, "drain")]
        /\ UNCHANGED <<prevOrdered, handle, andSuccessors, numPredecessors, readyQueue,
                       tempList>>
    BY DEF HandleSignal, HandlerLeavesUnchanged, Work, At, Thread
  <1>2. /\ thread \in [Thread -> ThreadType] /\ state \in [Task -> State]
        /\ state[t] \in {READY, DISPATCHED} /\ handle[t] # "none"
    <2>1. state[t] \in {READY, DISPATCHED} /\ thread \in [Thread -> ThreadType]
          /\ state \in [Task -> State]
      BY <1>1 DEF OwnershipInv, OneOwner, InFlight, TypeInv, TypeOK, ThreadType
    <2>2. handle[t] # "none"
      BY <2>1 DEF DependencyInv, FirstAttemptAlone, UNINITIALIZED, READY, DISPATCHED
    <2>3. QED
      BY <2>1, <2>2
  <1>3. /\ \A i \in Thread : i # Callback => thread'[i] = thread[i]
        /\ thread'[Callback].at = "visit" /\ thread'[Callback].task = t
        /\ thread'[Callback].via = "drain"
    BY <1>1, <1>2 DEF Frame
  <1>4. NoAttempt(Callback)
    BY <1>1, <1>2, <1>3 DEF NoAttempt, FirstLabel, READY, DISPATCHED, EXECUTED
  <1>5. PredecessorCountExact'
    <2>1. \A p, u \in Task : StillCounts(p, u)' <=> StillCounts(p, u)
      BY <1>1, <1>2, <1>3 DEF StillCounts, At, READY, DISPATCHED, EXECUTED
    <2>2. \A u \in Task : {p \in Task : StillCounts(p, u)}'
                          = {p \in Task : StillCounts(p, u)}
      BY <2>1
    <2>3. QED
      BY <1>1, <2>2 DEF DependencyInv, PredecessorCountExact
  <1>6. VisitsSuccessors'
    BY <1>1, <1>3 DEF VisitsSuccessors
  <1>7. QED
    BY <1>1, <1>4, <1>5, <1>6, NoAttemptDependency

\* The count of a successor that reaches zero shows that nothing it requires is
\* unfinished.
LEMMA VisitDependency ==
  ASSUME OwnershipInv, OwnershipInv', DependencyInv, NEW u \in Task, VisitSuccessor(u)
  PROVE  DependencyInv'
  <1> DEFINE p == thread[Callback].task
             Counts(v) == {q \in Task : StillCounts(q, v)}
  <1>1. /\ Callback \in Thread /\ thread[Callback].at = "visit" /\ u \in todo
        /\ todo' = todo \ {u}
        /\ numPredecessors' = [numPredecessors EXCEPT ![u] = @ - 1]
        /\ tempList' = IF LastPredecessor(u) THEN Append(tempList, u) ELSE tempList
        /\ UNCHANGED <<state, thread, prevOrdered, handle, andSuccessors, readyQueue>>
    BY DEF VisitSuccessor, HandlerLeavesUnchanged, At, Thread
  <1>2. /\ p \in Task /\ state[p] = EXECUTED /\ u \in andSuccessors[p]
        /\ numPredecessors \in [Task -> Int] /\ state \in [Task -> State]
    BY <1>1 DEF OwnershipInv, OneOwner, HandleLabel, TypeInv, TypeOK, ThreadsNameTasks,
                At, DependencyInv, VisitsSuccessors
  <1>3. StillCounts(p, u) /\ ~StillCounts(p, u)'
    BY <1>1, <1>2 DEF StillCounts, At, EXECUTED
  <1>4. \A q, v \in Task : q # p \/ v # u => (StillCounts(q, v)' <=> StillCounts(q, v))
    BY <1>1 DEF StillCounts, At
  <1>5. Counts(u)' = Counts(u) \ {p} /\ p \in Counts(u)
    <2>1. \A q \in Task : StillCounts(q, u)' <=> StillCounts(q, u) /\ q # p
      BY <1>1, <1>2 DEF StillCounts, At, EXECUTED
    <2>2. QED
      BY <1>2, <1>3, <2>1
  <1>6. \A v \in Task : v # u => Counts(v)' = Counts(v)
    BY <1>4
  <1>7. /\ IsFiniteSet(Counts(u)) /\ Cardinality(Counts(u)) \in Nat
        /\ Cardinality(Counts(u) \ {p}) = Cardinality(Counts(u)) - 1
        /\ IsFiniteSet(Counts(u)')
    BY <1>5, FiniteAssumption, FS_Subset, FS_CardinalityType, FS_RemoveElement
  <1>8. \A v \in Task : numPredecessors[v] = Cardinality(Counts(v))
    BY DEF DependencyInv, PredecessorCountExact
  <1>9. PredecessorCountExact'
    <2>1. \A v \in Task : numPredecessors'[v] = Cardinality(Counts(v)')
      BY <1>1, <1>2, <1>5, <1>6, <1>7, <1>8
    <2>2. QED
      BY <2>1 DEF PredecessorCountExact
  <1>10. VisitsSuccessors'
    BY <1>1 DEF DependencyInv, VisitsSuccessors, At
  <1>11. LastPredecessor(u) => u \in Cleared'
    <2> SUFFICES ASSUME LastPredecessor(u) PROVE u \in Cleared
      BY <1>1 DEF Cleared
    <2>1. Counts(u)' = {}
      <3>1. Cardinality(Counts(u)') = 0
        <4>1. Cardinality(Counts(u)) = 1
          BY <1>8 DEF LastPredecessor
        <4>2. Cardinality(Counts(u) \ {p}) = 0
          BY <1>7, <4>1
        <4>3. QED
          BY <1>5, <4>2
      <3>2. QED
        BY <1>7, <3>1, FS_EmptySet
    <2>2. state[u] # UNINITIALIZED
      BY <1>2 DEF DependencyInv, LinksComplete
    <2>3. \A q \in Requires[u] : state[q] >= EXECUTED
      <3> SUFFICES ASSUME NEW q \in Requires[u], ~(state[q] >= EXECUTED) PROVE FALSE
        OBVIOUS
      <3>1. q \in Task /\ state[q] < EXECUTED
        <4>1. q \in Task
          BY TaskAssumption
        <4>2. QED
          BY <1>2, <4>1 DEF State, EXECUTED
      <3>2. u \in andSuccessors[q]
        BY <2>2 DEF DependencyInv, LinksComplete
      <3>3. StillCounts(q, u)'
        BY <1>1, <3>1, <3>2 DEF StillCounts
      <3>4. QED
        BY <2>1, <3>1, <3>3
    <2>4. QED
      BY <2>2, <2>3, StateType DEF Cleared
  <1>12. OneMove(Callback)
    BY <1>1 DEF OneMove
  <1>13. Cleared' = Cleared
    BY <1>1 DEF Cleared
  <1>14. ListsCleared
    BY <1>1, <1>11, <1>13 DEF ListsCleared, DependencyInv, AttemptsCleared
  <1>15. LinksGrow
    BY <1>1, NoLinks
  <1>16. \A v \in Task : state'[v] >= state[v]
    BY <1>1, <1>2 DEF State
  <1>17. QED
    BY <1>1, <1>9, <1>10, <1>12, <1>14, <1>15, <1>16, DependencyKept
LEMMA ReleaseDependency ==
  ASSUME OwnershipInv, OwnershipInv', DependencyInv, ReleaseResources
  PROVE  DependencyInv'
  <1>1. /\ Callback \in Thread /\ thread[Callback].at = "visit" /\ todo = {}
        /\ thread' = [thread EXCEPT ![Callback].at = "complete"]
        /\ readyQueue' = readyQueue \o tempList /\ tempList' = <<>>
        /\ UNCHANGED <<state, todo, prevOrdered, handle, andSuccessors, numPredecessors>>
    BY DEF ReleaseResources, HandlerLeavesUnchanged, Goto, At, Thread
  <1>2. /\ thread \in [Thread -> ThreadType] /\ state \in [Task -> State]
        /\ thread[Callback].task \in Task /\ handle[thread[Callback].task] # "none"
        /\ thread[Callback].via # "front" /\ state[thread[Callback].task] = EXECUTED
    BY <1>1 DEF OwnershipInv, OneOwner, HandleLabel, TypeInv, TypeOK, ThreadsNameTasks,
                ThreadType, At, DependencyInv, NothingOrdered, FirstAttemptAlone
  <1>3. /\ \A i \in Thread : i # Callback => thread'[i] = thread[i]
        /\ thread'[Callback].at = "complete" /\ thread'[Callback].via # "front"
        /\ thread'[Callback].task = thread[Callback].task
    BY <1>1, <1>2 DEF ThreadType
  <1>4. OneMove(Callback)
    BY <1>1, <1>2, <1>3 DEF OneMove, FirstLabel
  <1>5. ListsCleared
    <2>1. Cleared' = Cleared
      BY <1>1 DEF Cleared
    <2>2. QED
      BY <1>1, <2>1 DEF ListsCleared, DependencyInv, AttemptsCleared
  <1>6. LinksGrow
    BY <1>1, NoLinks
  <1>7. PredecessorCountExact'
    <2>1. \A p, u \in Task : StillCounts(p, u)' <=> StillCounts(p, u)
      BY <1>1, <1>3 DEF StillCounts, At
    <2>2. \A u \in Task : {p \in Task : StillCounts(p, u)}'
                          = {p \in Task : StillCounts(p, u)}
      BY <2>1
    <2>3. QED
      BY <1>1, <2>2 DEF DependencyInv, PredecessorCountExact
  <1>8. VisitsSuccessors' /\ \A u \in Task : state'[u] >= state[u]
    BY <1>1, <1>2, <1>3 DEF VisitsSuccessors, At, State
  <1>9. QED
    BY <1>1, <1>4, <1>5, <1>6, <1>7, <1>8, DependencyKept

LEMMA ProgressDependency ==
  ASSUME Unordered, OwnershipInv, OwnershipInv', DependencyInv,
         \A t \in Task : state'[t] >= state[t],
         MarkCompleted \/ DoProgress \/ PopReady
  PROVE  DependencyInv'
  <1> DEFINE t == thread[Callback].task
  <1>1. /\ Callback \in Thread /\ thread[Callback].at \in {"complete", "progress", "pop"}
        /\ UNCHANGED <<todo, tempList, prevOrdered, handle, andSuccessors,
                       numPredecessors>>
    BY DEF MarkCompleted, DoProgress, PopReady, HandlerLeavesUnchanged, At, Thread,
           handlerVars
  <1>2. /\ thread \in [Thread -> ThreadType] /\ state \in [Task -> State]
        /\ t \in Task /\ handle[t] # "none" /\ thread[Callback].via # "front"
        /\ thread[Callback].at = "complete" => state[t] = EXECUTED
    BY <1>1 DEF OwnershipInv, OneOwner, HandleLabel, TypeInv, TypeOK, ThreadsNameTasks,
                ThreadType, At, DependencyInv, NothingOrdered, FirstAttemptAlone
  \* The steps that start no attempt.
  <1> DEFINE Away ==
        /\ \A i \in Thread : i # Callback => thread'[i] = thread[i]
        /\ \/ thread'[Callback].at = "idle"
           \/ thread'[Callback].at \in {"progress", "pop"} /\ thread'[Callback].task = t
        /\ thread'[Callback].via # "front"
        /\ readyQueue' = readyQueue
        /\ \A u \in Task : \/ state'[u] = state[u]
                           \/ state[u] = EXECUTED /\ state'[u] = COMPLETED
  <1>3. CASE Away
    <2>1. NoAttempt(Callback)
      BY <1>1, <1>2, <1>3 DEF NoAttempt, FirstLabel, READY, EXECUTED, COMPLETED
    <2>2. SameCounts
      <3>1. \A u \in Task : state'[u] < EXECUTED <=> state[u] < EXECUTED
        BY <1>3 DEF EXECUTED, COMPLETED
      <3>2. SameVisit
        BY <1>1, <1>3 DEF SameVisit
      <3>3. QED
        BY <1>1, <3>1, <3>2 DEF SameCounts
    <2>3. QED
      BY <1>1, <2>1, <2>2, CountsKept, NoAttemptDependency
  <1>4. CASE MarkCompleted
    <2>1. /\ thread[Callback].at = "complete" /\ readyQueue' = readyQueue
          /\ thread' = [thread EXCEPT ![Callback].at = "progress"]
          /\ state' = [state EXCEPT ![t] = COMPLETED]
      BY <1>4 DEF MarkCompleted, Goto, At
    <2>2. Away
      BY <1>1, <1>2, <2>1 DEF ThreadType
    <2>3. QED
      BY <1>3, <2>2
  <1>5. CASE DoProgress
    <2>1. ~Ordered(t)
      BY <1>2 DEF Unordered
    <2>2. /\ thread' = [thread EXCEPT ![Callback].at = "pop"]
          /\ state' = state /\ readyQueue' = readyQueue
      BY <1>5, <2>1 DEF DoProgress, Goto
    <2>3. Away
      BY <1>1, <1>2, <2>2 DEF ThreadType
    <2>4. QED
      BY <1>3, <2>3
  <1>6. CASE PopReady
    <2>1. state' = state
      BY <1>6 DEF PopReady
    <2>2. CASE budget > 0 /\ readyQueue # <<>>
      <3>1. /\ thread' = [thread EXCEPT ![Callback] = Frame("try", Head(readyQueue), "drain")]
            /\ readyQueue' = Tail(readyQueue)
        BY <1>6, <2>2 DEF PopReady, Work
      <3>2. Cleared' = Cleared
        BY <2>1 DEF Cleared
      <3>3. /\ readyQueue \in Seq(Cleared) /\ tempList \in Seq(Cleared)
            /\ Head(readyQueue) \in Cleared /\ Tail(readyQueue) \in Seq(Cleared)
        BY <2>2 DEF DependencyInv, AttemptsCleared
      <3>4. /\ \A i \in Thread : i # Callback => thread'[i] = thread[i]
            /\ thread'[Callback].at = "try" /\ thread'[Callback].via = "drain"
            /\ thread'[Callback].task = Head(readyQueue)
        BY <1>1, <1>2, <3>1 DEF Frame
      <3>5. Head(readyQueue) \in Task /\ handle[Head(readyQueue)] # "none"
        <4>1. /\ Head(readyQueue) \in Task
              /\ state[Head(readyQueue)] # UNINITIALIZED
          BY <3>3, StateType DEF Cleared
        <4>2. QED
          BY <4>1 DEF DependencyInv, FirstAttemptAlone
      <3>6. OneMove(Callback)
        BY <1>1, <2>1, <3>2, <3>3, <3>4, <3>5 DEF OneMove, StartsAttempt
      <3>7. ListsCleared
        BY <1>1, <2>1, <3>1, <3>2, <3>3 DEF ListsCleared
      <3>8. SameCounts /\ LinksGrow
        BY <1>1, <2>1, <3>4, NoLinks DEF SameCounts, SameVisit
      <3>9. QED
        BY <1>1, <3>6, <3>7, <3>8, CountsKept, DependencyKept
    <2>3. CASE ~(budget > 0 /\ readyQueue # <<>>)
      <3>1. thread' = [thread EXCEPT ![Callback] = Idle] /\ readyQueue' = readyQueue
        BY <1>6, <2>3 DEF PopReady, Rest
      <3>2. Away
        BY <1>1, <1>2, <2>1, <3>1 DEF Idle, Frame
      <3>3. QED
        BY <1>3, <3>2
    <2>4. QED
      BY <2>2, <2>3
  <1>7. QED
    BY <1>4, <1>5, <1>6

-------------------------------------------------------------------------------
(***************************************************************************)
(* The calls.                                                              *)
(***************************************************************************)
LEMMA CallDependency ==
  ASSUME Unordered, OwnershipInv, OwnershipInv', DependencyInv,
         NEW a \in App, \A t \in Task : state'[t] >= state[t],
         Call(a) \/ SaveArgs(a)
  PROVE  DependencyInv'
  <1>1. /\ a \in Thread /\ a # Callback /\ Callback \in Thread
        /\ thread[a].at \in {"idle", "save"}
        /\ UNCHANGED <<state, todo, readyQueue, tempList, andSuccessors, numPredecessors>>
    BY ThreadAssumption
    DEF Thread, Call, Construct, ActivateTask, SaveArgs, At, taskVars, handlerVars
  <1>2. /\ thread \in [Thread -> ThreadType] /\ state \in [Task -> State]
        /\ handle \in [Task -> HandleType] /\ Cleared' = Cleared
        /\ thread[a].at # "idle" => thread[a].task \in Task
    BY <1>1
    DEF OwnershipInv, TypeInv, TypeOK, ThreadType, HandleType, ThreadsNameTasks, At, Cleared
  <1>3. ListsCleared /\ LinksGrow
    BY <1>1, <1>2, NoLinks DEF ListsCleared, DependencyInv, AttemptsCleared
  <1>4. ASSUME NEW t \in Task, Construct(a, t) PROVE OneMove(a)
    <2>1. /\ handle[t] = "none" /\ handle' = [handle EXCEPT ![t] = "object"]
          /\ prevOrdered' = prevOrdered
          /\ \E l \in {"create", "save", "try"} :
               thread' = [thread EXCEPT ![a] = Frame(l, t, "launch")]
      <3>1. ~Ordered(t)
        BY DEF Unordered
      <3>2. CASE t \in Created
        BY <1>4, <3>1, <3>2 DEF Construct, Work
      <3>3. CASE t \notin Created /\ IsKernel(t)
        BY <1>4, <3>1, <3>3 DEF Construct, Work
      <3>4. CASE t \notin Created /\ ~IsKernel(t)
        BY <1>4, <3>1, <3>4 DEF Construct, Work
      <3>5. QED
        BY <3>2, <3>3, <3>4
    <2>2. /\ \A i \in Thread : i # a => thread'[i] = thread[i]
          /\ thread'[a].at \in {"create", "save", "try"} /\ thread'[a].via = "launch"
          /\ thread'[a].task = t
      BY <1>1, <1>2, <2>1 DEF Frame
    <2>3. state[t] = UNINITIALIZED
      BY <2>1 DEF DependencyInv, FirstAttemptAlone
    <2>4. QED
      BY <1>1, <1>2, <2>1, <2>2, <2>3 DEF OneMove, StartsAttempt
  <1>5. ASSUME NEW t \in Task, ActivateTask(a, t) PROVE OneMove(a)
    <2>1. /\ handle[t] = "returned" /\ handle' = [handle EXCEPT ![t] = "activated"]
          /\ prevOrdered' = prevOrdered
          /\ \/ thread' = thread
             \/ /\ Requires[t] = {}
                /\ thread' = [thread EXCEPT ![a] = Frame("try", t, "activate")]
      BY <1>5 DEF ActivateTask, Unordered, Work, taskVars
    <2>2. state[t] # UNINITIALIZED
      BY <2>1 DEF DependencyInv, FirstAttemptAlone
    <2>3. CASE thread' = thread
      BY <1>1, <1>2, <2>1, <2>2, <2>3 DEF OneMove
    <2>4. CASE /\ Requires[t] = {}
               /\ thread' = [thread EXCEPT ![a] = Frame("try", t, "activate")]
      <3>1. /\ \A i \in Thread : i # a => thread'[i] = thread[i]
            /\ thread'[a].at = "try" /\ thread'[a].via = "activate"
            /\ thread'[a].task = t
        BY <1>1, <1>2, <2>4 DEF Frame
      <3>2. t \in Cleared'
        BY <1>2, <2>2, <2>4, StateType DEF Cleared
      <3>3. QED
        BY <1>1, <1>2, <2>1, <2>2, <3>1, <3>2 DEF OneMove, StartsAttempt
    <2>5. QED
      BY <2>1, <2>3, <2>4
  <1>6. ASSUME SaveArgs(a) PROVE OneMove(a)
    <2>1. /\ thread[a].at = "save" /\ thread' = [thread EXCEPT ![a].at = "try"]
          /\ handle' = handle /\ prevOrdered' = prevOrdered
      BY <1>6 DEF SaveArgs, At, Goto
    <2>2. handle[thread[a].task] # "none" /\ thread[a].via # "front"
      BY <1>1, <2>1 DEF DependencyInv, FirstAttemptAlone, NothingOrdered, At
    <2>3. /\ \A i \in Thread : i # a => thread'[i] = thread[i]
          /\ thread'[a].at = "try" /\ thread'[a].via = thread[a].via
          /\ thread'[a].task = thread[a].task
      BY <1>1, <1>2, <2>1 DEF ThreadType
    <2>4. QED
      BY <1>1, <2>1, <2>2, <2>3 DEF OneMove, StartsAttempt
  <1>7. OneMove(a)
    BY <1>4, <1>5, <1>6 DEF Call
  <1>8. SameCounts
    BY <1>1, <1>7 DEF SameCounts, SameVisit, OneMove
  <1>9. QED
    BY <1>1, <1>3, <1>7, <1>8, CountsKept, DependencyKept

LEMMA CreateDependency ==
  ASSUME OwnershipInv, OwnershipInv', DependencyInv, NEW a \in App,
         \A t \in Task : state'[t] >= state[t], CreateTask(a)
  PROVE  DependencyInv'
  <1> DEFINE t == thread[a].task
  <1>1. /\ a \in Thread /\ a # Callback /\ Callback \in Thread /\ thread[a].at = "create"
        /\ LinkTo(Unfinished(Requires[t]), t)
        /\ state' = [state EXCEPT ![t] = INITIALIZED]
        /\ handle' = [handle EXCEPT ![t] = "returned"]
        /\ thread' = [thread EXCEPT ![a] = Idle]
        /\ UNCHANGED <<prevOrdered, todo, readyQueue, tempList>>
    BY ThreadAssumption DEF Thread, CreateTask, At, Rest, handlerVars
  <1>2. /\ t \in Task /\ state[t] = UNINITIALIZED
        /\ thread \in [Thread -> ThreadType] /\ state \in [Task -> State]
        /\ handle \in [Task -> HandleType]
    BY <1>1 DEF OwnershipInv, TypeInv, TypeOK, ThreadsNameTasks, At, ThreadType,
                HandleType, DependencyInv, FirstAttemptAlone
  <1>3. /\ \A i \in Thread : i # a => thread'[i] = thread[i]
        /\ thread'[a].at = "idle" /\ thread'[a].via = "launch"
    BY <1>1, <1>2 DEF Idle, Frame
  <1>4. OneMove(a)
    BY <1>1, <1>2, <1>3
    DEF OneMove, FirstStored, FirstLabel, UNINITIALIZED, INITIALIZED
  <1>5. SameVisit
    BY <1>1, <1>3 DEF SameVisit
  <1>6. PredecessorCountExact' /\ VisitsSuccessors' /\ LinksGrow
    BY <1>1, <1>2, <1>5, FirstLinks
  <1>7. ListsCleared
    <2>1. /\ Cleared \subseteq Cleared'
          /\ readyQueue \in Seq(Cleared) /\ tempList \in Seq(Cleared)
      BY ClearedGrows DEF DependencyInv, AttemptsCleared
    <2>2. \A u \in Task : state'[u] >= READY => state[u] >= READY
      BY <1>1, <1>2 DEF INITIALIZED, READY
    <2>3. QED
      BY <1>1, <2>1, <2>2, SeqOfMore DEF ListsCleared
  <1>8. QED
    BY <1>1, <1>4, <1>6, <1>7, DependencyKept
-------------------------------------------------------------------------------
LEMMA DependencyStep ==
  ASSUME Unordered, CreatedUnordered, OwnershipInv, DependencyInv, [Next]_vars
  PROVE  DependencyInv'
  <1>1. OwnershipInv' /\ \A t \in Task : state'[t] >= state[t]
    BY OwnershipStep, StateAdvances
  <1>2. Callback \in Thread /\ \A a \in App : a \in Thread
    BY DEF Thread
  <1>3. ASSUME NEW h \in Thread, TryDispatch(h) \/ Dispatch(h) PROVE DependencyInv'
    BY <1>1, <1>3, FailedTryDependency, TryAcquiresDependency, DispatchDependency
    DEF TryDispatch
  <1>4. ASSUME NEW h \in Thread, TakeFront(h) PROVE FALSE
    BY <1>4 DEF TakeFront, At, DependencyInv, NothingOrdered
  <1>5. ASSUME NEW a \in App, Call(a) \/ AppStep(a) PROVE DependencyInv'
    BY <1>1, <1>2, <1>3, <1>4, <1>5, CallDependency, CreateDependency DEF AppStep
  <1>6. CASE Handler
    <2>1. CASE \E u \in Task : HandleSignal(u) \/ VisitSuccessor(u)
      BY <1>1, <2>1, HandleSignalDependency, VisitDependency
    <2>2. CASE ReleaseResources \/ MarkCompleted \/ DoProgress \/ PopReady
      BY <1>1, <2>2, ReleaseDependency, ProgressDependency
    <2>3. CASE TakeFront(Callback) \/ TryDispatch(Callback) \/ Dispatch(Callback)
      BY <1>2, <1>3, <1>4, <2>3
    <2>4. QED
      BY <1>6, <2>1, <2>2, <2>3 DEF Handler
  <1>7. ASSUME NEW t \in Task, Device(t) PROVE DependencyInv'
    BY <1>1, <1>7, DeviceDependency
  <1>8. CASE UNCHANGED vars
    <2>1. UNCHANGED <<state, thread, handle, readyQueue, tempList, todo, prevOrdered,
                      andSuccessors, numPredecessors>>
      BY <1>8 DEF vars, taskVars, handlerVars
    <2>2. NoAttempt(Callback) /\ SameCounts
      BY <2>1 DEF NoAttempt, SameCounts, SameVisit
    <2>3. QED
      BY <1>1, <1>2, <2>2, CountsKept, NoAttemptDependency
  <1>9. CASE Finished
    BY <1>8, <1>9 DEF Finished
  <1>10. QED
    BY <1>5, <1>6, <1>7, <1>8, <1>9 DEF Next

\* In a program of unordered groups both invariants hold throughout.
LEMMA BothInvariants == Unordered => (Spec => [](OwnershipInv /\ DependencyInv))
  <1> SUFFICES ASSUME Unordered PROVE Spec => [](OwnershipInv /\ DependencyInv)
    OBVIOUS
  <1>1. CreatedUnordered
    BY TaskAssumption DEF Unordered, CreatedUnordered
  <1>2. Init => OwnershipInv /\ DependencyInv
    BY <1>1, OwnershipInit, DependencyInit
  <1>3. OwnershipInv /\ DependencyInv /\ [Next]_vars => (OwnershipInv /\ DependencyInv)'
    BY <1>1, OwnershipStep, DependencyStep
  <1>4. QED
    BY <1>2, <1>3, PTL DEF Spec

(***************************************************************************)
(* The count of a task's predecessors is at all times the number of links  *)
(* not yet visited: none is lost or counted twice while one thread makes   *)
(* the links and the handler walks the lists of those that finish.         *)
(***************************************************************************)
THEOREM PredecessorsCounted == Unordered => (Spec => []PredecessorCountExact)
  <1>1. DependencyInv => PredecessorCountExact
    BY DEF DependencyInv
  <1>2. QED
    BY <1>1, BothInvariants, PTL

(***************************************************************************)
(* In an unordered group no task is committed to a device before all it    *)
(* requires have executed and their packets are gone, though requirements  *)
(* are looked at by the first attempt only.  (Of ordered groups this is    *)
(* false: see DependenciesRespected in the runs.)                          *)
(***************************************************************************)
THEOREM DependenciesAreRespected == Unordered => (Spec => []DependenciesRespected)
  <1>1. OwnershipInv /\ DependencyInv => DependenciesRespected
    <2> SUFFICES ASSUME OwnershipInv, DependencyInv, NEW t \in Task, state[t] >= READY,
                        NEW p \in Requires[t]
                 PROVE  state[p] >= EXECUTED /\ packetsLeft[p] = 0
      BY DEF DependenciesRespected
    <2>1. t \in Cleared /\ p \in Task
      BY TaskAssumption DEF DependencyInv, AttemptsCleared
    <2>2. state[p] >= EXECUTED
      BY <2>1 DEF Cleared
    <2>3. p \notin InFlight
      BY <2>2 DEF InFlight, READY, DISPATCHED, EXECUTED
    <2>4. packetsLeft[p] = 0
      BY <2>1, <2>3 DEF OwnershipInv, PacketsInFlight, TypeInv, TypeOK
    <2>5. QED
      BY <2>2, <2>4
  <1>2. QED
    BY <1>1, BothInvariants, PTL

-------------------------------------------------------------------------------
(***************************************************************************)
(* The refinement of TaskGraph.                                            *)
(***************************************************************************)
Begun == {t \in Task : state[t] >= READY}
Done == {t \in Task : state[t] >= READY /\ packetsLeft[t] = 0}

LEMMA GraphInit == Init => Graph!Init
  BY DEF Init, Graph!Init, UNINITIALIZED, READY

\* A task begins in the step that gives it its packets.
LEMMA AcquiringBegins ==
  ASSUME OwnershipInv, OwnershipInv', DependencyInv, DependencyInv',
         NEW h \in Thread, \A t \in Task : state'[t] >= state[t], TryAcquires(h)
  PROVE  Graph!Begin(thread[h].task) /\ thread[h].task \in Task
  <1> DEFINE t == thread[h].task
  <1>1. /\ thread[h].at = "try" /\ state[t] < READY
        /\ state' = [state EXCEPT ![t] = READY]
        /\ packetsLeft' = [packetsLeft EXCEPT ![t] = Packets[t]]
    BY DEF TryAcquires, At, Dispatchable, AcquireAqlPacket
  <1>2. /\ t \in Task /\ state \in [Task -> State] /\ packetsLeft \in [Task -> Int]
        /\ Packets[t] \in Nat \ {0} /\ Requires[t] \subseteq Task
    <2>1. t \in Task
      BY <1>1 DEF OwnershipInv, TypeInv, ThreadsNameTasks, At
    <2>2. state \in [Task -> State] /\ packetsLeft \in [Task -> Int]
      BY DEF OwnershipInv, TypeInv, TypeOK
    <2>3. QED
      BY <2>1, <2>2, TaskAssumption
  <1>3. t \notin Begun /\ Begun' = Begun \cup {t}
    BY <1>1, <1>2 DEF Begun, State, READY, UNINITIALIZED, COMPLETED
  <1>4. Done' = Done
    <2>1. t \notin Done /\ t \notin Done'
      BY <1>1, <1>2, <1>3 DEF Begun, Done
    <2>2. \A u \in Task : u # t => state'[u] = state[u] /\ packetsLeft'[u] = packetsLeft[u]
      BY <1>1, <1>2
    <2>3. QED
      BY <2>1, <2>2 DEF Done
  <1>5. Requires[t] \subseteq Done
    <2> SUFFICES ASSUME NEW p \in Requires[t] PROVE p \in Done
      OBVIOUS
    <2>1. p \in Task /\ t \in Cleared'
      BY <1>1, <1>2 DEF DependencyInv, AttemptsCleared, READY
    <2>2. state'[p] >= EXECUTED
      BY <2>1 DEF Cleared
    <2>3. p # t
      BY <1>1, <1>2, <2>2 DEF READY, EXECUTED
    <2>4. state[p] >= EXECUTED /\ state[p] >= READY
      BY <1>1, <1>2, <2>1, <2>2, <2>3 DEF State, READY, EXECUTED
    <2>5. packetsLeft[p] = 0
      BY <1>2, <2>1, <2>4 DEF OwnershipInv, PacketsInFlight, InFlight, READY, DISPATCHED,
                              EXECUTED
    <2>6. QED
      BY <2>1, <2>4, <2>5 DEF Done
  <1>6. QED
    BY <1>2, <1>3, <1>4, <1>5 DEF Begun, Done, Graph!Begin

\* Every other step begins nothing.
LEMMA OthersBeginNothing ==
  ASSUME OwnershipInv, [Next]_vars, \A h \in Thread : ~TryAcquires(h)
  PROVE  Begun' = Begun
  <1>1. state \in [Task -> State]
    BY DEF OwnershipInv, TypeInv, TypeOK
  <1>2. \A t \in Task : state'[t] >= READY <=> state[t] >= READY
    <2> USE DEF UNINITIALIZED, INITIALIZED, READY, DISPATCHED, EXECUTED, COMPLETED
    <2>1. CASE state' = state
      BY <2>1
    <2>2. ASSUME NEW h \in Thread, KeepForLater(h) \/ MarkDispatched(h)
          PROVE  \A t \in Task : state'[t] >= READY <=> state[t] >= READY
      <3>1. CASE KeepForLater(h)
        BY <1>1, <3>1 DEF KeepForLater, State
      <3>2. CASE MarkDispatched(h)
        <4>1. /\ state[thread[h].task] \in {READY, DISPATCHED}
              /\ state' = [state EXCEPT ![thread[h].task] = DISPATCHED]
          BY <3>2 DEF MarkDispatched, At, OwnershipInv, OneOwner, DispatchLabel, InFlight
        <4>2. QED
          BY <1>1, <4>1
      <3>3. QED
        BY <2>2, <3>1, <3>2
    <2>3. ASSUME NEW a \in App, CreateTask(a)
          PROVE  \A t \in Task : state'[t] >= READY <=> state[t] >= READY
      <3>1. /\ a \in Thread /\ At(a, "create")
            /\ state' = [state EXCEPT ![thread[a].task] = INITIALIZED]
        BY <2>3 DEF CreateTask, Thread
      <3>2. state[thread[a].task] = UNINITIALIZED
        BY <3>1, TaskAssumption DEF OwnershipInv, CreationPrivate, Known
      <3>3. QED
        BY <1>1, <3>1, <3>2
    <2>4. ASSUME NEW u \in Task, HandleSignal(u) \/ CopierMark(u)
          PROVE  \A t \in Task : state'[t] >= READY <=> state[t] >= READY
      <3>1. state[u] \in {READY, DISPATCHED}
        BY <2>4 DEF HandleSignal, CopierMark, OwnershipInv, OneOwner, PacketsInFlight, InFlight
      <3>2. \/ state' = [state EXCEPT ![u] = EXECUTED]
            \/ state' = [state EXCEPT ![u] = DISPATCHED]
        BY <2>4 DEF HandleSignal, CopierMark
      <3>3. QED
        BY <1>1, <3>1, <3>2
    <2>5. CASE MarkCompleted
      <3>1. /\ state' = [state EXCEPT ![thread[Callback].task] = COMPLETED]
            /\ state[thread[Callback].task] = EXECUTED
        BY <2>5 DEF MarkCompleted, At, Thread, OwnershipInv, OneOwner, HandleLabel
      <3>2. QED
        BY <1>1, <3>1
    <2>6. QED
      BY <2>1, <2>2, <2>3, <2>4, <2>5, StateSteps
  <1>3. QED
    BY <1>2 DEF Begun

LEMMA GraphStep ==
  ASSUME Unordered, CreatedUnordered, OwnershipInv, DependencyInv, [Next]_vars
  PROVE  [Graph!Next]_(Graph!vars)
  <1>1. /\ OwnershipInv' /\ DependencyInv'
        /\ \A t \in Task : state'[t] >= state[t]
    BY OwnershipStep, DependencyStep, StateAdvances
  <1>2. ASSUME NEW h \in Thread, TryAcquires(h) PROVE Graph!Next
    <2>1. Graph!Begin(thread[h].task) /\ thread[h].task \in Task
      BY <1>1, <1>2, AcquiringBegins
    <2>2. QED
      BY <2>1 DEF Graph!Next, Graph!Begin
  <1>3. CASE \A h \in Thread : ~TryAcquires(h)
    <2>1. Begun' = Begun
      BY <1>3, OthersBeginNothing
    <2>2. CASE packetsLeft' = packetsLeft
      <3>1. Done' = Done
        BY <2>1, <2>2 DEF Begun, Done
      <3>2. QED
        BY <2>1, <3>1 DEF Begun, Done, Graph!vars
    <2>3. ASSUME NEW u \in Task, packetsLeft' = [packetsLeft EXCEPT ![u] = @ - 1]
          PROVE  [Graph!Next]_(Graph!vars)
      <3>1. /\ packetsLeft \in [Task -> Int] /\ packetsLeft'[u] = packetsLeft[u] - 1
            /\ packetsLeft'[u] >= 0
            /\ \A t \in Task : t # u => packetsLeft'[t] = packetsLeft[t]
        BY <1>1, <2>3 DEF OwnershipInv, TypeInv, TypeOK, PacketsInFlight
      <3>2. packetsLeft[u] > 0 /\ u \in Begun
        BY <3>1 DEF OwnershipInv, PacketsInFlight, InFlight, Begun, READY, DISPATCHED
      <3>3. CASE packetsLeft'[u] = 0
        <4>1. u \notin Done /\ Done' = Done \cup {u}
          BY <2>1, <3>1, <3>2, <3>3 DEF Begun, Done
        <4>2. QED
          BY <2>1, <3>2, <4>1 DEF Begun, Done, Graph!Next, Graph!Finish
      <3>4. CASE packetsLeft'[u] # 0
        <4>1. Done' = Done
          BY <2>1, <3>1, <3>2, <3>4 DEF Begun, Done
        <4>2. QED
          BY <2>1, <4>1 DEF Begun, Done, Graph!vars
      <3>5. QED
        BY <3>3, <3>4
    <2>4. QED
      BY <1>3, <2>2, <2>3, PacketSteps
  <1>4. QED
    BY <1>2, <1>3

(***************************************************************************)
(* HostCallback implements the safety part of TaskGraph: whatever threads, *)
(* handler and devices do, each step begins a task whose requirements have *)
(* finished, finishes a begun one, or changes neither.  (That begun tasks  *)
(* finish is left to ImplementsTaskGraph, which the runs check.)           *)
(***************************************************************************)
THEOREM StepsOfTaskGraph ==
  Unordered => (Spec => Graph!Init /\ [][Graph!Next]_(Graph!vars))
  <1> SUFFICES ASSUME Unordered
               PROVE  Spec => Graph!Init /\ [][Graph!Next]_(Graph!vars)
    OBVIOUS
  <1>1. CreatedUnordered
    BY TaskAssumption DEF Unordered, CreatedUnordered
  <1>2. OwnershipInv /\ DependencyInv /\ [Next]_vars => [Graph!Next]_(Graph!vars)
    BY <1>1, GraphStep
  <1>3. QED
    BY <1>2, GraphInit, BothInvariants, PTL DEF Spec
================================================================================

---------------------------- MODULE Services_proofs ----------------------------
(***************************************************************************)
(* Proofs about the services, for any threads, calls, blocks and launches: *)
(* the tracker of allocations is exact; a task covers what its kernels     *)
(* launch; for disciplined programs, the runtime is usable while it says   *)
(* that it is initialised; for careful programs, what a copy should have   *)
(* written is in its destination when it is over; and, for both, the types *)
(* of the services, with the bounds of their signals and references.       *)
(***************************************************************************)
EXTENDS Services, FiniteSetTheorems, TLAPS

-------------------------------------------------------------------------------
(***************************************************************************)
(* The threads and their calls.                                            *)
(***************************************************************************)
CallsInv ==
  /\ program \in Programs
  /\ pc \in [Thread -> Label]
  /\ calls \in [App -> Seq(AllCalls(program))]
  /\ \A a \in App : pc[a] # "idle" => calls[a] # <<>>

LEMMA CurrentIsCall ==
  ASSUME CallsInv, NEW a \in App, calls[a] # <<>>
  PROVE  Current(a) \in AllCalls(program)
  BY DEF CallsInv, Current

LEMMA NamedVariable ==
  ASSUME CallsInv, NEW a \in App, calls[a] # <<>>, Current(a).op \in {"malloc", "free"}
  PROVE  Current(a).var \in Pointer
  BY CurrentIsCall, DataAssumption DEF CallsInv

LEMMA GoToKeepsCalls ==
  ASSUME CallsInv, NEW x \in Thread, NEW l \in Label, GoTo(x, l),
         x \in App => calls[x] # <<>>
  PROVE  CallsInv'
  BY DEF CallsInv, GoTo, AllCalls, Thread

LEMMA ReturnKeepsCalls ==
  ASSUME CallsInv, NEW a \in App, calls[a] # <<>>, Return(a)
  PROVE  CallsInv'
  <1>1. program' = program /\ AllCalls(program)' = AllCalls(program)
    BY DEF Return, AllCalls
  <1>2. calls' = [calls EXCEPT ![a] = Tail(@)] /\ pc' = [pc EXCEPT ![a] = "idle"]
    BY DEF Return
  <1>3. Tail(calls[a]) \in Seq(AllCalls(program))
    BY DEF CallsInv
  <1>4. calls' \in [App -> Seq(AllCalls(program))]
    BY <1>2, <1>3 DEF CallsInv
  <1>5. pc' \in [Thread -> Label]
    BY <1>2 DEF CallsInv, Label, Others
  <1>6. \A b \in App : pc'[b] # "idle" => calls'[b] # <<>>
    BY <1>2 DEF CallsInv, Thread
  <1>7. QED
    BY <1>1, <1>4, <1>5, <1>6 DEF CallsInv

\* How a thread that has made a call goes on.
Proceeds(x, Labels) ==
  \/ \E l \in Labels : GoTo(x, l)
  \/ x \in App /\ Return(x)
  \/ Exit
  \/ UNCHANGED appVars

LEMMA ProceedsKeepsCalls ==
  ASSUME CallsInv, NEW x \in Thread, x \in App => calls[x] # <<>>,
         Proceeds(x, Label)
  PROVE  CallsInv'
  <1>1. CASE \E l \in Label : GoTo(x, l)
    BY <1>1, GoToKeepsCalls
  <1>2. CASE x \in App /\ Return(x)
    BY <1>2, ReturnKeepsCalls
  <1>3. CASE Exit \/ UNCHANGED appVars
    BY <1>3 DEF Exit, appVars, CallsInv, AllCalls
  <1>4. QED
    BY <1>1, <1>2, <1>3 DEF Proceeds

LEMMA LifeProceeds ==
  ASSUME CallsInv, NEW a \in App, LifeCall(a)
  PROVE  Proceeds(a, Others) /\ pc[a] \notin Unregistered /\ calls[a] # <<>>
  <1> USE DEF Calling, Proceeds, Unregistered, Others, CallsInv
  <1>1. CASE CallInitialize(a)
    BY <1>1 DEF CallInitialize
  <1>2. CASE InitGPU(a)
    BY <1>2 DEF InitGPU, Context
  <1>3. CASE InitCPU(a)
    BY <1>3 DEF InitCPU, Context
  <1>4. CASE SetInitialized(a) \/ InitDeviceRuntime(a)
    BY <1>4 DEF SetInitialized, InitDeviceRuntime
  <1>5. CASE CallFinalize(a) \/ DestroyQueues(a) \/ ClearTables(a)
    BY <1>5 DEF CallFinalize, DestroyQueues, ClearTables
  <1>6. CASE ResetInitialized(a) \/ ShutDown(a)
    BY <1>6 DEF ResetInitialized, ShutDown
  <1>7. CASE CallGroupCreate(a) \/ ConstructGroup(a)
    BY <1>7 DEF CallGroupCreate, ConstructGroup
  <1>8. CASE PushGroup(a) \/ CallGroupRelease(a)
    BY <1>8 DEF PushGroup, CallGroupRelease
  <1>9. CASE CallRegisterModule(a) \/ CallCreateKernel(a)
    BY <1>9 DEF CallRegisterModule, CallCreateKernel
  <1>10. CASE AddGPUKernelImpl(a) \/ FillTemplate(a)
    BY <1>10 DEF AddGPUKernelImpl, FillTemplate
  <1>11. CASE CallReleaseKernel(a) \/ WaitTasks(a)
    BY <1>11 DEF CallReleaseKernel, WaitTasks
  <1>12. QED
    BY <1>1, <1>2, <1>3, <1>4, <1>5, <1>6, <1>7, <1>8, <1>9, <1>10, <1>11
       DEF LifeCall

LEMMA DeviceProceeds ==
  ASSUME CallsInv, NEW a \in App, DeviceCall(a)
  PROVE  Proceeds(a, Others) /\ pc[a] \notin Unregistered /\ calls[a] # <<>>
  BY DEF DeviceCall, CallLaunch, WaitTask, Calling, Proceeds, Unregistered, Others, CallsInv


-------------------------------------------------------------------------------
(***************************************************************************)
(* The tracker.  Each block that HSA has given out is in the hands of one   *)
(* thread or of one variable at most; a thread may hold one that is not in *)
(* the tracker between the allocation and register_allocation, and between *)
(* the removal of the range and the call that gives the block back.        *)
(***************************************************************************)
TrackTypes ==
  /\ tracked \subseteq allocated /\ allocated \subseteq Block
  /\ pointer \in [Pointer -> tracked \cup {Junk}]
  /\ block \in [Thread -> allocated \cup {Junk}]

BlocksHeld ==
  \A x \in Thread :
    /\ pc[x] \notin Unregistered => block[x] \in tracked \cup {Junk}
    /\ pc[x] = "register" => block[x] # Junk
    /\ pc[x] = "release" => block[x] \notin tracked

\* Nobody else has the block of thread x, and no two variables the same.
BlocksApart ==
  /\ \A x, y \in Thread : block[x] = block[y] => x = y \/ block[x] = Junk
  /\ \A v, w \in Pointer : pointer[v] = pointer[w] => v = w \/ pointer[v] = Junk
  /\ \A x \in Thread, v \in Pointer : block[x] = pointer[v] => block[x] = Junk

TrackInv == TrackTypes /\ BlocksHeld /\ BlocksApart

LEMMA TrackInvExact ==
  TrackInv => TrackerExact
  BY DEF TrackInv, TrackTypes, BlocksHeld, TrackerExact, Unregistered

\* A step that leaves the tracker and the blocks alone.
LEMMA TrackKept ==
  ASSUME TrackInv, UNCHANGED trackVars,
         \A x \in Thread :
           \/ pc'[x] = pc[x]
           \/ pc'[x] = "allocate"
           \/ pc'[x] \notin Unregistered /\ pc[x] \notin Unregistered
  PROVE  TrackInv'
  BY DEF TrackInv, TrackTypes, BlocksHeld, BlocksApart, trackVars, Unregistered

LEMMA QuietKeepsTrack ==
  ASSUME CallsInv, TrackInv, UNCHANGED trackVars, NEW x \in Thread,
         pc[x] \notin Unregistered,
         Proceeds(x, Others \cup {"allocate"})
  PROVE  TrackInv'
  <1>1. \/ \E l \in Others \cup {"allocate"} : pc' = [pc EXCEPT ![x] = l]
        \/ pc' = pc
    <2>1. "idle" \in Others
      BY DEF Others
    <2>2. CASE \E l \in Others \cup {"allocate"} : GoTo(x, l)
      BY <2>2 DEF GoTo
    <2>3. CASE Return(x)
      BY <2>1, <2>3 DEF Return
    <2>4. CASE Exit \/ UNCHANGED appVars
      BY <2>4 DEF Exit, appVars
    <2>5. QED
      BY <2>2, <2>3, <2>4 DEF Proceeds
  <1>2. \A l \in Others : l \notin Unregistered
    BY DEF Others, Unregistered
  <1>3. QED
    BY <1>1, <1>2, TrackKept DEF CallsInv

LEMMA TrackInit ==
  ASSUME DataInit, AppInit
  PROVE  TrackInv
  BY DEF DataInit, AppInit, TrackInv, TrackTypes, BlocksHeld, BlocksApart,
         Unregistered

LEMMA AllocateKeepsTrack ==
  ASSUME CallsInv, TrackInv, NEW x \in Thread, Allocate(x)
  PROVE  TrackInv'
  <1>1. PICK b \in Block \ allocated :
          /\ allocated' = allocated \cup {b} /\ block' = [block EXCEPT ![x] = b]
    BY DEF Allocate
  <1>2. /\ tracked' = tracked /\ pointer' = pointer
        /\ pc' = [pc EXCEPT ![x] = "register"]
    BY DEF Allocate, GoTo
  <1>3. b # Junk
    BY DataAssumption
  <1>4. TrackTypes'
    BY <1>1, <1>2 DEF TrackInv, TrackTypes
  <1>5. BlocksHeld'
    BY <1>1, <1>2, <1>3 DEF TrackInv, TrackTypes, BlocksHeld, CallsInv, Unregistered
  <1>6. BlocksApart'
    BY <1>1, <1>2, <1>3 DEF TrackInv, TrackTypes, BlocksApart
  <1>7. QED
    BY <1>4, <1>5, <1>6 DEF TrackInv

LEMMA RegisterKeepsTrack ==
  ASSUME CallsInv, TrackInv, NEW x \in Thread, Register(x)
  PROVE  TrackInv'
  <1> DEFINE b == block[x]
  <1>1. /\ pc[x] = "register" /\ tracked' = tracked \cup {b} /\ allocated' = allocated
        /\ b \in allocated /\ b # Junk
    BY DEF Register, TrackInv, TrackTypes, BlocksHeld
  <1>2. CASE x \in App /\ Current(x).op = "malloc"
    <2> DEFINE v == Current(x).var
    <2>1. v \in Pointer
      BY <1>1, <1>2, NamedVariable DEF CallsInv
    <2>2. /\ pointer' = [pointer EXCEPT ![v] = b]
          /\ block' = [block EXCEPT ![x] = Junk]
          /\ pc' = [pc EXCEPT ![x] = "idle"]
      BY <1>2 DEF Register, Return
    <2> HIDE DEF b, v
    <2>3. TrackTypes'
      BY <1>1, <2>1, <2>2 DEF TrackInv, TrackTypes
    <2>4. BlocksHeld'
      <3>1. SUFFICES ASSUME NEW y \in Thread, y # x
                     PROVE  /\ pc[y] \notin Unregistered => block[y] \in tracked' \cup {Junk}
                            /\ pc[y] = "register" => block[y] # Junk
                            /\ pc[y] = "release" => block[y] \notin tracked'
        BY <2>2 DEF BlocksHeld, TrackInv, TrackTypes, CallsInv, Unregistered
      <3>2. block[y] # b
        BY <1>1, <3>1 DEF TrackInv, BlocksApart, b
      <3>3. QED
        BY <1>1, <3>2 DEF TrackInv, BlocksHeld
    <2>5. BlocksApart'
      <3>1. \A y \in Thread : y # x => block[y] # b
        BY <1>1 DEF TrackInv, BlocksApart, b
      <3>2. \A w \in Pointer : pointer[w] # b
        BY <1>1 DEF TrackInv, BlocksApart, b
      <3>3. /\ \A y \in Thread : block'[y] = IF y = x THEN Junk ELSE block[y]
            /\ \A w \in Pointer : pointer'[w] = IF w = v THEN b ELSE pointer[w]
        BY <2>1, <2>2 DEF TrackInv, TrackTypes
      <3>4. QED
        BY <3>1, <3>2, <3>3 DEF TrackInv, BlocksApart
    <2>6. QED
      BY <2>3, <2>4, <2>5 DEF TrackInv
  <1>3. CASE ~(x \in App /\ Current(x).op = "malloc")
    <2>1. pointer' = pointer /\ block' = block /\ pc' = [pc EXCEPT ![x] = "fill"]
      BY <1>3 DEF Register, GoTo
    <2>2. TrackTypes'
      BY <1>1, <2>1 DEF TrackInv, TrackTypes
    <2>3. BlocksHeld'
      <3>1. \A y \in Thread : y # x => block[y] # b
        BY <1>1 DEF TrackInv, BlocksApart
      <3>2. QED
        BY <1>1, <2>1, <3>1 DEF TrackInv, BlocksHeld, CallsInv, Unregistered
    <2>4. BlocksApart'
      BY <2>1 DEF TrackInv, BlocksApart
    <2>5. QED
      BY <2>2, <2>3, <2>4 DEF TrackInv
  <1>4. QED
    BY <1>2, <1>3

LEMMA CallFreeKeepsTrack ==
  ASSUME CallsInv, TrackInv, NEW a \in App, CallFree(a)
  PROVE  TrackInv'
  <1> DEFINE v == Current(a).var
  <1>1. v \in Pointer /\ a \in Thread
    BY NamedVariable DEF CallFree, Calling, Thread
  <1>2. /\ block' = [block EXCEPT ![a] = pointer[v]]
        /\ pointer' = [pointer EXCEPT ![v] = Junk]
        /\ pc' = [pc EXCEPT ![a] = "find"]
        /\ tracked' = tracked /\ allocated' = allocated
    BY DEF CallFree, GoTo
  <1> HIDE DEF v
  <1>3. TrackTypes'
    BY <1>1, <1>2 DEF TrackInv, TrackTypes
  <1>4. BlocksHeld'
    BY <1>1, <1>2 DEF TrackInv, TrackTypes, BlocksHeld, CallsInv, Unregistered
  <1>5. BlocksApart'
    <2>1. /\ \A y \in Thread : block'[y] = IF y = a THEN pointer[v] ELSE block[y]
          /\ \A w \in Pointer : pointer'[w] = IF w = v THEN Junk ELSE pointer[w]
      BY <1>1, <1>2 DEF TrackInv, TrackTypes
    <2>2. QED
      BY <1>1, <2>1 DEF TrackInv, BlocksApart
  <1>6. QED
    BY <1>3, <1>4, <1>5 DEF TrackInv

LEMMA RemoveKeepsTrack ==
  ASSUME CallsInv, TrackInv, NEW x \in Thread, RemoveRange(x)
  PROVE  TrackInv'
  <1> DEFINE b == block[x]
  <1>1. /\ pc[x] = "remove" /\ tracked' = tracked \ {b}
        /\ pc' = [pc EXCEPT ![x] = "release"]
        /\ allocated' = allocated /\ block' = block /\ pointer' = pointer
    BY DEF RemoveRange, GoTo
  <1>2. b = Junk => b \notin tracked
    BY DataAssumption DEF TrackInv, TrackTypes
  <1>3. \A v \in Pointer : pointer[v] \in tracked' \cup {Junk}
    BY <1>1, <1>2 DEF TrackInv, TrackTypes, BlocksApart
  <1>4. TrackTypes'
    BY <1>1, <1>3 DEF TrackInv, TrackTypes
  <1>5. BlocksHeld'
    <2>1. \A y \in Thread : y # x => block[y] # b \/ b = Junk
      BY DEF TrackInv, BlocksApart
    <2>2. QED
      BY <1>1, <1>2, <2>1 DEF TrackInv, BlocksHeld, CallsInv, Unregistered
  <1>6. BlocksApart'
    BY <1>1 DEF TrackInv, BlocksApart
  <1>7. QED
    BY <1>4, <1>5, <1>6 DEF TrackInv

LEMMA ReleaseKeepsTrack ==
  ASSUME CallsInv, TrackInv, NEW x \in Thread, Release(x)
  PROVE  TrackInv'
  <1> DEFINE b == block[x]
  <1>1. /\ pc[x] = "release" /\ allocated' = allocated \ {b}
        /\ block' = [block EXCEPT ![x] = Junk]
        /\ tracked' = tracked /\ pointer' = pointer
    BY DEF Release
  <1>2. PICK l \in Others : pc' = [pc EXCEPT ![x] = l]
    BY DEF Release, GoTo, Others
  <1>3. b \notin tracked
    BY <1>1 DEF TrackInv, BlocksHeld
  <1>4. \A y \in Thread : y # x => block[y] # b \/ b = Junk
    BY DEF TrackInv, BlocksApart
  <1>5. TrackTypes'
    BY <1>1, <1>3, <1>4 DEF TrackInv, TrackTypes
  <1>6. BlocksHeld'
    BY <1>1, <1>2 DEF TrackInv, TrackTypes, BlocksHeld, CallsInv, Unregistered, Others
  <1>7. BlocksApart'
    BY <1>1 DEF TrackInv, TrackTypes, BlocksApart
  <1>8. QED
    BY <1>5, <1>6, <1>7 DEF TrackInv

\* The steps of the services that move no block, with where they lead.
LEMMA CallProceeds ==
  ASSUME CallsInv, NEW a \in App, DataCall(a), ~CallFree(a)
  PROVE  /\ UNCHANGED trackVars
         /\ Proceeds(a, Others \cup {"allocate"})
         /\ pc[a] \notin Unregistered /\ calls[a] # <<>>
  <1> USE DEF Calling, Inside, Proceeds, Unregistered, Others, CallsInv, dataVars,
              trackVars
  <1>1. CASE CallMalloc(a) \/ ReturnFree(a) \/ CallMemcpy(a)
    BY <1>1 DEF CallMalloc, ReturnFree, CallMemcpy
  <1>2. CASE Store(a) \/ ReturnMemcpy(a)
    BY <1>2 DEF Store, ReturnMemcpy
  <1>3. CASE CallMemcpyAsync(a) \/ WaitCopy(a)
    BY <1>3 DEF CallMemcpyAsync, WaitCopy
  <1>4. QED
    BY <1>1, <1>2, <1>3 DEF DataCall

LEMMA QuietProceeds ==
  ASSUME CallsInv, NEW x \in Thread,
         Find(x) \/ Fill(x) \/ Submit(x) \/ Wait(x) \/ Back(x)
  PROVE  /\ UNCHANGED trackVars
         /\ Proceeds(x, Others \cup {"allocate"})
         /\ pc[x] \notin Unregistered /\ pc[x] # "idle"
  <1> USE DEF Proceeds, Unregistered, Others, dataVars, trackVars
  <1>1. CASE Find(x)
    BY <1>1 DEF Find
  <1>2. CASE Fill(x) \/ Submit(x)
    BY <1>2 DEF Fill, Submit
  <1>3. CASE Wait(x) \/ Back(x)
    BY <1>3 DEF Wait, Back
  <1>4. QED
    BY <1>1, <1>2, <1>3

\* A copy may be dispatched again while its thread is anywhere.
LEMMA CopyProceeds ==
  ASSUME NEW t \in Copy, CopyStep(t)
  PROVE  /\ t \in Thread /\ t \notin App /\ UNCHANGED trackVars
         /\ \/ \E l \in {"allocate", "idle"} : GoTo(t, l) /\ (l = "idle" => pc[t] = "subtract")
            \/ UNCHANGED appVars
  <1>1. t \in Thread /\ t \notin App
    BY ApplicationAssumption DEF Thread
  <1>2. QED
    BY <1>1 DEF CopyStep, DispatchCopy, Subtract, CompleteCopy

LEMMA MovingProceeds ==
  ASSUME CallsInv, NEW x \in Thread,
         \/ Allocate(x) \/ Register(x) \/ RemoveRange(x) \/ Release(x)
         \/ x \in App /\ CallFree(x)
  PROVE  Proceeds(x, Label) /\ (x \in App => calls[x] # <<>>)
  <1> USE DEF Proceeds, Label, Others, Unregistered, CallsInv
  <1>1. CASE Allocate(x) \/ Register(x)
    BY <1>1 DEF Allocate, Register
  <1>2. CASE RemoveRange(x) \/ Release(x)
    BY <1>2 DEF RemoveRange, Release
  <1>3. CASE x \in App /\ CallFree(x)
    BY <1>3 DEF CallFree, Calling
  <1>4. QED
    BY <1>1, <1>2, <1>3

LEMMA LabelsTogether ==
  Others \subseteq Label /\ Others \cup {"allocate"} \subseteq Label
  BY DEF Label, Unregistered

LEMMA ProceedsAnywhere ==
  ASSUME NEW x \in Thread, NEW S \in SUBSET Label, Proceeds(x, S)
  PROVE  Proceeds(x, Label)
  BY DEF Proceeds

LEMMA DataProceeds ==
  ASSUME CallsInv, NEW x \in Thread, Data(x)
  PROVE  Proceeds(x, Label) /\ (x \in App => calls[x] # <<>>)
  <1>1. CASE x \in App /\ DataCall(x) /\ ~CallFree(x)
    BY <1>1, CallProceeds, ProceedsAnywhere, LabelsTogether
  <1>2. CASE \/ Allocate(x) \/ Register(x) \/ RemoveRange(x) \/ Release(x)
             \/ x \in App /\ CallFree(x)
    BY <1>2, MovingProceeds
  <1>3. CASE Find(x) \/ Fill(x) \/ Submit(x) \/ Wait(x) \/ Back(x)
    <2>1. x \in App => calls[x] # <<>>
      BY <1>3, QuietProceeds DEF CallsInv
    <2>2. QED
      BY <1>3, <2>1, QuietProceeds, ProceedsAnywhere, LabelsTogether
  <1>4. CASE x \in Copy /\ CopyStep(x)
    BY <1>4, CopyProceeds DEF Proceeds, Label, Others, Unregistered
  <1>5. QED
    BY <1>1, <1>2, <1>3, <1>4 DEF Data, DataStep

LEMMA AwaitProceeds ==
  ASSUME NEW a \in App, Await(a)
  PROVE  Proceeds(a, Others) /\ pc[a] \notin Unregistered /\ calls[a] # <<>>
  BY DEF Await, Calling, Proceeds, Unregistered

\* Every step is one of a thread that has made a call, or leaves the threads alone.
LEMMA StepProceeds ==
  ASSUME CallsInv, [Next]_serviceVars
  PROVE  \/ UNCHANGED appVars
         \/ \E x \in Thread : Proceeds(x, Label) /\ (x \in App => calls[x] # <<>>)
  <1>1. ASSUME NEW a \in App, AppStep(a)
        PROVE  \E x \in Thread : Proceeds(x, Label) /\ (x \in App => calls[x] # <<>>)
    <2>1. a \in Thread
      BY DEF Thread
    <2>2. Proceeds(a, Label) /\ calls[a] # <<>>
      BY <1>1, <2>1, AwaitProceeds, DataProceeds, LifeProceeds, DeviceProceeds,
         ProceedsAnywhere, LabelsTogether DEF AppStep, Life, Device
    <2>3. QED
      BY <2>1, <2>2
  <1>2. ASSUME NEW t \in Copy, Data(t)
        PROVE  \E x \in Thread : Proceeds(x, Label) /\ (x \in App => calls[x] # <<>>)
    BY <1>2, DataProceeds DEF Thread
  <1>3. CASE Engine
    BY <1>3 DEF Engine, EngineStep, EngineCopy
  <1>4. CASE (\E i \in Instance : GPU(i)) \/ Packets
    BY <1>4 DEF GPU, Packets
  <1>5. CASE Arguments \/ Hardware \/ UNCHANGED serviceVars
    BY <1>5 DEF Arguments, Hardware, serviceVars
  <1>6. QED
    BY <1>1, <1>2, <1>3, <1>4, <1>5 DEF Next

LEMMA CallsSteps ==
  ASSUME CallsInv, [Next]_serviceVars
  PROVE  CallsInv'
  <1>1. CASE UNCHANGED appVars
    BY <1>1 DEF CallsInv, appVars, AllCalls
  <1>2. ASSUME NEW x \in Thread, Proceeds(x, Label), x \in App => calls[x] # <<>>
        PROVE  CallsInv'
    BY <1>2, ProceedsKeepsCalls
  <1>3. QED
    BY <1>1, <1>2, StepProceeds

LEMMA DataKeepsTrack ==
  ASSUME CallsInv, TrackInv, NEW x \in Thread, Data(x)
  PROVE  TrackInv'
  <1>1. CASE x \in App /\ DataCall(x) /\ ~CallFree(x)
    BY <1>1, CallProceeds, QuietKeepsTrack
  <1>2. CASE x \in App /\ CallFree(x)
    BY <1>2, CallFreeKeepsTrack
  <1>3. CASE Allocate(x) \/ Register(x) \/ RemoveRange(x) \/ Release(x)
    BY <1>3, AllocateKeepsTrack, RegisterKeepsTrack, RemoveKeepsTrack,
       ReleaseKeepsTrack
  <1>4. CASE Find(x) \/ Fill(x) \/ Submit(x) \/ Wait(x) \/ Back(x)
    BY <1>4, QuietProceeds, QuietKeepsTrack
  <1>5. CASE x \in Copy /\ CopyStep(x)
    <2>1. \A y \in Thread :
            \/ pc'[y] = pc[y]
            \/ pc'[y] = "allocate"
            \/ pc'[y] \notin Unregistered /\ pc[y] \notin Unregistered
      BY <1>5, CopyProceeds DEF CallsInv, GoTo, appVars, Unregistered
    <2>2. QED
      BY <1>5, <2>1, CopyProceeds, TrackKept
  <1>6. QED
    BY <1>1, <1>2, <1>3, <1>4, <1>5 DEF Data, DataStep

LEMMA SameThreads ==
  ASSUME TrackInv, UNCHANGED <<appVars, trackVars>>
  PROVE  TrackInv'
  BY TrackKept DEF appVars

LEMMA TrackSteps ==
  ASSUME CallsInv, TrackInv, [Next]_serviceVars
  PROVE  TrackInv'
  <1>1. ASSUME NEW a \in App, AppStep(a) PROVE TrackInv'
    <2>0. a \in Thread
      BY DEF Thread
    <2>1. CASE Data(a)
      BY <2>0, <2>1, DataKeepsTrack
    <2>2. CASE Await(a) \/ Life(a) \/ Device(a)
      <3>1. /\ Proceeds(a, Others) /\ pc[a] \notin Unregistered
            /\ UNCHANGED trackVars
        BY <2>2, AwaitProceeds, LifeProceeds, DeviceProceeds
           DEF Await, Life, Device, dataVars
      <3>2. Proceeds(a, Others \cup {"allocate"})
        BY <3>1 DEF Proceeds
      <3>3. QED
        BY <2>0, <3>1, <3>2, QuietKeepsTrack
    <2>3. QED
      BY <1>1, <2>1, <2>2 DEF AppStep
  <1>2. ASSUME NEW t \in Copy, Data(t) PROVE TrackInv'
    BY <1>2, DataKeepsTrack DEF Thread
  <1>3. CASE Engine
    BY <1>3, SameThreads DEF Engine, EngineStep, EngineCopy
  <1>4. ASSUME NEW i \in Instance, GPU(i) PROVE TrackInv'
    BY <1>4, SameThreads DEF GPU, dataVars
  <1>5. CASE Packets \/ Arguments \/ Hardware \/ UNCHANGED serviceVars
    BY <1>5, SameThreads DEF Packets, Arguments, Hardware, serviceVars, dataVars
  <1>6. QED
    BY <1>1, <1>2, <1>3, <1>4, <1>5 DEF Next

LEMMA CallsInit ==
  ASSUME AppInit
  PROVE  CallsInv
  <1>1. program \in Programs /\ calls = program.calls
    BY DEF AppInit
  <1>2. calls \in [App -> Seq(AllCalls(program))]
    BY <1>1, ApplicationAssumption
  <1>3. pc = [x \in Thread |-> "idle"]
    BY DEF AppInit
  <1>4. pc \in [Thread -> Label] /\ \A a \in App : pc[a] = "idle"
    BY <1>3 DEF Label, Others, Thread
  <1>5. QED
    BY <1>1, <1>2, <1>4 DEF CallsInv

\* The tracker has a range for each block that atmi_malloc returned and that was
\* not given to atmi_free, and for no block that was given back to HSA, whatever
\* the threads of the application and the staging threads do in between
\* (data.cpp:336-342).
THEOREM TrackerIsExact == Spec => []TrackerExact
  <1>1. Init => CallsInv /\ TrackInv
    BY CallsInit, TrackInit DEF Init
  <1>2. CallsInv /\ TrackInv /\ [Next]_serviceVars => (CallsInv /\ TrackInv)'
    BY CallsSteps, TrackSteps
  <1>3. CallsInv /\ TrackInv => TrackerExact
    BY TrackInvExact
  <1>4. QED
    BY <1>1, <1>2, <1>3, PTL DEF Spec

-------------------------------------------------------------------------------
(***************************************************************************)
(* The launches: each is counted on the signal of its task before the      *)
(* kernel that makes it ends, and has a segment of its own.                *)
(***************************************************************************)
StageName == {"none", "segment", "slot", "counted", "queued", "running", "ended"}

DeviceTypes ==
  /\ stage \in [Instance -> StageName]
  /\ slot \in [Instance -> Nat] /\ writeIndex \in Nat /\ readIndex \in Nat
  /\ segment \in [Instance -> Nat] /\ kernargIndex \in [Kernel -> Nat]
  /\ region \in [Kernel -> [Segment -> Instance \cup {Host}]]
  /\ queue \in [0 .. QueueSize - 1 -> Instance \cup {Host}]
  /\ taskSignal \in [Task -> Nat]

\* What the program has still to launch was not launched.
LaunchesAhead ==
  \A a, b \in App : \A m \in DOMAIN calls[a], n \in DOMAIN calls[b] :
    IsLaunch(calls[a][m]) =>
      /\ calls[a][m].task \in Task /\ stage[calls[a][m].task] = "none"
      /\ IsLaunch(calls[b][n]) /\ calls[b][n].task = calls[a][m].task => a = b /\ m = n

\* A kernel makes its launches while it runs, and all of them.
LaunchesNested ==
  /\ \A r \in Task : stage[r] \in {"none", "queued", "running", "ended"}
  /\ \A i \in Instance : Parent[i] # Host =>
       /\ stage[i] # "none" => stage[Parent[i]] \in {"running", "ended"}
       /\ stage[Parent[i]] = "ended" => Launched(i)

\* A packet of the queue is one of a launch that waits to run, once.
PacketsWait ==
  /\ \A n \in DOMAIN queue : queue[n] # Host => stage[queue[n]] = "queued"
  /\ \A m, n \in DOMAIN queue : queue[m] = queue[n] => m = n \/ queue[m] = Host

Outstanding(r) ==
  {i \in Instance : TaskOf[i] = r /\ stage[i] \in {"counted", "queued", "running"}}

SignalsCount == \A r \in Task : taskSignal[r] = Cardinality(Outstanding(r))

DoneEnded == \A r \in done : \A i \in Instance : TaskOf[i] = r => stage[i] = "ended"

\* Launches by kernels take segments.
HasSegment(i) == Parent[i] # Host /\ stage[i] # "none"

\* The launches of a kernel have segments of their own, in the order of the counter.
SegmentsApart ==
  /\ \A i \in Instance : HasSegment(i) =>
       /\ segment[i] < kernargIndex[KernelOf[i]]
       /\ segment[i] \in Segment => region[KernelOf[i]][segment[i]] = i
  /\ \A i, j \in Instance :
       (/\ HasSegment(i) /\ HasSegment(j)
        /\ KernelOf[i] = KernelOf[j] /\ segment[i] = segment[j]) => i = j

LaunchInv ==
  /\ DeviceTypes /\ LaunchesAhead /\ LaunchesNested /\ PacketsWait
  /\ SignalsCount /\ DoneEnded /\ SegmentsApart

LEMMA OutstandingFinite ==
  ASSUME NEW r
  PROVE  IsFiniteSet(Outstanding(r)) /\ Cardinality(Outstanding(r)) \in Nat
  <1>1. IsFiniteSet(Outstanding(r))
    BY DeviceEnqueueAssumption, FS_Subset DEF Outstanding
  <1>2. QED
    BY <1>1, FS_CardinalityType

LEMMA SignalSame ==
  ASSUME DeviceTypes, SignalsCount, NEW i \in Instance, NEW s \in StageName,
         stage' = [stage EXCEPT ![i] = s], taskSignal' = taskSignal,
         stage[i] \in {"counted", "queued", "running"}
           <=> s \in {"counted", "queued", "running"}
  PROVE  SignalsCount'
  <1>1. \A r \in Task : Outstanding(r)' = Outstanding(r)
    BY DEF Outstanding, DeviceTypes
  <1>2. QED
    BY <1>1 DEF SignalsCount

LEMMA SignalRaised ==
  ASSUME DeviceTypes, SignalsCount, NEW i \in Instance, NEW s \in StageName,
         stage' = [stage EXCEPT ![i] = s],
         taskSignal' = [taskSignal EXCEPT ![TaskOf[i]] = @ + 1],
         stage[i] \notin {"counted", "queued", "running"},
         s \in {"counted", "queued", "running"}
  PROVE  SignalsCount'
  <1>1. SUFFICES ASSUME NEW r \in Task
                 PROVE  taskSignal'[r] = Cardinality(Outstanding(r)')
    BY DEF SignalsCount
  <1>2. CASE r = TaskOf[i]
    <2>1. Outstanding(r)' = Outstanding(r) \cup {i} /\ i \notin Outstanding(r)
      BY <1>2 DEF Outstanding, DeviceTypes
    <2>2. Cardinality(Outstanding(r)') = Cardinality(Outstanding(r)) + 1
      BY <2>1, OutstandingFinite, FS_AddElement
    <2>3. taskSignal'[r] = taskSignal[r] + 1
      BY <1>2 DEF DeviceTypes
    <2>4. QED
      BY <2>2, <2>3 DEF SignalsCount
  <1>3. CASE r # TaskOf[i]
    <2>1. Outstanding(r)' = Outstanding(r)
      BY <1>3 DEF Outstanding, DeviceTypes
    <2>2. taskSignal'[r] = taskSignal[r]
      BY <1>3 DEF DeviceTypes
    <2>3. QED
      BY <2>1, <2>2 DEF SignalsCount
  <1>4. QED
    BY <1>2, <1>3

LEMMA SignalLowered ==
  ASSUME DeviceTypes, SignalsCount, NEW i \in Instance, NEW s \in StageName,
         stage' = [stage EXCEPT ![i] = s],
         taskSignal' = [taskSignal EXCEPT ![TaskOf[i]] = @ - 1],
         stage[i] \in {"counted", "queued", "running"},
         s \notin {"counted", "queued", "running"}
  PROVE  SignalsCount' /\ taskSignal' \in [Task -> Nat]
  <1>1. SUFFICES ASSUME NEW r \in Task
                 PROVE  /\ taskSignal'[r] = Cardinality(Outstanding(r)')
                        /\ taskSignal'[r] \in Nat
    BY DEF SignalsCount, DeviceTypes
  <1>2. CASE r = TaskOf[i]
    <2>1. Outstanding(r)' = Outstanding(r) \ {i} /\ i \in Outstanding(r)
      BY <1>2 DEF Outstanding, DeviceTypes
    <2>2. /\ Cardinality(Outstanding(r)') = Cardinality(Outstanding(r)) - 1
          /\ IsFiniteSet(Outstanding(r)')
      BY <2>1, OutstandingFinite, FS_RemoveElement
    <2>3. taskSignal'[r] = taskSignal[r] - 1
      BY <1>2 DEF DeviceTypes
    <2>4. Cardinality(Outstanding(r)') \in Nat
      BY <2>2, FS_CardinalityType
    <2>5. QED
      BY <2>2, <2>3, <2>4 DEF SignalsCount
  <1>3. CASE r # TaskOf[i]
    <2>1. Outstanding(r)' = Outstanding(r)
      BY <1>3 DEF Outstanding, DeviceTypes
    <2>2. taskSignal'[r] = taskSignal[r]
      BY <1>3 DEF DeviceTypes
    <2>3. QED
      BY <2>1, <2>2 DEF SignalsCount, DeviceTypes
  <1>4. QED
    BY <1>2, <1>3

\* A launch that takes its next stage, other than a launch by the host.
LEMMA AheadKept ==
  ASSUME LaunchesAhead, UNCHANGED calls,
         \A r \in Task : stage[r] = "none" => stage'[r] = "none"
  PROVE  LaunchesAhead'
  BY DEF LaunchesAhead

LEMMA AheadShrinks ==
  ASSUME CallsInv, LaunchesAhead, NEW c \in App, calls[c] # <<>>,
         calls' = [calls EXCEPT ![c] = Tail(@)],
         \A r \in Task : stage[r] = "none" =>
           \/ stage'[r] = "none"
           \/ IsLaunch(calls[c][1]) /\ calls[c][1].task = r
  PROVE  LaunchesAhead'
  <1>1. /\ calls[c] \in Seq(AllCalls(program)) /\ calls' \in [App -> Seq(AllCalls(program))]
        /\ \A b \in App : calls'[b] = IF b = c THEN Tail(calls[c]) ELSE calls[b]
    BY DEF CallsInv
  <1>2. \A b \in App : \A m \in DOMAIN calls'[b] :
          \E k \in DOMAIN calls[b] :
            /\ calls'[b][m] = calls[b][k]
            /\ k = IF b = c THEN m + 1 ELSE m
    <2> TAKE b \in App
    <2> TAKE m \in DOMAIN calls'[b]
    <2>2. CASE b = c
      <3>1. /\ DOMAIN Tail(calls[c]) = 1 .. Len(calls[c]) - 1
            /\ DOMAIN calls[c] = 1 .. Len(calls[c]) /\ Len(calls[c]) \in Nat
            /\ \A k \in 1 .. Len(calls[c]) - 1 : Tail(calls[c])[k] = calls[c][k + 1]
        BY <1>1
      <3>2. m \in 1 .. Len(calls[c]) - 1 /\ calls'[b][m] = calls[c][m + 1]
        BY <1>1, <2>2, <3>1
      <3>3. m + 1 \in DOMAIN calls[b]
        BY <2>2, <3>1, <3>2
      <3>4. QED
        BY <2>2, <3>2, <3>3
    <2>3. CASE b # c
      BY <1>1, <2>3
    <2>4. QED
      BY <2>2, <2>3
  <1>3. 1 \in DOMAIN calls[c]
    BY <1>1
  <1>4. SUFFICES ASSUME NEW a \in App, NEW b \in App,
                        NEW m \in DOMAIN calls'[a], NEW n \in DOMAIN calls'[b],
                        IsLaunch(calls'[a][m])
                 PROVE  /\ calls'[a][m].task \in Task
                        /\ stage'[calls'[a][m].task] = "none"
                        /\ IsLaunch(calls'[b][n]) /\ calls'[b][n].task = calls'[a][m].task
                             => a = b /\ m = n
    BY DEF LaunchesAhead
  <1>5. PICK k \in DOMAIN calls[a] :
          calls'[a][m] = calls[a][k] /\ k = IF a = c THEN m + 1 ELSE m
    BY <1>2
  <1>6. PICK l \in DOMAIN calls[b] :
          calls'[b][n] = calls[b][l] /\ l = IF b = c THEN n + 1 ELSE n
    BY <1>2
  <1>7. IsLaunch(calls[a][k])
    BY <1>4, <1>5
  <1>8. /\ calls[a][k].task \in Task /\ stage[calls[a][k].task] = "none"
        /\ IsLaunch(calls[b][l]) /\ calls[b][l].task = calls[a][k].task => a = b /\ k = l
        /\ IsLaunch(calls[c][1]) /\ calls[c][1].task = calls[a][k].task => a = c /\ k = 1
    BY <1>3, <1>7 DEF LaunchesAhead
  <1>9. m \in Nat \ {0} /\ n \in Nat \ {0}
    <2>1. calls'[a] \in Seq(AllCalls(program)) /\ calls'[b] \in Seq(AllCalls(program))
      BY <1>1
    <2>2. QED
      BY <2>1
  <1>10. ~(a = c /\ k = 1)
    BY <1>5, <1>9
  <1>11. QED
    BY <1>5, <1>6, <1>8, <1>9, <1>10

LEMMA SegmentType ==
  /\ Segment = 0 .. MaxSegments - 1 /\ MaxSegments \in Nat \ {0}
  /\ \A n \in Nat : n \in Segment <=> n < MaxSegments
  BY DeviceEnqueueAssumption DEF Segment

LEMMA SlotIndex ==
  ASSUME NEW n \in Nat
  PROVE  n % QueueSize \in 0 .. QueueSize - 1
  BY DeviceEnqueueAssumption

\* A launch goes on from a stage to the next; nothing else is its concern.
LEMMA StageForward ==
  ASSUME LaunchInv, NEW i \in Instance, NEW s \in StageName,
         stage' = [stage EXCEPT ![i] = s],
         stage[i] # "none", stage[i] # "ended", s # "none",
         Launched(i) => s \in {"running", "ended"},
         i \in Task => s \in {"queued", "running", "ended"},
         stage[i] = "running" => s = "ended",
         s = "ended" => \A c \in Instance : Parent[c] = i => Launched(c)
  PROVE  LaunchesNested'
  <1>1. \A j \in Instance : stage'[j] = IF j = i THEN s ELSE stage[j]
    BY DEF LaunchInv, DeviceTypes
  <1>2. \A j \in Instance : Launched(j) => Launched(j)'
    BY <1>1 DEF Launched
  <1>3. \A r \in Task : stage'[r] \in {"none", "queued", "running", "ended"}
    BY <1>1 DEF LaunchInv, LaunchesNested, Task
  <1>4. ASSUME NEW j \in Instance, Parent[j] # Host
        PROVE  /\ stage'[j] # "none" => stage'[Parent[j]] \in {"running", "ended"}
               /\ stage'[Parent[j]] = "ended" => Launched(j)'
    <2>1. Parent[j] \in Instance
      BY <1>4, DeviceEnqueueAssumption
    <2>2. /\ stage[j] # "none" => stage[Parent[j]] \in {"running", "ended"}
          /\ stage[Parent[j]] = "ended" => Launched(j)
      BY <1>4 DEF LaunchInv, LaunchesNested
    <2>3. stage'[j] # "none" => stage'[Parent[j]] \in {"running", "ended"}
      BY <1>1, <2>1, <2>2 DEF Launched
    <2>4. stage'[Parent[j]] = "ended" => Launched(j)'
      BY <1>1, <1>2, <1>4, <2>1, <2>2
    <2>5. QED
      BY <2>3, <2>4
  <1>5. QED
    BY <1>3, <1>4 DEF LaunchesNested

LEMMA DoneKept ==
  ASSUME LaunchInv, NEW i \in Instance, NEW s \in StageName,
         stage' = [stage EXCEPT ![i] = s], stage[i] # "ended", done' = done
  PROVE  DoneEnded'
  BY DEF LaunchInv, DoneEnded, DeviceTypes

LEMMA SegmentsKept ==
  ASSUME LaunchInv, NEW i \in Instance, NEW s \in StageName,
         stage' = [stage EXCEPT ![i] = s], stage[i] # "none" \/ i \in Task,
         UNCHANGED segmentVars
  PROVE  SegmentsApart'
  <1>1. \A j \in Instance : HasSegment(j)' => HasSegment(j)
    BY DEF LaunchInv, DeviceTypes, HasSegment, Task
  <1>2. QED
    BY <1>1 DEF LaunchInv, SegmentsApart, segmentVars

LEMMA PacketsKept ==
  ASSUME LaunchInv, NEW i \in Instance, NEW s \in StageName,
         stage' = [stage EXCEPT ![i] = s], stage[i] # "queued", UNCHANGED queue
  PROVE  PacketsWait'
  BY DEF LaunchInv, PacketsWait, DeviceTypes

\* The packet of i is put in a slot.
LEMMA PacketsPut ==
  ASSUME LaunchInv, NEW i \in Instance, NEW n \in DOMAIN queue,
         stage' = [stage EXCEPT ![i] = "queued"], stage[i] # "queued",
         queue' = [queue EXCEPT ![n] = i]
  PROVE  PacketsWait' /\ queue' \in [0 .. QueueSize - 1 -> Instance \cup {Host}]
  <1>1. /\ \A m \in DOMAIN queue : queue'[m] = IF m = n THEN i ELSE queue[m]
        /\ DOMAIN queue' = DOMAIN queue
        /\ queue' \in [0 .. QueueSize - 1 -> Instance \cup {Host}]
    BY DEF LaunchInv, DeviceTypes
  <1>2. \A m \in DOMAIN queue : queue[m] # Host => queue[m] # i /\ queue[m] \in Instance
    BY DEF LaunchInv, PacketsWait, DeviceTypes
  <1>3. \A j \in Instance : stage'[j] = IF j = i THEN "queued" ELSE stage[j]
    BY DEF LaunchInv, DeviceTypes
  <1>4. i # Host
    BY DeviceEnqueueAssumption
  <1>5. QED
    BY <1>1, <1>2, <1>3, <1>4 DEF LaunchInv, PacketsWait

LEMMA TakeSlotKeeps ==
  ASSUME LaunchInv, NEW i \in Instance, TakeSlot(i), UNCHANGED calls
  PROVE  LaunchInv'
  <1>1. /\ stage[i] = "segment" /\ stage' = [stage EXCEPT ![i] = "slot"]
        /\ slot' = [slot EXCEPT ![i] = writeIndex] /\ writeIndex' = writeIndex + 1
        /\ UNCHANGED <<segmentVars, queue, readIndex, taskSignal, done>>
    BY DEF TakeSlot, Advance
  <1>2. "slot" \in StageName /\ i \notin Task
    BY <1>1 DEF StageName, LaunchInv, LaunchesNested
  <1>3. DeviceTypes'
    BY <1>1, <1>2 DEF LaunchInv, DeviceTypes, segmentVars
  <1>4. LaunchesAhead'
    BY <1>1, <1>2, AheadKept DEF LaunchInv, DeviceTypes, Task
  <1>5. LaunchesNested'
    BY <1>1, <1>2, StageForward DEF Launched
  <1>6. PacketsWait'
    BY <1>1, <1>2, PacketsKept
  <1>7. SignalsCount'
    BY <1>1, <1>2, SignalSame DEF LaunchInv
  <1>8. DoneEnded' /\ SegmentsApart'
    BY <1>1, <1>2, DoneKept, SegmentsKept
  <1>9. QED
    BY <1>3, <1>4, <1>5, <1>6, <1>7, <1>8 DEF LaunchInv

LEMMA CountLaunchKeeps ==
  ASSUME LaunchInv, NEW i \in Instance, CountLaunch(i), UNCHANGED calls
  PROVE  LaunchInv'
  <1>1. /\ stage[i] = "slot" /\ stage' = [stage EXCEPT ![i] = "counted"]
        /\ taskSignal' = [taskSignal EXCEPT ![TaskOf[i]] = @ + 1]
        /\ UNCHANGED <<segmentVars, queueVars, done>>
    BY DEF CountLaunch, Advance
  <1>2. "counted" \in StageName /\ i \notin Task
    BY <1>1 DEF StageName, LaunchInv, LaunchesNested
  <1>a. taskSignal' \in [Task -> Nat]
    <2>1. taskSignal \in [Task -> Nat]
      BY DEF LaunchInv, DeviceTypes
    <2>2. taskSignal' = [r \in Task |-> IF r = TaskOf[i] THEN taskSignal[r] + 1
                                        ELSE taskSignal[r]]
      BY <1>1, <2>1
    <2>3. QED
      BY <2>1, <2>2
  <1>3. DeviceTypes'
    BY <1>1, <1>2, <1>a DEF LaunchInv, DeviceTypes, segmentVars, queueVars
  <1>4. LaunchesAhead'
    BY <1>1, <1>2, AheadKept DEF LaunchInv, DeviceTypes, Task
  <1>5. LaunchesNested'
    BY <1>1, <1>2, StageForward DEF Launched
  <1>6. PacketsWait'
    BY <1>1, <1>2, PacketsKept DEF queueVars
  <1>7. SignalsCount'
    BY <1>1, <1>2, SignalRaised DEF LaunchInv
  <1>8. DoneEnded' /\ SegmentsApart'
    BY <1>1, <1>2, DoneKept, SegmentsKept
  <1>9. QED
    BY <1>3, <1>4, <1>5, <1>6, <1>7, <1>8 DEF LaunchInv

LEMMA SetHeaderKeeps ==
  ASSUME LaunchInv, NEW i \in Instance, SetHeader(i), UNCHANGED calls
  PROVE  LaunchInv'
  <1> DEFINE n == slot[i] % QueueSize
  <1>1. /\ stage[i] = "counted" /\ stage' = [stage EXCEPT ![i] = "queued"]
        /\ queue' = [queue EXCEPT ![n] = i]
        /\ UNCHANGED <<segmentVars, slot, writeIndex, readIndex, taskSignal, done>>
    BY DEF SetHeader, Advance
  <1>2. "queued" \in StageName /\ i \notin Task
    BY <1>1 DEF StageName, LaunchInv, LaunchesNested
  <1>3. n \in DOMAIN queue
    BY SlotIndex DEF LaunchInv, DeviceTypes
  <1> HIDE DEF n
  <1>4. PacketsWait' /\ queue' \in [0 .. QueueSize - 1 -> Instance \cup {Host}]
    BY <1>1, <1>3, PacketsPut
  <1>5. DeviceTypes'
    BY <1>1, <1>2, <1>4 DEF LaunchInv, DeviceTypes, segmentVars
  <1>6. LaunchesAhead'
    BY <1>1, <1>2, AheadKept DEF LaunchInv, DeviceTypes, Task
  <1>7. LaunchesNested'
    BY <1>1, <1>2, StageForward DEF Launched
  <1>8. SignalsCount'
    BY <1>1, <1>2, SignalSame DEF LaunchInv
  <1>9. DoneEnded' /\ SegmentsApart'
    BY <1>1, <1>2, DoneKept, SegmentsKept
  <1>10. QED
    BY <1>4, <1>5, <1>6, <1>7, <1>8, <1>9 DEF LaunchInv

LEMMA EndInstanceKeeps ==
  ASSUME LaunchInv, NEW i \in Instance, EndInstance(i), UNCHANGED calls
  PROVE  LaunchInv'
  <1>1. /\ stage[i] = "running" /\ stage' = [stage EXCEPT ![i] = "ended"]
        /\ taskSignal' = [taskSignal EXCEPT ![TaskOf[i]] = @ - 1]
        /\ \A c \in Instance : Parent[c] = i => Launched(c)
        /\ UNCHANGED <<segmentVars, queueVars, done>>
    BY DEF EndInstance, Advance
  <1>2. "ended" \in StageName
    BY DEF StageName
  <1>3. SignalsCount' /\ taskSignal' \in [Task -> Nat]
    BY <1>1, <1>2, SignalLowered DEF LaunchInv
  <1>4. DeviceTypes'
    BY <1>1, <1>2, <1>3 DEF LaunchInv, DeviceTypes, segmentVars, queueVars
  <1>5. LaunchesAhead'
    BY <1>1, <1>2, AheadKept DEF LaunchInv, DeviceTypes, Task
  <1>6. LaunchesNested'
    BY <1>1, <1>2, StageForward DEF Launched
  <1>7. PacketsWait'
    BY <1>1, <1>2, PacketsKept DEF queueVars
  <1>8. DoneEnded' /\ SegmentsApart'
    BY <1>1, <1>2, DoneKept, SegmentsKept
  <1>9. QED
    BY <1>3, <1>4, <1>5, <1>6, <1>7, <1>8 DEF LaunchInv

LEMMA ProcessPacketKeeps ==
  ASSUME LaunchInv, ProcessPacket, UNCHANGED calls
  PROVE  LaunchInv'
  <1> DEFINE n == readIndex % QueueSize
             i == queue[n]
  <1>1. /\ i # Host /\ stage' = [stage EXCEPT ![i] = "running"]
        /\ queue' = [queue EXCEPT ![n] = Host] /\ readIndex' = readIndex + 1
        /\ UNCHANGED <<segmentVars, slot, writeIndex, taskSignal, done>>
    BY DEF ProcessPacket, Advance
  <1>2. n \in DOMAIN queue /\ n \in 0 .. QueueSize - 1
    BY SlotIndex DEF LaunchInv, DeviceTypes
  <1>3. i \in Instance /\ stage[i] = "queued"
    BY <1>1, <1>2 DEF LaunchInv, DeviceTypes, PacketsWait
  <1>4. \A m \in DOMAIN queue : m # n => queue[m] # i
    BY <1>1, <1>2 DEF LaunchInv, PacketsWait
  <1>5. "running" \in StageName
    BY DEF StageName
  <1> HIDE DEF i, n
  <1>6. DeviceTypes'
    <2>1. queue' \in [0 .. QueueSize - 1 -> Instance \cup {Host}]
      BY <1>1, <1>2 DEF LaunchInv, DeviceTypes
    <2>2. stage' \in [Instance -> StageName]
      BY <1>1, <1>5 DEF LaunchInv, DeviceTypes
    <2>3. QED
      BY <1>1, <2>1, <2>2 DEF LaunchInv, DeviceTypes, segmentVars
  <1>7. LaunchesAhead'
    BY <1>1, <1>3, AheadKept DEF LaunchInv, DeviceTypes
  <1>8. LaunchesNested'
    BY <1>1, <1>3, <1>5, StageForward
  <1>9. PacketsWait'
    <2>1. /\ \A m \in DOMAIN queue : queue'[m] = IF m = n THEN Host ELSE queue[m]
          /\ DOMAIN queue' = DOMAIN queue
          /\ \A j \in Instance : stage'[j] = IF j = i THEN "running" ELSE stage[j]
      BY <1>1 DEF LaunchInv, DeviceTypes
    <2>2. \A m \in DOMAIN queue : queue[m] \in Instance \cup {Host}
      BY DEF LaunchInv, DeviceTypes
    <2>3. QED
      BY <1>4, <2>1, <2>2 DEF LaunchInv, PacketsWait
  <1>10. SignalsCount'
    BY <1>1, <1>3, <1>5, SignalSame DEF LaunchInv
  <1>11. DoneEnded' /\ SegmentsApart'
    BY <1>1, <1>3, <1>5, DoneKept, SegmentsKept
  <1>12. QED
    BY <1>6, <1>7, <1>8, <1>9, <1>10, <1>11 DEF LaunchInv

LEMMA TakeSegmentKeeps ==
  ASSUME LaunchInv, NEW i \in Instance, TakeSegment(i), UNCHANGED calls
  PROVE  LaunchInv'
  <1> DEFINE k == KernelOf[i]
             g == kernargIndex[k]
  <1>1. /\ stage[i] = "none" /\ Parent[i] # Host /\ stage[Parent[i]] = "running"
        /\ segment' = [segment EXCEPT ![i] = g]
        /\ kernargIndex' = [kernargIndex EXCEPT ![k] = @ + 1]
        /\ region' = IF g \in Segment THEN [region EXCEPT ![k][g] = i] ELSE region
        /\ stage' = [stage EXCEPT ![i] = "segment"]
        /\ UNCHANGED <<queueVars, taskSignal, done>>
    BY DEF TakeSegment, Advance
  <1>2. /\ k \in Kernel /\ Parent[i] \in Instance /\ i \notin Task
        /\ \A j \in Instance : KernelOf[j] \in Kernel
    BY <1>1, DeviceEnqueueAssumption DEF Task
  <1>3. g \in Nat
    BY <1>2 DEF LaunchInv, DeviceTypes
  <1>4. "segment" \in StageName
    BY DEF StageName
  <1>5. Parent[i] # i
    BY <1>1
  <1> HIDE DEF g, k
  <1>6. /\ \A j \in Instance : segment'[j] = IF j = i THEN g ELSE segment[j]
        /\ \A j \in Instance : stage'[j] = IF j = i THEN "segment" ELSE stage[j]
        /\ \A l \in Kernel : kernargIndex'[l] = IF l = k THEN g + 1 ELSE kernargIndex[l]
    BY <1>1, <1>2, <1>3 DEF LaunchInv, DeviceTypes, g
  <1>7. \A l \in Kernel : \A s \in Segment :
          region'[l][s] = IF l = k /\ s = g THEN i ELSE region[l][s]
    <2>1. CASE g \in Segment
      BY <1>1, <2>1 DEF LaunchInv, DeviceTypes
    <2>2. CASE g \notin Segment
      BY <1>1, <2>2
    <2>3. QED
      BY <2>1, <2>2
  <1>8. DeviceTypes'
    <2>1. segment' \in [Instance -> Nat] /\ kernargIndex' \in [Kernel -> Nat]
      <3>1. segment \in [Instance -> Nat] /\ kernargIndex \in [Kernel -> Nat]
        BY DEF LaunchInv, DeviceTypes
      <3>2. kernargIndex[k] + 1 \in Nat
        BY <1>2, <3>1
      <3>3. QED
        BY <1>1, <1>3, <3>1, <3>2
    <2>2. region' \in [Kernel -> [Segment -> Instance \cup {Host}]]
      BY <1>1 DEF LaunchInv, DeviceTypes
    <2>3. stage' \in [Instance -> StageName]
      BY <1>1, <1>4 DEF LaunchInv, DeviceTypes
    <2>4. QED
      BY <1>1, <2>1, <2>2, <2>3 DEF LaunchInv, DeviceTypes, queueVars
  <1>9. LaunchesAhead'
    BY <1>2, <1>6, AheadKept DEF LaunchInv, Task
  <1>10. LaunchesNested'
    <2>1. \A r \in Task : stage'[r] = stage[r]
      BY <1>2, <1>6 DEF Task
    <2>2. \A j \in Instance : Parent[j] = i => stage[j] = "none"
      BY <1>1, DeviceEnqueueAssumption DEF LaunchInv, LaunchesNested
    <2>3. ASSUME NEW j \in Instance, Parent[j] # Host
          PROVE  /\ stage'[j] # "none" => stage'[Parent[j]] \in {"running", "ended"}
                 /\ stage'[Parent[j]] = "ended" => Launched(j)'
      <3>1. Parent[j] \in Instance
        BY <2>3, DeviceEnqueueAssumption
      <3>2. CASE j = i
        BY <1>1, <1>5, <1>6, <3>1, <3>2
      <3>3. CASE j # i
        <4>1. /\ stage[j] # "none" => stage[Parent[j]] \in {"running", "ended"}
              /\ stage[Parent[j]] = "ended" => Launched(j)
          BY <2>3 DEF LaunchInv, LaunchesNested
        <4>2. CASE Parent[j] = i
          BY <1>6, <2>2, <3>3, <4>2 DEF Launched
        <4>3. CASE Parent[j] # i
          BY <1>6, <3>1, <3>3, <4>1, <4>3 DEF Launched
        <4>4. QED
          BY <4>2, <4>3
      <3>4. QED
        BY <3>2, <3>3
    <2>4. QED
      BY <2>1, <2>3 DEF LaunchInv, LaunchesNested
  <1>11. PacketsWait'
    BY <1>1, <1>4, PacketsKept DEF queueVars
  <1>12. SignalsCount'
    BY <1>1, <1>4, SignalSame DEF LaunchInv
  <1>13. DoneEnded'
    BY <1>1, <1>4, DoneKept
  <1>14. SegmentsApart'
    <2>1. ASSUME NEW j \in Instance, HasSegment(j)', j # i
          PROVE  /\ HasSegment(j) /\ KernelOf[j] \in Kernel /\ segment[j] \in Nat
                 /\ segment'[j] = segment[j] /\ segment[j] < kernargIndex[KernelOf[j]]
                 /\ segment[j] \in Segment => region[KernelOf[j]][segment[j]] = j
      <3>1. HasSegment(j)
        BY <1>6, <2>1 DEF HasSegment
      <3>2. QED
        BY <1>2, <1>6, <2>1, <3>1 DEF LaunchInv, SegmentsApart, DeviceTypes
    <2>2. ASSUME NEW j \in Instance, HasSegment(j)'
          PROVE  /\ segment'[j] < kernargIndex'[KernelOf[j]]
                 /\ segment'[j] \in Segment => region'[KernelOf[j]][segment'[j]] = j
      <3>1. CASE j = i
        <4>1. segment'[j] = g /\ KernelOf[j] = k /\ kernargIndex'[k] = g + 1
          BY <1>2, <1>6, <3>1 DEF k
        <4>2. QED
          BY <1>2, <1>3, <1>7, <3>1, <4>1
      <3>2. CASE j # i
        <4>1. ~(KernelOf[j] = k /\ segment[j] = g)
          BY <1>3, <2>1, <2>2, <3>2 DEF g
        <4>2. /\ kernargIndex'[KernelOf[j]] >= kernargIndex[KernelOf[j]]
              /\ kernargIndex[KernelOf[j]] \in Nat /\ kernargIndex'[KernelOf[j]] \in Nat
          <5>1. KernelOf[j] \in Kernel
            BY <1>2
          <5>2. kernargIndex[KernelOf[j]] \in Nat
            BY <5>1 DEF LaunchInv, DeviceTypes
          <5>3. \/ kernargIndex'[KernelOf[j]] = kernargIndex[KernelOf[j]]
                \/ /\ KernelOf[j] = k /\ kernargIndex[KernelOf[j]] = g
                   /\ kernargIndex'[KernelOf[j]] = g + 1
            BY <1>6, <5>1 DEF g
          <5>4. QED
            BY <5>2, <5>3
        <4>3. QED
          BY <1>7, <2>1, <2>2, <3>2, <4>1, <4>2
      <3>3. QED
        BY <3>1, <3>2
    <2>3. ASSUME NEW j \in Instance, NEW m \in Instance, HasSegment(j)', HasSegment(m)',
                 KernelOf[j] = KernelOf[m], segment'[j] = segment'[m]
          PROVE  j = m
      <3>1. CASE j # i /\ m # i
        BY <2>1, <2>3, <3>1 DEF LaunchInv, SegmentsApart
      <3>2. ASSUME NEW l \in Instance, l # i, HasSegment(l)', KernelOf[l] = k
            PROVE  segment'[l] # g
        BY <1>3, <2>1, <3>2 DEF g
      <3>3. segment'[i] = g /\ KernelOf[i] = k
        BY <1>6 DEF k
      <3>4. QED
        BY <2>3, <3>1, <3>2, <3>3
    <2>4. QED
      BY <2>2, <2>3 DEF SegmentsApart
  <1>15. QED
    BY <1>8, <1>9, <1>10, <1>11, <1>12, <1>13, <1>14 DEF LaunchInv

LEMMA CompleteTaskKeeps ==
  ASSUME LaunchInv, NEW r \in Task, CompleteTask(r), UNCHANGED calls
  PROVE  LaunchInv'
  <1>1. /\ stage[r] # "none" /\ taskSignal[r] = 0 /\ done' = done \cup {r}
        /\ UNCHANGED <<segmentVars, queueVars, stage, taskSignal>>
    BY DEF CompleteTask
  <1> DEFINE S == {i \in Instance : TaskOf[i] = r /\ stage[i] # "ended"}
  <1>2. Outstanding(r) = {}
    BY <1>1, OutstandingFinite, FS_EmptySet DEF LaunchInv, SignalsCount
  <1>3. S = {}
    <2>1. SUFFICES ASSUME S # {} PROVE FALSE
      OBVIOUS
    <2>2. S \in (SUBSET Instance) \ {{}}
      BY <2>1
    <2>3. PICK i \in S : Parent[i] \notin S
      BY <2>2, DeviceEnqueueAssumption
    <2>4. i \in Instance /\ TaskOf[i] = r /\ stage[i] # "ended"
      OBVIOUS
    <2>5. stage[i] \notin {"counted", "queued", "running"}
      BY <1>2, <2>4 DEF Outstanding
    <2>6. CASE Parent[i] = Host
      <3>1. i = r
        BY <2>4, <2>6, DeviceEnqueueAssumption
      <3>2. QED
        BY <1>1, <2>4, <2>5, <3>1 DEF LaunchInv, LaunchesNested
    <2>7. CASE Parent[i] # Host
      <3>1. Parent[i] \in Instance /\ TaskOf[Parent[i]] = r
        BY <2>4, <2>7, DeviceEnqueueAssumption
      <3>2. stage[Parent[i]] = "ended"
        BY <2>3, <3>1
      <3>3. Launched(i)
        BY <2>4, <2>7, <3>2 DEF LaunchInv, LaunchesNested
      <3>4. QED
        BY <2>4, <2>5, <3>3 DEF Launched
    <2>8. QED
      BY <2>6, <2>7
  <1>4. DoneEnded'
    BY <1>1, <1>3 DEF LaunchInv, DoneEnded
  <1>5. /\ DeviceTypes' /\ LaunchesAhead' /\ LaunchesNested' /\ PacketsWait'
        /\ SegmentsApart'
    BY <1>1 DEF LaunchInv, DeviceTypes, LaunchesAhead, LaunchesNested, PacketsWait,
                SegmentsApart, HasSegment, Launched, segmentVars, queueVars
  <1>6. SignalsCount'
    BY <1>1 DEF LaunchInv, SignalsCount, Outstanding
  <1>7. QED
    BY <1>4, <1>5, <1>6 DEF LaunchInv

LEMMA CallLaunchKeeps ==
  ASSUME CallsInv, LaunchInv, NEW a \in App, CallLaunch(a)
  PROVE  LaunchInv'
  <1> DEFINE r == Current(a).task
             n == writeIndex % QueueSize
  <1>1. /\ calls[a] # <<>> /\ IsLaunch(Current(a)) /\ Return(a)
        /\ slot' = [slot EXCEPT ![r] = writeIndex] /\ writeIndex' = writeIndex + 1
        /\ queue' = [queue EXCEPT ![n] = r]
        /\ taskSignal' = [taskSignal EXCEPT ![r] = @ + 1]
        /\ stage' = [stage EXCEPT ![r] = "queued"]
        /\ UNCHANGED <<segmentVars, readIndex, done>>
    BY DEF CallLaunch, Calling, Advance, IsLaunch
  <1>2. Current(a) = calls[a][1] /\ 1 \in DOMAIN calls[a]
    BY <1>1 DEF CallsInv, Current
  <1>3. r \in Task /\ stage[r] = "none"
    BY <1>1, <1>2 DEF LaunchInv, LaunchesAhead
  <1>4. r \in Instance /\ TaskOf[r] = r
    BY <1>3, DeviceEnqueueAssumption DEF Task
  <1>5. n \in DOMAIN queue /\ "queued" \in StageName
    BY SlotIndex DEF LaunchInv, DeviceTypes, StageName
  <1> HIDE DEF r, n
  <1>6. PacketsWait' /\ queue' \in [0 .. QueueSize - 1 -> Instance \cup {Host}]
    BY <1>1, <1>3, <1>4, <1>5, PacketsPut
  <1>7. DeviceTypes'
    <2>1. /\ stage \in [Instance -> StageName] /\ taskSignal \in [Task -> Nat]
          /\ slot \in [Instance -> Nat] /\ writeIndex \in Nat
      BY DEF LaunchInv, DeviceTypes
    <2>2. stage' \in [Instance -> StageName] /\ slot' \in [Instance -> Nat]
      BY <1>1, <1>5, <2>1
    <2>3. taskSignal' \in [Task -> Nat] /\ writeIndex' \in Nat
      BY <1>1, <1>3, <2>1
    <2>4. QED
      BY <1>1, <1>6, <2>2, <2>3 DEF LaunchInv, DeviceTypes, segmentVars
  <1>8. LaunchesAhead'
    <2>1. calls' = [calls EXCEPT ![a] = Tail(@)]
      BY <1>1 DEF Return
    <2>2. \A u \in Task : stage[u] = "none" =>
            \/ stage'[u] = "none"
            \/ IsLaunch(calls[a][1]) /\ calls[a][1].task = u
      BY <1>1, <1>2 DEF LaunchInv, DeviceTypes, Task, r
    <2>3. QED
      BY <1>1, <2>1, <2>2, AheadShrinks DEF LaunchInv
  <1>9. LaunchesNested'
    <2>1. \A j \in Instance : stage'[j] = IF j = r THEN "queued" ELSE stage[j]
      BY <1>1 DEF LaunchInv, DeviceTypes
    <2>2. \A u \in Task : stage'[u] \in {"none", "queued", "running", "ended"}
      BY <2>1 DEF LaunchInv, LaunchesNested, Task
    <2>3. ASSUME NEW j \in Instance, Parent[j] # Host
          PROVE  /\ stage'[j] # "none" => stage'[Parent[j]] \in {"running", "ended"}
                 /\ stage'[Parent[j]] = "ended" => Launched(j)'
      <3>1. Parent[j] \in Instance /\ j # r
        BY <1>3, <2>3, DeviceEnqueueAssumption DEF Task
      <3>2. /\ stage[j] # "none" => stage[Parent[j]] \in {"running", "ended"}
            /\ stage[Parent[j]] = "ended" => Launched(j)
        BY <2>3 DEF LaunchInv, LaunchesNested
      <3>3. QED
        BY <1>3, <2>1, <3>1, <3>2 DEF Launched
    <2>4. QED
      BY <2>2, <2>3 DEF LaunchesNested
  <1>10. SignalsCount'
    BY <1>1, <1>3, <1>4, <1>5, SignalRaised DEF LaunchInv
  <1>11. DoneEnded' /\ SegmentsApart'
    BY <1>1, <1>3, <1>4, <1>5, DoneKept, SegmentsKept
  <1>12. QED
    BY <1>6, <1>7, <1>8, <1>9, <1>10, <1>11 DEF LaunchInv

LEMMA LaunchesKept ==
  ASSUME CallsInv, LaunchInv, UNCHANGED deviceVars,
         \/ UNCHANGED appVars
         \/ \E x \in Thread : Proceeds(x, Label) /\ (x \in App => calls[x] # <<>>)
  PROVE  LaunchInv'
  <1>1. UNCHANGED <<stage, slot, writeIndex, readIndex, segment, kernargIndex,
                    region, queue, taskSignal, done>>
    BY DEF deviceVars, segmentVars, queueVars
  <1>2. LaunchesAhead'
    <2>1. CASE UNCHANGED calls
      BY <1>1, <2>1, AheadKept DEF LaunchInv
    <2>2. ASSUME NEW a \in App, Return(a), calls[a] # <<>> PROVE LaunchesAhead'
      BY <1>1, <2>2, AheadShrinks DEF LaunchInv, Return
    <2>3. QED
      BY <2>1, <2>2 DEF Proceeds, GoTo, Exit, appVars
  <1>3. /\ DeviceTypes' /\ LaunchesNested' /\ PacketsWait' /\ SegmentsApart'
        /\ DoneEnded'
    BY <1>1 DEF LaunchInv, DeviceTypes, LaunchesNested, PacketsWait, SegmentsApart,
                HasSegment, Launched, DoneEnded
  <1>4. SignalsCount'
    BY <1>1 DEF LaunchInv, SignalsCount, Outstanding
  <1>5. QED
    BY <1>2, <1>3, <1>4 DEF LaunchInv

LEMMA LaunchSteps ==
  ASSUME CallsInv, LaunchInv, [Next]_serviceVars
  PROVE  LaunchInv'
  <1>1. CASE UNCHANGED deviceVars
    BY <1>1, StepProceeds, LaunchesKept
  <1>2. ASSUME NEW a \in App, Device(a) PROVE LaunchInv'
    <2>1. CASE CallLaunch(a)
      BY <2>1, CallLaunchKeeps
    <2>2. CASE WaitTask(a)
      BY <1>1, <2>2 DEF WaitTask
    <2>3. QED
      BY <1>2, <2>1, <2>2 DEF Device, DeviceCall
  <1>3. ASSUME NEW i \in Instance, GPU(i) PROVE LaunchInv'
    <2>1. UNCHANGED calls
      BY <1>3 DEF GPU, appVars
    <2>2. QED
      BY <1>3, <2>1, TakeSegmentKeeps, TakeSlotKeeps, CountLaunchKeeps, SetHeaderKeeps,
         EndInstanceKeeps, CompleteTaskKeeps DEF GPU, DeviceStep
  <1>4. CASE Packets
    BY <1>4, ProcessPacketKeeps DEF Packets, appVars
  <1>5. ASSUME NEW x \in Thread, Data(x) PROVE LaunchInv'
    BY <1>1, <1>5 DEF Data
  <1>6. ASSUME NEW a \in App, Await(a) \/ Life(a) PROVE LaunchInv'
    BY <1>1, <1>6 DEF Await, Life
  <1>7. CASE Engine \/ Arguments \/ Hardware \/ UNCHANGED serviceVars
    BY <1>1, <1>7 DEF Engine, Arguments, Hardware, serviceVars
  <1>8. QED
    BY <1>2, <1>3, <1>4, <1>5, <1>6, <1>7 DEF Next, AppStep, Thread

LEMMA LaunchInit ==
  ASSUME AppInit, DeviceInit
  PROVE  LaunchInv
  <1> USE DEF DeviceInit
  <1>1. DeviceTypes
    BY DeviceEnqueueAssumption DEF DeviceTypes, StageName
  <1>2. LaunchesAhead
    <2>1. program \in Programs /\ calls = program.calls
      BY DEF AppInit
    <2>2. QED
      BY <2>1, LaunchAssumption DEF LaunchesAhead, Task
  <1>3. LaunchesNested
    BY DeviceEnqueueAssumption DEF LaunchesNested, Task
  <1>4. PacketsWait
    BY DEF PacketsWait
  <1>5. SignalsCount
    <2>1. \A r \in Task : Outstanding(r) = {}
      BY DEF Outstanding
    <2>2. QED
      BY <2>1, FS_EmptySet DEF SignalsCount
  <1>6. DoneEnded /\ SegmentsApart
    BY DEF DoneEnded, SegmentsApart, HasSegment
  <1>7. QED
    BY <1>1, <1>2, <1>3, <1>4, <1>5, <1>6 DEF LaunchInv

LEMMA LaunchInvCovers ==
  LaunchInv => LaunchesCovered
  <1>1. SUFFICES ASSUME LaunchInv, NEW i \in Instance, Parent[i] # Host,
                        stage[i] \in {"counted", "queued", "running"},
                        ~Beyond(KernelOf[i])
                 PROVE  region[KernelOf[i]][segment[i]] = i
    BY DEF LaunchesCovered, LaunchInv, DoneEnded
  <1>2. HasSegment(i) /\ KernelOf[i] \in Kernel
    BY <1>1, DeviceEnqueueAssumption DEF HasSegment
  <1>3. segment[i] < kernargIndex[KernelOf[i]] /\ kernargIndex[KernelOf[i]] <= MaxSegments
    BY <1>1, <1>2, SegmentType DEF LaunchInv, SegmentsApart, Beyond, DeviceTypes
  <1>4. segment[i] \in Segment
    BY <1>1, <1>2, <1>3, SegmentType DEF LaunchInv, DeviceTypes
  <1>5. QED
    BY <1>1, <1>2, <1>4 DEF LaunchInv, SegmentsApart

\* A task is COMPLETED only when every launch made below it, by kernels that kernels
\* launched, has ended, and a launch finds its arguments in its segment until a
\* kernel is launched more often than its region has segments: for any tree of
\* launches, any queue and any region, although the launches share the signal and
\* the counter without a lock (device_rt.cl:97, :156).
THEOREM LaunchesAreCovered == Spec => []LaunchesCovered
  <1>1. Init => CallsInv /\ LaunchInv
    BY CallsInit, LaunchInit DEF Init
  <1>2. CallsInv /\ LaunchInv /\ [Next]_serviceVars => (CallsInv /\ LaunchInv)'
    BY CallsSteps, LaunchSteps
  <1>3. CallsInv /\ LaunchInv => LaunchesCovered
    BY LaunchInvCovers
  <1>4. QED
    BY <1>1, <1>2, <1>3, PTL DEF Spec

-------------------------------------------------------------------------------
(***************************************************************************)
(* The life of the runtime, for disciplined programs.  The argument goes   *)
(* from the calls that are left to each thread, over the label a thread is *)
(* at, to what the flags, HSA, the queues, the table of groups and the     *)
(* records of kernels can then be.                                         *)
(***************************************************************************)
Master == CHOOSE m \in App :
  /\ Alone(m, program.calls) /\ GroupsAfterInit(m, program.calls)
  /\ KernelsBeforeLaunch(m, program.calls)

InitLabels == {"keInit", "gpu", "cpu", "setInitialized"}
FinalLabels == {"destroyQueues", "clearTables", "reset", "shutDown"}
GroupLabels == {"construct", "push"}

\* Which call a thread is in.
Belongs(label, op) ==
  /\ label \in InitLabels => op = "init"
  /\ label \in FinalLabels => op = "finalize"
  /\ label \in GroupLabels => op \in {"init", "groupCreate"}
  /\ label \in {"addImpl", "template"} => op = "kernelCreate"
  /\ label = "waitTasks" => op = "kernelRelease"

LabelsCall == \A a \in App : Belongs(pc[a], Current(a).op)

\* What is true of the program's calls is true of those that are left.
ReadyFor(up, s, kern, n) ==
  \E j \in 1 .. n - 1 :
    /\ Creates(s[j], kern) /\ NoRelease(s, kern, j, n)
    /\ \/ \E i \in 1 .. j - 1 : s[i].op = "init" /\ NoFinalize(s, i, j)
       \/ up /\ NoFinalize(s, 1, j)

CallsAhead ==
  /\ Alone(Master, calls)
  /\ asked = <<>> => GroupsAfterInit(Master, calls)
  /\ \A n \in DOMAIN calls[Master] : IsLaunch(calls[Master][n]) =>
       LET kern == KernelOf[calls[Master][n].task]
       IN \/ ReadyFor(initialized, calls[Master], kern, n)
          \/ kernel[kern] # "none" /\ NoRelease(calls[Master], kern, 1, n)

GroupType == [id : Nat, of : GroupName \cup {DefaultGroup, "none"}]
GroupsInv ==
  /\ groups \in Seq(GroupType) /\ nextGroup \in Nat
  /\ object \in [App -> GroupType] /\ groupHandle \in [GroupName -> Int]
  /\ groups # <<>> => groups[1].of = DefaultGroup
  /\ asked # <<>> \/ initialized \/ pc[Master] \in {"setInitialized", "keInit"}
       => groups # <<>>
  /\ \A a \in App : pc[a] \in GroupLabels /\ asked = <<>> =>
       a = Master /\ Current(a).op = "init"
  /\ \A a \in App : pc[a] = "push" => object[a].of = GroupName_(a)
  /\ \A g \in GroupName : groupHandle[g] # NoHandle =>
       /\ groupHandle[g] \in 0 .. Len(groups) - 1
       /\ groups[groupHandle[g] + 1].of = g

AskedFor(d) == Wanted(Master, d) => d \in context
UpInv ==
  /\ asked \in Seq({c.type : c \in AllCalls(program)})
  /\ hsa \in Int /\ queues \in [{"gpu", "cpu"} -> {"none", "live", "mixed", "destroyed"}]
  /\ pc[Master] = "keInit" => initialized
  /\ initialized => asked # <<>> \/ pc[Master] = "keInit"
  /\ templates = "live" \/ finalized => asked # <<>>
  /\ pc[Master] \in FinalLabels => finalized
  /\ ~finalized =>
       /\ hsa >= 0
       /\ initialized \/ pc[Master] = "setInitialized" => hsa > 0
       /\ \A a \in App : pc[a] = "push" => hsa > 0
       /\ \A d \in {"gpu", "cpu"} : queues[d] = IF d \in context THEN "live" ELSE "none"
       /\ pc[Master] = "cpu" => AskedFor("gpu")
       /\ \A d \in {"gpu", "cpu"} :
            /\ pc[Master] \in {"construct", "push", "setInitialized"} =>
                 (Current(Master).op = "init" => AskedFor(d))
            /\ pc[Master] = "keInit" /\ asked = <<>> => AskedFor(d)
            /\ asked # <<>> /\ Head(asked) \in {d, "all"} => d \in context

DownInv ==
  ~program.holdsHSA =>
    /\ ~finalized => hsa = IF "hsa" \in context THEN 1 ELSE 0
    /\ finalized =>
         /\ "hsa" \in context
         /\ hsa = IF pc[Master] \in FinalLabels THEN 1 ELSE 0
         /\ pc[Master] \in FinalLabels \ {"shutDown"} \/ ~initialized
         /\ ~(pc[Master] = "push" /\ Current(Master).op = "init")
         /\ pc[Master] # "setInitialized"

KernelsKept ==
  /\ kernel \in [Kernel -> {"none", "empty", "live", "freed"}]
  /\ \A r \in Task : stage[r] # "none" /\ r \notin done => kernel[KernelOf[r]] # "none"
  /\ pc[Master] = "template" /\ Current(Master).kernel \in Kernel
       => kernel[Current(Master).kernel] # "none"

LifeLabels == InitLabels \cup FinalLabels \cup GroupLabels
                \cup {"addImpl", "template", "waitTasks"}

LifeInv == LabelsCall /\ CallsAhead /\ GroupsInv /\ UpInv /\ DownInv /\ KernelsKept

LEMMA MasterIs ==
  ASSUME Disciplined(program)
  PROVE  /\ Master \in App /\ Alone(Master, program.calls)
         /\ GroupsAfterInit(Master, program.calls)
         /\ KernelsBeforeLaunch(Master, program.calls)
  BY DEF Disciplined, Master

LEMMA MasterStays ==
  ASSUME program' = program
  PROVE  Master' = Master
  BY DEF Master

\* What is left of a sequence of calls when the first has returned.
LEMMA TailCalls ==
  ASSUME CallsInv, NEW a \in App, calls[a] # <<>>
  PROVE  LET s == calls[a]
         IN /\ 1 \in DOMAIN s /\ Current(a) = s[1] /\ s \in Seq(AllCalls(program))
            /\ Tail(s) \in Seq(AllCalls(program))
            /\ Len(s) \in Nat \ {0} /\ DOMAIN s = 1 .. Len(s)
            /\ DOMAIN Tail(s) = 1 .. Len(s) - 1
            /\ \A n \in 1 .. Len(s) - 1 : Tail(s)[n] = s[n + 1]
  BY DEF CallsInv, Current

LEMMA NoFinalizeTail ==
  ASSUME NEW S, NEW s \in Seq(S), s # <<>>,
         NEW i \in Nat \ {0}, NEW h \in Nat, h = i + 1,
         NEW n \in 1 .. Len(s) - 1, NEW m \in Nat, m = n + 1, NEW kern
  PROVE  /\ NoFinalize(s, h, m) => NoFinalize(Tail(s), i, n)
         /\ NoRelease(s, kern, h, m) => NoRelease(Tail(s), kern, i, n)
  <1>1. /\ Len(s) \in Nat
        /\ \A k \in 1 .. Len(s) - 1 : Tail(s)[k] = s[k + 1]
    OBVIOUS
  <1>2. \A k \in i .. n : k + 1 \in h .. m /\ Tail(s)[k] = s[k + 1]
    BY <1>1
  <1>3. NoFinalize(s, h, m) => NoFinalize(Tail(s), i, n)
    BY <1>2 DEF NoFinalize
  <1>4. NoRelease(s, kern, h, m) => NoRelease(Tail(s), kern, i, n)
    BY <1>2 DEF NoRelease
  <1>5. QED
    BY <1>3, <1>4

LEMMA ShorterSpan ==
  ASSUME NEW s, NEW i \in Nat, NEW j \in Nat, i <= j, NEW n, NEW kern
  PROVE  /\ NoFinalize(s, i, n) => NoFinalize(s, j, n)
         /\ NoRelease(s, kern, i, n) => NoRelease(s, kern, j, n)
  BY DEF NoFinalize, NoRelease

\* The first call of thread c returns, having done its part.
LEMMA ReadyTail ==
  ASSUME NEW S, NEW s \in Seq(S), s # <<>>, NEW n \in 1 .. Len(s) - 1, NEW kern,
         \/ ReadyFor(initialized, s, kern, n + 1)
         \/ kernel[kern] # "none" /\ NoRelease(s, kern, 1, n + 1),
         s[1].op = "init" => initialized',
         s[1].op = "finalize" \/ (initialized => initialized'),
         Creates(s[1], kern) /\ initialized => kernel'[kern] # "none",
         kernel[kern] # "none" =>
           kernel'[kern] # "none" \/ (s[1].op = "kernelRelease" /\ s[1].kernel = kern)
  PROVE  \/ ReadyFor(initialized', Tail(s), kern, n)
         \/ kernel'[kern] # "none" /\ NoRelease(Tail(s), kern, 1, n)
  <1>1. Len(s) \in Nat /\ \A k \in 1 .. Len(s) - 1 : Tail(s)[k] = s[k + 1]
    OBVIOUS
  <1>2. CASE kernel[kern] # "none" /\ NoRelease(s, kern, 1, n + 1)
    <2>1. ~(s[1].op = "kernelRelease" /\ s[1].kernel = kern)
      BY <1>1, <1>2 DEF NoRelease
    <2>2. NoRelease(s, kern, 2, n + 1)
      BY <1>2, ShorterSpan
    <2>3. NoRelease(Tail(s), kern, 1, n)
      BY <2>2, NoFinalizeTail
    <2>4. QED
      BY <1>2, <2>1, <2>3
  <1>3. CASE ReadyFor(initialized, s, kern, n + 1)
    <2>1. PICK j \in 1 .. n :
            /\ Creates(s[j], kern) /\ NoRelease(s, kern, j, n + 1)
            /\ \/ \E i \in 1 .. j - 1 : s[i].op = "init" /\ NoFinalize(s, i, j)
               \/ initialized /\ NoFinalize(s, 1, j)
      BY <1>1, <1>3 DEF ReadyFor
    <2>2. CASE j = 1
      <3>1. initialized
        BY <2>1, <2>2
      <3>2. kernel'[kern] # "none"
        BY <2>1, <2>2, <3>1
      <3>3. NoRelease(s, kern, 2, n + 1)
        BY <2>1, <2>2, ShorterSpan
      <3>4. NoRelease(Tail(s), kern, 1, n)
        <4>1. /\ 2 = 1 + 1 /\ 1 \in Nat \ {0} /\ 2 \in Nat
              /\ n + 1 \in Nat /\ n \in 1 .. Len(s) - 1
          BY <1>1
        <4>2. QED
          BY <3>3, <4>1, NoFinalizeTail
      <3>5. QED
        BY <3>2, <3>4
    <2>3. CASE j # 1
      <3> DEFINE l == j - 1
      <3>1. /\ l \in 1 .. n - 1 /\ l \in 1 .. Len(s) - 1 /\ j = l + 1
            /\ j \in Nat /\ 2 = 1 + 1 /\ 1 \in Nat \ {0} /\ 2 \in Nat
        BY <1>1, <2>3
      <3> HIDE DEF l
      <3>2. Creates(Tail(s)[l], kern)
        BY <1>1, <2>1, <3>1 DEF Creates
      <3>3. NoRelease(Tail(s), kern, l, n)
        <4>1. n + 1 \in Nat /\ l \in Nat \ {0} /\ NoRelease(s, kern, j, n + 1)
          BY <1>1, <2>1, <3>1
        <4>2. QED
          BY <3>1, <4>1, NoFinalizeTail
      <3>4. \/ \E i \in 1 .. l - 1 : Tail(s)[i].op = "init" /\ NoFinalize(Tail(s), i, l)
            \/ initialized' /\ NoFinalize(Tail(s), 1, l)
        <4>1. CASE initialized /\ NoFinalize(s, 1, j)
          <5>1. s[1].op # "finalize" /\ NoFinalize(s, 2, j)
            BY <3>1, <4>1, ShorterSpan DEF NoFinalize
          <5>2. NoFinalize(Tail(s), 1, l)
            BY <3>1, <5>1, NoFinalizeTail
          <5>3. QED
            BY <4>1, <5>1, <5>2
        <4>2. ASSUME NEW i \in 1 .. j - 1, s[i].op = "init", NoFinalize(s, i, j)
              PROVE  \/ \E h \in 1 .. l - 1 :
                          Tail(s)[h].op = "init" /\ NoFinalize(Tail(s), h, l)
                     \/ initialized' /\ NoFinalize(Tail(s), 1, l)
          <5>1. CASE i = 1
            <6>1. NoFinalize(s, 2, j)
              <7>1. NoFinalize(s, 1, j) /\ 1 \in Nat /\ 2 \in Nat /\ 1 <= 2
                BY <4>2, <5>1
              <7>2. QED
                BY <7>1, ShorterSpan
            <6>2. NoFinalize(Tail(s), 1, l)
              BY <3>1, <6>1, NoFinalizeTail
            <6>3. QED
              BY <4>2, <5>1, <6>2
          <5>2. CASE i # 1
            <6> DEFINE h == i - 1
            <6>1. h \in 1 .. l - 1 /\ i = h + 1 /\ h \in Nat \ {0} /\ i \in Nat /\ h \in 1 .. Len(s) - 1
              BY <3>1, <5>2
            <6> HIDE DEF h
            <6>2. Tail(s)[h].op = "init"
              BY <1>1, <4>2, <6>1
            <6>3. NoFinalize(Tail(s), h, l)
              BY <3>1, <4>2, <6>1, NoFinalizeTail
            <6>4. QED
              BY <6>1, <6>2, <6>3
          <5>3. QED
            BY <5>1, <5>2
        <4>3. QED
          BY <2>1, <4>1, <4>2
      <3>5. QED
        BY <3>1, <3>2, <3>3, <3>4 DEF ReadyFor
    <2>4. QED
      BY <2>2, <2>3
  <1>4. QED
    BY <1>2, <1>3

LEMMA AheadStays ==
  ASSUME CallsInv, LaunchesAhead, CallsAhead, Master \in App, Master' = Master, UNCHANGED calls,
         asked' = <<>> => asked = <<>>,
         \A kern \in Kernel : kernel[kern] # "none" => kernel'[kern] # "none",
         \/ initialized => initialized'
         \/ calls[Master] # <<>> /\ Current(Master).op = "finalize"
  PROVE  CallsAhead'
  <1>1. Alone(Master, calls)'
    BY DEF CallsAhead, Alone
  <1>2. (asked = <<>> => GroupsAfterInit(Master, calls))'
    BY DEF CallsAhead, GroupsAfterInit
  <1>3. ASSUME NEW n \in DOMAIN calls[Master], IsLaunch(calls[Master][n]),
               NEW kern, kern = KernelOf[calls[Master][n].task]
        PROVE  \/ ReadyFor(initialized, calls[Master], kern, n)'
               \/ kernel'[kern] # "none" /\ NoRelease(calls[Master], kern, 1, n)
    <2>1. kern \in Kernel
      <3>1. calls[Master][n].task \in Task
        BY <1>3 DEF LaunchesAhead
      <3>2. QED
        BY <1>3, <3>1, DeviceEnqueueAssumption DEF Task
    <2>2. CASE kernel[kern] # "none" /\ NoRelease(calls[Master], kern, 1, n)
      BY <2>1, <2>2
    <2>3. CASE ReadyFor(initialized, calls[Master], kern, n)
      <3>1. PICK j \in 1 .. n - 1 :
              /\ Creates(calls[Master][j], kern)
              /\ NoRelease(calls[Master], kern, j, n)
              /\ \/ \E i \in 1 .. j - 1 : /\ calls[Master][i].op = "init"
                                          /\ NoFinalize(calls[Master], i, j)
                 \/ initialized /\ NoFinalize(calls[Master], 1, j)
        BY <2>3 DEF ReadyFor
      <3>2. calls[Master] # <<>> => Current(Master) = calls[Master][1]
        BY TailCalls
      <3>3. ~(/\ initialized /\ NoFinalize(calls[Master], 1, j)
              /\ calls[Master] # <<>> /\ Current(Master).op = "finalize")
        BY <3>1, <3>2 DEF NoFinalize
      <3>4. QED
        BY <3>1, <3>3 DEF ReadyFor
    <2>4. QED
      BY <1>3, <2>2, <2>3 DEF CallsAhead
  <1>4. QED
    BY <1>1, <1>2, <1>3 DEF CallsAhead

LEMMA AheadReturns ==
  ASSUME CallsInv, LaunchesAhead, CallsAhead, Master \in App, Master' = Master,
         NEW a \in App, calls[a] # <<>>, calls' = [calls EXCEPT ![a] = Tail(@)],
         asked' = <<>> => asked = <<>> /\ Current(a).op # "await",
         a = Master /\ Current(a).op = "init" => initialized' /\ asked' # <<>>,
         \/ initialized => initialized'
         \/ a = Master /\ Current(a).op = "finalize",
         \A kern \in Kernel :
           /\ kernel[kern] # "none" =>
                \/ kernel'[kern] # "none"
                \/ /\ a = Master /\ Current(a).op = "kernelRelease"
                   /\ Current(a).kernel = kern
           /\ a = Master /\ Creates(Current(a), kern) /\ initialized
                => kernel'[kern] # "none"
  PROVE  CallsAhead'
  <1> DEFINE s == calls[a]
  <1>1. /\ 1 \in DOMAIN s /\ Current(a) = s[1] /\ s \in Seq(AllCalls(program))
        /\ Len(s) \in Nat \ {0} /\ DOMAIN s = 1 .. Len(s)
        /\ DOMAIN Tail(s) = 1 .. Len(s) - 1
        /\ \A n \in 1 .. Len(s) - 1 : Tail(s)[n] = s[n + 1]
    BY TailCalls
  <1>2. \A b \in App : calls'[b] = IF b = a THEN Tail(s) ELSE calls[b]
    BY DEF CallsInv
  <1> HIDE DEF s
  <1>3. Alone(Master, calls)'
    BY <1>1, <1>2 DEF CallsAhead, Alone, s
  <1>4. ASSUME asked' = <<>> PROVE GroupsAfterInit(Master, calls)'
    <2>1. /\ GroupsAfterInit(Master, calls) /\ Current(a).op # "await"
          /\ ~(a = Master /\ Current(a).op = "init")
      BY <1>4 DEF CallsAhead
    <2>2. SUFFICES ASSUME NEW b \in App, NEW n \in DOMAIN calls'[b],
                          calls'[b][n].op = "groupCreate"
                   PROVE  \E k \in 1 .. n - 1 :
                            calls'[b][k].op = IF b = Master THEN "init" ELSE "await"
      BY DEF GroupsAfterInit
    <2>3. CASE b # a
      BY <1>2, <2>1, <2>2, <2>3 DEF GroupsAfterInit
    <2>4. CASE b = a
      <3>1. n \in 1 .. Len(s) - 1 /\ calls'[b] = Tail(s)
        BY <1>1, <1>2, <2>4
      <3>2. n + 1 \in DOMAIN calls[a] /\ calls[a][n + 1].op = "groupCreate"
        <4>1. n + 1 \in 1 .. Len(s) /\ Tail(s)[n] = s[n + 1]
          BY <1>1, <3>1
        <4>2. QED
          BY <1>1, <2>2, <3>1, <4>1 DEF s
      <3>3. PICK k \in 1 .. n : s[k].op = IF a = Master THEN "init" ELSE "await"
        <4>1. \E k \in 1 .. (n + 1) - 1 :
                calls[a][k].op = IF a = Master THEN "init" ELSE "await"
          BY <2>1, <3>2 DEF GroupsAfterInit
        <4>2. (n + 1) - 1 = n
          BY <1>1, <3>1
        <4>3. QED
          BY <4>1, <4>2 DEF s
      <3>4. k # 1
        BY <1>1, <2>1, <3>3
      <3>5. k - 1 \in 1 .. n - 1 /\ k - 1 \in 1 .. Len(s) - 1 /\ (k - 1) + 1 = k
        BY <1>1, <3>1, <3>4
      <3>6. Tail(s)[k - 1] = s[k]
        BY <1>1, <3>5
      <3>7. QED
        BY <2>4, <3>1, <3>3, <3>5, <3>6
    <2>5. QED
      BY <2>3, <2>4
  <1>5. ASSUME NEW n \in DOMAIN calls'[Master], IsLaunch(calls'[Master][n]),
               NEW kern, kern = KernelOf[calls'[Master][n].task]
        PROVE  \/ ReadyFor(initialized, calls[Master], kern, n)'
               \/ kernel'[kern] # "none" /\ NoRelease(calls'[Master], kern, 1, n)
    <2>1. CASE a = Master
      <3>1. n \in 1 .. Len(s) - 1 /\ calls'[Master] = Tail(s)
        BY <1>1, <1>2, <1>5, <2>1
      <3>2. n + 1 \in DOMAIN calls[Master] /\ calls'[Master][n] = calls[Master][n + 1]
        <4>1. n + 1 \in 1 .. Len(s) /\ Tail(s)[n] = s[n + 1]
          BY <1>1, <3>1
        <4>2. QED
          BY <1>1, <2>1, <3>1, <4>1 DEF s
      <3>3. IsLaunch(calls[Master][n + 1]) /\ kern = KernelOf[calls[Master][n + 1].task]
        BY <1>5, <3>2
      <3>4. \/ ReadyFor(initialized, s, kern, n + 1)
            \/ kernel[kern] # "none" /\ NoRelease(s, kern, 1, n + 1)
        BY <2>1, <3>2, <3>3 DEF CallsAhead, s
      <3>5. kern \in Kernel
        BY <3>2, <3>3, DeviceEnqueueAssumption DEF LaunchesAhead, Task
      <3>6. \/ ReadyFor(initialized', Tail(s), kern, n)
            \/ kernel'[kern] # "none" /\ NoRelease(Tail(s), kern, 1, n)
        <4>1. /\ s \in Seq(AllCalls(program)) /\ s # <<>>
              /\ s[1].op = "init" => initialized'
              /\ s[1].op = "finalize" \/ (initialized => initialized')
              /\ Creates(s[1], kern) /\ initialized => kernel'[kern] # "none"
              /\ kernel[kern] # "none" =>
                   kernel'[kern] # "none" \/ (s[1].op = "kernelRelease" /\ s[1].kernel = kern)
          BY <1>1, <2>1, <3>5 DEF s
        <4>2. QED
          BY <3>1, <3>4, <4>1, ReadyTail
      <3>7. QED
        <4>1. \/ ReadyFor(initialized', calls'[Master], kern, n)
              \/ kernel'[kern] # "none" /\ NoRelease(calls'[Master], kern, 1, n)
          BY <3>1, <3>6
        <4>2. QED
          BY <4>1 DEF ReadyFor
    <2>2. CASE a # Master
      <3>1. calls'[Master] = calls[Master] /\ n \in DOMAIN calls[Master]
        BY <1>2, <1>5, <2>2
      <3>2. kern \in Kernel
        BY <1>5, <3>1, DeviceEnqueueAssumption DEF LaunchesAhead, Task
      <3>3. \/ ReadyFor(initialized, calls[Master], kern, n)
            \/ kernel[kern] # "none" /\ NoRelease(calls[Master], kern, 1, n)
        BY <1>5, <3>1 DEF CallsAhead
      <3>4. (initialized => initialized') /\ (kernel[kern] # "none" => kernel'[kern] # "none")
        BY <2>2, <3>2
      <3>5. QED
        BY <3>1, <3>3, <3>4 DEF ReadyFor
    <2>3. QED
      BY <2>1, <2>2
  <1>6. QED
    BY <1>3, <1>4, <1>5 DEF CallsAhead

-------------------------------------------------------------------------------
(* What a step of any thread does to the calls and the labels.               *)
LEMMA LabelsGoTo ==
  ASSUME CallsInv, LabelsCall, NEW x \in Thread, NEW l \in Label, GoTo(x, l),
         x \in App => Belongs(l, Current(x).op)
  PROVE  LabelsCall'
  <1>1. calls' = calls /\ \A a \in App : pc'[a] = IF a = x THEN l ELSE pc[a]
    BY DEF GoTo, CallsInv, Thread
  <1>2. QED
    BY <1>1 DEF LabelsCall, Current

LEMMA LabelsReturn ==
  ASSUME CallsInv, LabelsCall, NEW a \in App, Return(a)
  PROVE  LabelsCall'
  <1>1. \A b \in App : /\ pc'[b] = IF b = a THEN "idle" ELSE pc[b]
                       /\ b # a => calls'[b] = calls[b]
    BY DEF Return, CallsInv, Thread
  <1>2. \A op : Belongs("idle", op)
    BY DEF Belongs, InitLabels, FinalLabels, GroupLabels
  <1>3. QED
    BY <1>1, <1>2 DEF LabelsCall, Current

LEMMA LabelsSame ==
  ASSUME LabelsCall, UNCHANGED <<pc, calls>>
  PROVE  LabelsCall'
  BY DEF LabelsCall, Current

\* Only the master is in the calls that it alone makes.
LEMMA OnlyMaster ==
  ASSUME CallsInv, LabelsCall, CallsAhead, NEW a \in App,
         \/ calls[a] # <<>> /\ Current(a).op \in MasterCalls
         \/ pc[a] \in InitLabels \cup FinalLabels \cup {"waitTasks"}
  PROVE  a = Master
  <1>1. calls[a] # <<>>
    BY DEF CallsInv, InitLabels, FinalLabels
  <1>2. Current(a).op \in MasterCalls
    BY DEF LabelsCall, Belongs, MasterCalls
  <1>3. 1 \in DOMAIN calls[a] /\ Current(a) = calls[a][1]
    BY <1>1, TailCalls
  <1>4. QED
    BY <1>2, <1>3 DEF CallsAhead, Alone

\* The steps of the other services.
QuietCalls ==
  {"malloc", "free", "memcpy", "memcpyAsync", "wait", "await", "launch", "waitTask"}

QuietMove(x) ==
  \/ Exit \/ UNCHANGED appVars
  \/ /\ x \in App => pc[x] \notin LifeLabels
     /\ \/ \E l \in Label \ LifeLabels : GoTo(x, l)
        \/ /\ x \in App /\ Return(x) /\ calls[x] # <<>>
           /\ Current(x).op \in QuietCalls
           /\ Current(x).op = "await" => asked # <<>>

LEMMA CallIsQuiet ==
  ASSUME CallsInv, NEW a \in App, DataCall(a)
  PROVE  QuietMove(a)
  <1> USE DEF Calling, Inside, QuietMove, LifeLabels, InitLabels, FinalLabels,
              GroupLabels, Label, Unregistered, Others, QuietCalls, CallsInv
  <1>1. CASE CallMalloc(a) \/ CallFree(a) \/ CallMemcpy(a)
    BY <1>1 DEF CallMalloc, CallFree, CallMemcpy
  <1>2. CASE ReturnFree(a) \/ Store(a) \/ ReturnMemcpy(a)
    BY <1>2 DEF ReturnFree, Store, ReturnMemcpy
  <1>3. CASE CallMemcpyAsync(a) \/ WaitCopy(a)
    BY <1>3 DEF CallMemcpyAsync, WaitCopy
  <1>4. QED
    BY <1>1, <1>2, <1>3 DEF DataCall

LEMMA DataIsQuiet ==
  ASSUME CallsInv, NEW x \in Thread, DataStep(x)
  PROVE  QuietMove(x)
  <1> USE DEF QuietMove, LifeLabels, InitLabels, FinalLabels,
              GroupLabels, Label, Unregistered, Others, QuietCalls, CallsInv
  <1>1. CASE Allocate(x) \/ Release(x)
    BY <1>1 DEF Allocate, Release
  <1>2. CASE Register(x)
    BY <1>2 DEF Register
  <1>3. CASE Find(x) \/ RemoveRange(x)
    BY <1>3 DEF Find, RemoveRange
  <1>4. CASE Fill(x) \/ Submit(x)
    BY <1>4 DEF Fill, Submit
  <1>5. CASE Wait(x) \/ Back(x)
    BY <1>5 DEF Wait, Back
  <1>6. QED
    BY <1>1, <1>2, <1>3, <1>4, <1>5 DEF DataStep

LEMMA CopyIsQuiet ==
  ASSUME NEW t \in Copy, CopyStep(t)
  PROVE  QuietMove(t)
  BY CopyProceeds DEF QuietMove, LifeLabels, InitLabels, FinalLabels, GroupLabels,
     Label, Unregistered, Others

LEMMA AwaitIsQuiet ==
  ASSUME NEW a \in App, Await(a) \/ DeviceCall(a)
  PROVE  QuietMove(a)
  BY DEF Await, DeviceCall, CallLaunch, WaitTask, Calling, QuietMove, LifeLabels,
     InitLabels, FinalLabels, GroupLabels, QuietCalls

LEMMA QuietKeepsAhead ==
  ASSUME CallsInv, LaunchesAhead, CallsAhead, Master \in App, NEW x \in Thread,
         QuietMove(x), UNCHANGED <<asked, initialized, kernel>>
  PROVE  CallsAhead' /\ Master' = Master /\ program' = program
  <1>1. program' = program
    BY DEF QuietMove, Exit, appVars, GoTo, Return
  <1>2. Master' = Master
    BY <1>1, MasterStays
  <1>0. /\ asked' = asked /\ initialized' = initialized
        /\ \A kern : kernel'[kern] = kernel[kern]
    OBVIOUS
  <1>3. CASE UNCHANGED calls
    BY <1>0, <1>1, <1>2, <1>3, AheadStays
  <1>4. CASE ~UNCHANGED calls
    <2>1. /\ x \in App /\ Return(x) /\ calls[x] # <<>> /\ Current(x).op \in QuietCalls
          /\ Current(x).op = "await" => asked # <<>>
      BY <1>4 DEF QuietMove, Exit, appVars, GoTo
    <2>2. calls' = [calls EXCEPT ![x] = Tail(@)]
      BY <2>1 DEF Return
    <2>3. /\ ~(x = Master /\ Current(x).op = "init")
          /\ asked' = <<>> => asked = <<>> /\ Current(x).op # "await"
          /\ \A kern : ~Creates(Current(x), kern)
      BY <2>1 DEF QuietCalls, Creates
    <2>4. QED
      <3>1. /\ asked' = <<>> => asked = <<>> /\ Current(x).op # "await"
            /\ x = Master /\ Current(x).op = "init" => initialized' /\ asked' # <<>>
            /\ \/ initialized => initialized'
               \/ x = Master /\ Current(x).op = "finalize"
        BY <1>0, <2>3
      <3>2. \A kern \in Kernel :
              /\ kernel[kern] # "none" =>
                   \/ kernel'[kern] # "none"
                   \/ /\ x = Master /\ Current(x).op = "kernelRelease"
                      /\ Current(x).kernel = kern
              /\ x = Master /\ Creates(Current(x), kern) /\ initialized
                   => kernel'[kern] # "none"
        BY <1>0, <2>3
      <3>3. CallsAhead'
        BY <1>2, <2>1, <2>2, <3>1, <3>2, AheadReturns
      <3>4. QED
        BY <1>1, <1>2, <3>3
  <1>5. QED
    BY <1>1, <1>2, <1>3, <1>4

LEMMA QuietLabels ==
  ASSUME CallsInv, LabelsCall, NEW x \in Thread, QuietMove(x)
  PROVE  /\ LabelsCall'
         /\ \A a \in App : \/ pc'[a] = pc[a] /\ calls'[a] = calls[a]
                           \/ pc[a] \notin LifeLabels /\ pc'[a] \notin LifeLabels
  <1>1. CASE Exit \/ UNCHANGED appVars
    BY <1>1, LabelsSame DEF Exit, appVars
  <1>2. ASSUME NEW l \in Label \ LifeLabels, GoTo(x, l), x \in App => pc[x] \notin LifeLabels
        PROVE  /\ LabelsCall'
               /\ \A a \in App : \/ pc'[a] = pc[a] /\ calls'[a] = calls[a]
                                 \/ pc[a] \notin LifeLabels /\ pc'[a] \notin LifeLabels
    <2>1. \A op : Belongs(l, op)
      BY DEF Belongs, LifeLabels
    <2>2. LabelsCall'
      BY <1>2, <2>1, LabelsGoTo
    <2>3. QED
      BY <1>2, <2>2 DEF GoTo, CallsInv, Thread
  <1>3. CASE x \in App /\ Return(x) /\ pc[x] \notin LifeLabels
    <2>1. LabelsCall'
      BY <1>3, LabelsReturn
    <2>2. "idle" \notin LifeLabels
      BY DEF LifeLabels, InitLabels, FinalLabels, GroupLabels
    <2>3. QED
      BY <1>3, <2>1, <2>2 DEF Return, CallsInv, Thread
  <1>4. QED
    BY <1>1, <1>2, <1>3 DEF QuietMove

\* The groups, the flags and the queues when no label of the runtime's life is
\* entered or left and nothing of its state changes.
LEMMA LifeKept ==
  ASSUME GroupsInv, UpInv, DownInv, Master \in App, Master' = Master,
         program' = program, UNCHANGED lifeVars,
         \A a \in App : \/ pc'[a] = pc[a] /\ calls'[a] = calls[a]
                        \/ pc[a] \notin LifeLabels /\ pc'[a] \notin LifeLabels
  PROVE  GroupsInv' /\ UpInv' /\ DownInv'
  <1> USE DEF LifeLabels
  <1>1. UNCHANGED <<hsa, context, queues, infoTable, initialized, devrt, asked, finalized,
                    templates, kernelCounter, kernel, groups, nextGroup, object,
                    groupHandle>>
    BY DEF lifeVars, hsaVars, flagVars, kernelVars, groupVars
  <1>2. GroupsInv'
    <2>1. /\ groups' \in Seq(GroupType) /\ nextGroup' \in Nat
          /\ object' \in [App -> GroupType] /\ groupHandle' \in [GroupName -> Int]
          /\ groups' # <<>> => groups'[1].of = DefaultGroup
          /\ \A g \in GroupName : groupHandle'[g] # NoHandle =>
               /\ groupHandle'[g] \in 0 .. Len(groups') - 1
               /\ groups'[groupHandle'[g] + 1].of = g
      BY <1>1 DEF GroupsInv
    <2>2. asked' # <<>> \/ initialized' \/ pc'[Master] \in {"setInitialized", "keInit"}
            => groups' # <<>>
      BY <1>1 DEF GroupsInv, InitLabels
    <2>3. ASSUME NEW a \in App, pc'[a] \in GroupLabels
          PROVE  /\ asked' = <<>> => a = Master /\ Current(a)'.op = "init"
                 /\ pc'[a] = "push" => object'[a].of = GroupName_(a)'
      <3>1. pc'[a] = pc[a] /\ Current(a)' = Current(a)
        BY <2>3 DEF Current
      <3>2. GroupName_(a)' = GroupName_(a)
        BY <3>1 DEF GroupName_
      <3>3. QED
        BY <1>1, <2>3, <3>1, <3>2 DEF GroupsInv
    <2>4. QED
      BY <2>1, <2>2, <2>3 DEF GroupsInv, GroupLabels
  <1>3. UpInv'
    BY <1>1 DEF UpInv, AskedFor, Wanted, Current, InitLabels, GroupLabels, AllCalls
  <1>4. DownInv'
    BY <1>1 DEF DownInv, Current, InitLabels, FinalLabels, GroupLabels
  <1>5. QED
    BY <1>2, <1>3, <1>4

LEMMA QuietKeepsLife ==
  ASSUME CallsInv, LaunchesAhead, LifeInv, Master \in App, NEW x \in Thread,
         QuietMove(x), UNCHANGED lifeVars,
         \A r \in Task : stage'[r] # "none" /\ r \notin done'
                           => kernel[KernelOf[r]] # "none"
  PROVE  LifeInv'
  <1>1. UNCHANGED <<asked, initialized, kernel>>
    BY DEF lifeVars, flagVars, kernelVars
  <1>2. CallsAhead' /\ Master' = Master /\ program' = program
    BY <1>1, QuietKeepsAhead DEF LifeInv
  <1>3. /\ LabelsCall'
        /\ \A a \in App : \/ pc'[a] = pc[a] /\ calls'[a] = calls[a]
                          \/ pc[a] \notin LifeLabels /\ pc'[a] \notin LifeLabels
    BY QuietLabels DEF LifeInv
  <1>4. GroupsInv' /\ UpInv' /\ DownInv'
    BY <1>2, <1>3, LifeKept DEF LifeInv
  <1>5. KernelsKept'
    BY <1>1, <1>2, <1>3 DEF LifeInv, KernelsKept, LifeLabels, Current
  <1>6. QED
    BY <1>2, <1>3, <1>4, <1>5 DEF LifeInv

-------------------------------------------------------------------------------
(* The steps of the runtime's life: the labels and the calls that are left.  *)
LEMMA LifeKeepsMaster ==
  ASSUME CallsInv, NEW a \in App, LifeCall(a)
  PROVE  /\ program' = program /\ Master' = Master /\ calls[a] # <<>>
         /\ \A b \in App \ {a} : pc'[b] = pc[b] /\ calls'[b] = calls[b]
  <1>1. Proceeds(a, Others) /\ calls[a] # <<>>
    BY LifeProceeds
  <1>2. program' = program
    BY <1>1 DEF Proceeds, GoTo, Return, Exit, appVars
  <1>3. \A b \in App \ {a} : pc'[b] = pc[b] /\ calls'[b] = calls[b]
    BY <1>1 DEF Proceeds, GoTo, Return, Exit, appVars, CallsInv, Thread
  <1>4. QED
    BY <1>1, <1>2, <1>3, MasterStays

\* What the object is for that a thread pushes.
LEMMA PushFor ==
  ASSUME CallsInv, LabelsCall, GroupsInv, NEW a \in App, pc[a] = "push"
  PROVE  \/ Current(a).op = "init" /\ object[a].of = DefaultGroup
         \/ /\ Current(a).op = "groupCreate" /\ object[a].of = Current(a).group
            /\ object[a].of \in GroupName /\ object[a].of # DefaultGroup
  <1>1. Current(a).op \in {"init", "groupCreate"} /\ object[a].of = GroupName_(a)
    BY DEF LabelsCall, Belongs, GroupLabels, GroupsInv
  <1>2. Current(a) \in AllCalls(program)
    BY CurrentIsCall DEF CallsInv
  <1>3. Current(a).op = "groupCreate" => Current(a).group \in GroupName
    BY <1>2, LifeAssumption DEF CallsInv
  <1>4. QED
    BY <1>1, <1>3, LifeAssumption DEF GroupName_

LEMMA LifeMoves ==
  ASSUME CallsInv, LabelsCall, GroupsInv, NEW a \in App, LifeCall(a)
  PROVE  \/ Exit \/ Return(a)
         \/ \E l \in Label : GoTo(a, l) /\ Belongs(l, Current(a).op)
  <1> USE DEF LabelsCall, Belongs, InitLabels, FinalLabels, GroupLabels, Calling,
              Label, Others
  <1>1. CASE CallInitialize(a)
    BY <1>1 DEF CallInitialize
  <1>2. CASE InitGPU(a)
    BY <1>2 DEF InitGPU, Context
  <1>3. CASE InitCPU(a)
    BY <1>3 DEF InitCPU, Context
  <1>4. CASE SetInitialized(a) \/ InitDeviceRuntime(a)
    BY <1>4 DEF SetInitialized, InitDeviceRuntime
  <1>5. CASE CallFinalize(a) \/ DestroyQueues(a) \/ ClearTables(a)
    BY <1>5 DEF CallFinalize, DestroyQueues, ClearTables
  <1>6. CASE ResetInitialized(a) \/ ShutDown(a)
    BY <1>6 DEF ResetInitialized, ShutDown
  <1>7. CASE CallGroupCreate(a) \/ ConstructGroup(a)
    BY <1>7 DEF CallGroupCreate, ConstructGroup
  <1>8. CASE CallGroupRelease(a) \/ CallRegisterModule(a)
    BY <1>8 DEF CallGroupRelease, CallRegisterModule
  <1>9. CASE CallCreateKernel(a)
    BY <1>9 DEF CallCreateKernel
  <1>10. CASE AddGPUKernelImpl(a) \/ FillTemplate(a)
    BY <1>10 DEF AddGPUKernelImpl, FillTemplate
  <1>11. CASE CallReleaseKernel(a) \/ WaitTasks(a)
    BY <1>11 DEF CallReleaseKernel, WaitTasks
  <1>12. CASE PushGroup(a)
    BY <1>12, PushFor DEF PushGroup
  <1>13. QED
    BY <1>1, <1>2, <1>3, <1>4, <1>5, <1>6, <1>7, <1>8, <1>9, <1>10, <1>11, <1>12
       DEF LifeCall

LEMMA LifeKeepsLabels ==
  ASSUME CallsInv, LabelsCall, GroupsInv, NEW a \in App, LifeCall(a)
  PROVE  LabelsCall'
  <1>1. a \in Thread
    BY DEF Thread
  <1>2. CASE Exit
    BY <1>2, LabelsSame DEF Exit
  <1>3. CASE Return(a)
    BY <1>3, LabelsReturn
  <1>4. ASSUME NEW l \in Label, GoTo(a, l), Belongs(l, Current(a).op)
        PROVE  LabelsCall'
    BY <1>1, <1>4, LabelsGoTo
  <1>5. QED
    BY <1>2, <1>3, <1>4, LifeMoves

\* A step in which the thread stays in its call, or leaves one that neither
\* initialises the runtime nor makes a kernel.
LEMMA AheadMoves ==
  ASSUME CallsInv, LaunchesAhead, CallsAhead, Master \in App, Master' = Master,
         NEW a \in App, calls[a] # <<>>, asked' = asked,
         \/ UNCHANGED calls
         \/ Return(a) /\ Current(a).op \notin {"init", "await", "kernelCreate"},
         \/ initialized => initialized'
         \/ a = Master /\ Current(a).op = "finalize",
         \A kern \in Kernel : kernel[kern] # "none" => kernel'[kern] # "none"
  PROVE  CallsAhead'
  <1>1. CASE UNCHANGED calls
    BY <1>1, AheadStays
  <1>2. CASE Return(a) /\ Current(a).op \notin {"init", "await", "kernelCreate"}
    <2>1. /\ calls' = [calls EXCEPT ![a] = Tail(@)]
          /\ asked' = <<>> => asked = <<>> /\ Current(a).op # "await"
          /\ a = Master /\ Current(a).op = "init" => initialized' /\ asked' # <<>>
      BY <1>2 DEF Return
    <2>2. \A kern \in Kernel :
            /\ kernel[kern] # "none" =>
                 \/ kernel'[kern] # "none"
                 \/ /\ a = Master /\ Current(a).op = "kernelRelease"
                    /\ Current(a).kernel = kern
            /\ a = Master /\ Creates(Current(a), kern) /\ initialized
                 => kernel'[kern] # "none"
      BY <1>2 DEF Creates
    <2>3. QED
      BY <2>1, <2>2, AheadReturns
  <1>3. QED
    BY <1>1, <1>2

LEMMA LifeKeepsAhead ==
  ASSUME CallsInv, LaunchesAhead, LifeInv, Master \in App, NEW a \in App, LifeCall(a)
  PROVE  CallsAhead'
  <1> USE DEF LifeInv
  <1>1. Master' = Master /\ calls[a] # <<>>
    BY LifeKeepsMaster
  <1>2. ASSUME UNCHANGED <<asked, initialized, kernel>>,
               \/ UNCHANGED calls
               \/ Return(a) /\ Current(a).op \notin {"init", "await", "kernelCreate"}
        PROVE  CallsAhead'
    <2>1. /\ asked' = asked /\ initialized' = initialized /\ kernel' = kernel
      BY <1>2
    <2>2. QED
      BY <1>1, <1>2, <2>1, AheadMoves
  <1> USE DEF lifeVars, flagVars, kernelVars, Calling, GoTo, Exit
  <1>3. CASE CallInitialize(a) \/ InitGPU(a) \/ InitCPU(a)
    BY <1>2, <1>3 DEF CallInitialize, InitGPU, InitCPU, Context
  <1>4. CASE CallFinalize(a) \/ DestroyQueues(a) \/ ClearTables(a)
    BY <1>2, <1>4 DEF CallFinalize, DestroyQueues, ClearTables
  <1>5. CASE CallGroupCreate(a) \/ ConstructGroup(a)
    BY <1>2, <1>5 DEF CallGroupCreate, ConstructGroup
  <1>6. CASE CallGroupRelease(a) \/ CallRegisterModule(a)
    BY <1>2, <1>6 DEF CallGroupRelease, CallRegisterModule
  <1>7. CASE PushGroup(a)
    <2>1. UNCHANGED <<asked, initialized, kernel>>
      BY <1>7 DEF PushGroup
    <2>2. \/ UNCHANGED calls
          \/ Return(a) /\ Current(a).op = "groupCreate"
      BY <1>7, PushFor DEF PushGroup
    <2>3. QED
      BY <1>2, <2>1, <2>2
  <1>8. CASE ShutDown(a)
    <2>1. Current(a).op = "finalize"
      BY <1>8 DEF ShutDown, LabelsCall, Belongs, FinalLabels
    <2>2. QED
      BY <1>2, <1>8, <2>1 DEF ShutDown
  <1>9. CASE SetInitialized(a)
    <2>1. /\ asked' = asked /\ initialized' = TRUE /\ kernel' = kernel /\ calls' = calls
      BY <1>9 DEF SetInitialized
    <2>2. QED
      BY <1>1, <2>1, AheadMoves
  <1>10. CASE ResetInitialized(a)
    <2>1. /\ asked' = asked /\ kernel' = kernel /\ calls' = calls
      BY <1>10 DEF ResetInitialized
    <2>2. a = Master /\ Current(a).op = "finalize"
      BY <1>10, OnlyMaster DEF ResetInitialized, LabelsCall, Belongs, FinalLabels
    <2>3. QED
      BY <1>1, <2>1, <2>2, AheadMoves
  <1>11. CASE InitDeviceRuntime(a)
    <2>1. a = Master /\ Current(a).op = "init" /\ initialized
      BY <1>11, OnlyMaster DEF InitDeviceRuntime, LabelsCall, Belongs, InitLabels, UpInv
    <2>2. /\ asked' = Append(asked, Current(a).type)
          /\ initialized' = initialized /\ kernel' = kernel
          /\ calls' = [calls EXCEPT ![a] = Tail(@)]
      BY <1>11 DEF InitDeviceRuntime, Return
    <2>3. asked' # <<>>
      <3>1. Current(a).type \in {c.type : c \in AllCalls(program)}
        BY <1>1, CurrentIsCall
      <3>2. QED
        BY <2>2, <3>1 DEF UpInv
    <2>4. /\ asked' = <<>> => asked = <<>> /\ Current(a).op # "await"
          /\ a = Master /\ Current(a).op = "init" => initialized' /\ asked' # <<>>
      BY <2>1, <2>2, <2>3
    <2>5. \A kern \in Kernel :
            /\ kernel[kern] # "none" =>
                 \/ kernel'[kern] # "none"
                 \/ /\ a = Master /\ Current(a).op = "kernelRelease"
                    /\ Current(a).kernel = kern
            /\ a = Master /\ Creates(Current(a), kern) /\ initialized
                 => kernel'[kern] # "none"
      BY <2>1, <2>2 DEF Creates
    <2>6. initialized => initialized'
      BY <2>2
    <2>7. QED
      BY <1>1, <2>2, <2>4, <2>5, <2>6, AheadReturns
  <1>12. CASE CallCreateKernel(a) /\ initialized
    <2>1. /\ asked' = asked /\ initialized' = initialized /\ calls' = calls
          /\ kernel' = [kernel EXCEPT ![Current(a).kernel] = "empty"]
      BY <1>12 DEF CallCreateKernel
    <2>2. \A kern \in Kernel : kernel[kern] # "none" => kernel'[kern] # "none"
      BY <2>1 DEF KernelsKept
    <2>3. QED
      BY <1>1, <2>1, <2>2, AheadMoves
  <1>a. CASE CallCreateKernel(a) /\ ~initialized
    BY <1>2, <1>a DEF CallCreateKernel
  <1>13. CASE AddGPUKernelImpl(a) \/ CallReleaseKernel(a)
    <2>1. asked' = asked /\ initialized' = initialized /\ calls' = calls
      BY <1>13 DEF AddGPUKernelImpl, CallReleaseKernel
    <2>2. \A kern \in Kernel : kernel[kern] # "none" => kernel'[kern] # "none"
      BY <1>13 DEF AddGPUKernelImpl, CallReleaseKernel, KernelsKept
    <2>3. QED
      BY <1>1, <2>1, <2>2, AheadMoves
  <1>14. CASE FillTemplate(a)
    <2>1. asked' = asked /\ initialized' = initialized /\ kernel' = kernel
      BY <1>14 DEF FillTemplate
    <2>2. pc[a] = "template" /\ Current(a).op = "kernelCreate"
      BY <1>14 DEF FillTemplate, LabelsCall, Belongs
    <2>3. CASE UNCHANGED calls
      BY <1>2, <2>1, <2>3
    <2>4. CASE Return(a)
      <3>1. calls' = [calls EXCEPT ![a] = Tail(@)]
        BY <2>4 DEF Return
      <3>2. /\ asked' = <<>> => asked = <<>> /\ Current(a).op # "await"
            /\ a = Master /\ Current(a).op = "init" => initialized' /\ asked' # <<>>
            /\ initialized => initialized'
        BY <2>1, <2>2
      <3>3. \A kern \in Kernel :
              /\ kernel[kern] # "none" =>
                   \/ kernel'[kern] # "none"
                   \/ /\ a = Master /\ Current(a).op = "kernelRelease"
                      /\ Current(a).kernel = kern
              /\ a = Master /\ Creates(Current(a), kern) /\ initialized
                   => kernel'[kern] # "none"
        BY <2>1, <2>2 DEF Creates, KernelsKept
      <3>4. QED
        BY <1>1, <3>1, <3>2, <3>3, AheadReturns
    <2>5. QED
      BY <1>14, <2>3, <2>4 DEF FillTemplate
  <1>15. CASE WaitTasks(a)
    <2>1. /\ asked' = asked /\ initialized' = initialized
          /\ calls' = [calls EXCEPT ![a] = Tail(@)]
          /\ kernel' = [kernel EXCEPT ![Current(a).kernel] = "none"]
      BY <1>15 DEF WaitTasks, Return
    <2>2. a = Master /\ Current(a).op = "kernelRelease"
      BY <1>15, OnlyMaster DEF WaitTasks, LabelsCall, Belongs
    <2>3. /\ asked' = <<>> => asked = <<>> /\ Current(a).op # "await"
          /\ a = Master /\ Current(a).op = "init" => initialized' /\ asked' # <<>>
          /\ initialized => initialized'
      BY <2>1, <2>2
    <2>4. \A kern \in Kernel :
            /\ kernel[kern] # "none" =>
                 \/ kernel'[kern] # "none"
                 \/ /\ a = Master /\ Current(a).op = "kernelRelease"
                    /\ Current(a).kernel = kern
            /\ a = Master /\ Creates(Current(a), kern) /\ initialized
                 => kernel'[kern] # "none"
      BY <2>1, <2>2 DEF Creates, KernelsKept
    <2>5. QED
      BY <1>1, <2>1, <2>3, <2>4, AheadReturns
  <1>16. QED
    BY <1>3, <1>4, <1>5, <1>6, <1>7, <1>8, <1>9, <1>10, <1>11, <1>12, <1>a, <1>13, <1>14,
       <1>15 DEF LifeCall

-------------------------------------------------------------------------------
(* The groups.                                                               *)
GroupsExpected ==
  asked # <<>> \/ initialized \/ pc[Master] \in {"setInitialized", "keInit"}

LEMMA GroupsStay ==
  ASSUME GroupsInv, Master' = Master, UNCHANGED groupVars,
         asked' = <<>> => asked = <<>>, GroupsExpected' => GroupsExpected,
         \A b \in App : pc'[b] \in GroupLabels =>
           \/ pc'[b] = pc[b] /\ Current(b)' = Current(b)
           \/ /\ pc'[b] = "construct"
              /\ asked = <<>> => b = Master /\ Current(b)'.op = "init"
  PROVE  GroupsInv'
  <1>1. UNCHANGED <<groups, nextGroup, object, groupHandle>>
    BY DEF groupVars
  <1>2. /\ groups' \in Seq(GroupType) /\ nextGroup' \in Nat
        /\ object' \in [App -> GroupType] /\ groupHandle' \in [GroupName -> Int]
        /\ groups' # <<>> => groups'[1].of = DefaultGroup
        /\ \A g \in GroupName : groupHandle'[g] # NoHandle =>
             /\ groupHandle'[g] \in 0 .. Len(groups') - 1
             /\ groups'[groupHandle'[g] + 1].of = g
    BY <1>1 DEF GroupsInv
  <1>3. GroupsExpected' => groups' # <<>>
    BY <1>1 DEF GroupsInv, GroupsExpected
  <1>4. ASSUME NEW b \in App, pc'[b] \in GroupLabels
        PROVE  /\ asked' = <<>> => b = Master /\ Current(b)'.op = "init"
               /\ pc'[b] = "push" => object'[b].of = GroupName_(b)'
    <2>1. CASE pc'[b] = pc[b] /\ Current(b)' = Current(b)
      <3>1. GroupName_(b)' = GroupName_(b)
        BY <2>1 DEF GroupName_
      <3>2. QED
        BY <1>1, <1>4, <2>1, <3>1 DEF GroupsInv
    <2>2. CASE pc'[b] = "construct" /\ (asked = <<>> => b = Master /\ Current(b)'.op = "init")
      BY <2>2
    <2>3. QED
      BY <1>4, <2>1, <2>2
  <1>5. QED
    BY <1>2, <1>3, <1>4 DEF GroupsInv, GroupsExpected, GroupLabels

\* Nobody makes a group before the first atmi_init has returned, but that call.
LEMMA CreateAfterInit ==
  ASSUME CallsInv, CallsAhead, NEW a \in App, Calling(a, "groupCreate")
  PROVE  asked # <<>>
  <1>1. calls[a] # <<>> /\ Current(a).op = "groupCreate"
    BY DEF Calling
  <1>2. 1 \in DOMAIN calls[a] /\ calls[a][1].op = "groupCreate"
    BY <1>1, TailCalls
  <1>3. \A k \in 1 .. 1 - 1 : FALSE
    OBVIOUS
  <1>4. QED
    BY <1>2, <1>3 DEF CallsAhead, GroupsAfterInit

LEMMA ConstructKeepsGroups ==
  ASSUME CallsInv, LifeInv, Master' = Master, NEW a \in App, ConstructGroup(a)
  PROVE  GroupsInv'
  <1> USE DEF LifeInv
  <1>1. pc[a] = "construct"
    BY DEF ConstructGroup
  <1>2. CASE Exit /\ UNCHANGED lifeVars
    BY <1>2, GroupsStay DEF Exit, lifeVars, flagVars, GroupsExpected, Current
  <1>3. CASE ~(Exit /\ UNCHANGED lifeVars)
    <2> DEFINE o == [id |-> nextGroup, of |-> GroupName_(a)]
    <2>1. /\ object' = [object EXCEPT ![a] = o] /\ nextGroup' = nextGroup + 1
          /\ GoTo(a, "push") /\ groups' = groups /\ groupHandle' = groupHandle
          /\ UNCHANGED flagVars
      BY <1>3 DEF ConstructGroup
    <2>2. Current(a).op \in {"init", "groupCreate"} /\ Current(a) \in AllCalls(program)
      BY <1>1, CurrentIsCall DEF LabelsCall, Belongs, GroupLabels, CallsInv
    <2>3. o \in GroupType /\ o.of = GroupName_(a)
      BY <2>2, LifeAssumption DEF GroupsInv, GroupType, GroupName_, CallsInv
    <2> HIDE DEF o
    <2>4. /\ calls' = calls /\ \A b \in App : pc'[b] = IF b = a THEN "push" ELSE pc[b]
          /\ \A b \in App : object'[b] = IF b = a THEN o ELSE object[b]
          /\ object' \in [App -> GroupType] /\ nextGroup' \in Nat
      BY <2>1, <2>3 DEF GoTo, CallsInv, Thread, GroupsInv
    <2>5. \A b \in App : Current(b)' = Current(b) /\ GroupName_(b)' = GroupName_(b)
      BY <2>4 DEF Current, GroupName_
    <2>6. \A b \in App : pc'[b] = "push" => object'[b].of = GroupName_(b)'
      BY <2>3, <2>4, <2>5 DEF GroupsInv
    <2>7. \A b \in App : pc'[b] \in GroupLabels /\ asked' = <<>> =>
            b = Master /\ Current(b)'.op = "init"
      BY <1>1, <2>1, <2>4, <2>5 DEF GroupsInv, GroupLabels, flagVars
    <2>8. asked' # <<>> \/ initialized' \/ pc'[Master] \in {"setInitialized", "keInit"}
            => groups' # <<>>
      <3>1. Master \in App => pc'[Master] \in {pc[Master], "push"}
        BY <2>4
      <3>2. pc'[Master] \in {pc[Master], "push"}
        BY <2>1, <3>1 DEF GoTo, CallsInv
      <3>3. QED
        BY <2>1, <3>2 DEF GroupsInv, flagVars
    <2>9. QED
      BY <2>1, <2>4, <2>6, <2>7, <2>8 DEF GroupsInv
  <1>4. QED
    BY <1>2, <1>3

LEMMA PushKeepsGroups ==
  ASSUME CallsInv, LifeInv, Master \in App, Master' = Master, NEW a \in App, PushGroup(a)
  PROVE  GroupsInv'
  <1> USE DEF LifeInv
  <1>1. pc[a] = "push"
    BY DEF PushGroup
  <1>2. CASE Exit /\ UNCHANGED lifeVars
    BY <1>2, GroupsStay DEF Exit, lifeVars, flagVars, GroupsExpected, Current
  <1>3. CASE ~(Exit /\ UNCHANGED lifeVars)
    <2> DEFINE o == object[a]
               n == Len(groups)
    <2>1. /\ o.id = n /\ groups' = Append(groups, o)
          /\ object' = [object EXCEPT ![a] = NoGroup]
          /\ UNCHANGED flagVars /\ nextGroup' = nextGroup
          /\ IF o.of = DefaultGroup
             THEN groupHandle' = groupHandle /\ GoTo(a, "setInitialized")
             ELSE /\ groupHandle' = [groupHandle EXCEPT ![o.of] = o.id]
                  /\ Return(a)
      BY <1>1, <1>3 DEF PushGroup
    <2>2. \/ Current(a).op = "init" /\ o.of = DefaultGroup
          \/ /\ Current(a).op = "groupCreate" /\ o.of \in GroupName /\ o.of # DefaultGroup
      BY <1>1, PushFor
    <2>3. /\ o \in GroupType /\ groups \in Seq(GroupType) /\ n \in Nat
          /\ object' \in [App -> GroupType]
      BY <2>1 DEF GroupsInv, NoGroup, GroupType
    <2> HIDE DEF o
    <2>4. /\ groups' \in Seq(GroupType) /\ Len(groups') = n + 1 /\ groups' # <<>>
          /\ groups'[n + 1] = o /\ \A i \in 1 .. n : groups'[i] = groups[i]
      BY <2>1, <2>3
    <2> HIDE DEF n
    <2>5. groups'[1].of = DefaultGroup
      <3>1. CASE n = 0
        <4>1. groups = <<>>
          BY <2>3, <3>1 DEF n
        <4>2. asked = <<>>
          BY <4>1 DEF GroupsInv
        <4>3. Current(a).op = "init"
          BY <1>1, <4>2 DEF GroupsInv, GroupLabels
        <4>4. o.of = DefaultGroup
          BY <2>2, <4>3
        <4>5. QED
          BY <2>4, <3>1, <4>4
      <3>2. CASE n # 0
        <4>1. 1 \in 1 .. n /\ groups # <<>>
          BY <2>3, <3>2 DEF n
        <4>2. QED
          BY <2>4, <4>1 DEF GroupsInv
      <3>3. QED
        BY <3>1, <3>2
    <2>6. \A b \in App : b # a => /\ pc'[b] = pc[b] /\ calls'[b] = calls[b]
                                  /\ object'[b] = object[b]
      BY <2>1 DEF GoTo, Return, CallsInv, Thread, GroupsInv
    <2>7. pc'[a] \in {"setInitialized", "idle"}
      BY <2>1 DEF GoTo, Return, CallsInv, Thread
    <2>8. \A b \in App : pc'[b] \in GroupLabels =>
            /\ asked' = <<>> => b = Master /\ Current(b)'.op = "init"
            /\ pc'[b] = "push" => object'[b].of = GroupName_(b)'
      BY <2>1, <2>6, <2>7 DEF GroupsInv, GroupLabels, GroupName_, Current, flagVars
    <2>9. /\ groupHandle' \in [GroupName -> Int]
          /\ \A g \in GroupName : groupHandle'[g] # NoHandle =>
               /\ groupHandle'[g] \in 0 .. Len(groups') - 1
               /\ groups'[groupHandle'[g] + 1].of = g
      <3>1. \A g \in GroupName : groupHandle[g] # NoHandle =>
              /\ groupHandle[g] \in 0 .. Len(groups') - 1
              /\ groups'[groupHandle[g] + 1].of = g
        <4>1. SUFFICES ASSUME NEW g \in GroupName, groupHandle[g] # NoHandle
                       PROVE  /\ groupHandle[g] \in 0 .. Len(groups') - 1
                              /\ groups'[groupHandle[g] + 1].of = g
          OBVIOUS
        <4>2. groupHandle[g] \in 0 .. n - 1 /\ groups[groupHandle[g] + 1].of = g
          BY <4>1 DEF GroupsInv, n
        <4>3. groupHandle[g] + 1 \in 1 .. n /\ groupHandle[g] \in 0 .. n
          BY <2>3, <4>2
        <4>4. QED
          BY <2>3, <2>4, <4>2, <4>3
      <3>2. CASE o.of = DefaultGroup
        BY <2>1, <3>1, <3>2 DEF GroupsInv
      <3>3. CASE o.of # DefaultGroup
        <4>1. /\ \A g \in GroupName : groupHandle'[g] = IF g = o.of THEN n ELSE groupHandle[g]
              /\ groupHandle' \in [GroupName -> Int]
          BY <2>1, <2>2, <2>3, <3>3 DEF GroupsInv
        <4>2. n \in 0 .. Len(groups') - 1 /\ groups'[n + 1].of = o.of
          BY <2>3, <2>4
        <4>3. QED
          BY <3>1, <4>1, <4>2
      <3>4. QED
        BY <3>2, <3>3
    <2>10. QED
      BY <2>1, <2>3, <2>4, <2>5, <2>8, <2>9 DEF GroupsInv, GroupLabels
  <1>4. QED
    BY <1>2, <1>3

LEMMA ReleaseKeepsGroups ==
  ASSUME CallsInv, LifeInv, Master \in App, Master' = Master, NEW a \in App,
         CallGroupRelease(a)
  PROVE  GroupsInv'
  <1> USE DEF LifeInv
  <1> DEFINE g == Current(a).group
             h == groupHandle[g]
  <1>1. pc[a] = "idle" /\ calls[a] # <<>> /\ Current(a).op = "groupRelease"
    BY DEF CallGroupRelease, Calling
  <1>2. g \in GroupName
    BY <1>1, CurrentIsCall, LifeAssumption DEF CallsInv
  <1>3. CASE Exit /\ UNCHANGED lifeVars
    BY <1>3, GroupsStay DEF Exit, lifeVars, flagVars, GroupsExpected, Current
  <1>4. /\ \A b \in App : b # a => pc'[b] = pc[b] /\ Current(b)' = Current(b)
        /\ pc'[a] \in {"idle", pc[a]}
    BY DEF CallGroupRelease, Return, Exit, CallsInv, Thread, Current
  <1>5. /\ pc'[Master] = pc[Master] \/ pc'[Master] = "idle"
        /\ pc'[a] = "idle"
    BY <1>1, <1>4
  <1>6. CASE Return(a) /\ UNCHANGED lifeVars
    <2>1. \A b \in App : pc'[b] \in GroupLabels => pc'[b] = pc[b] /\ Current(b)' = Current(b)
      BY <1>4, <1>5 DEF GroupLabels
    <2>2. GroupsExpected' => GroupsExpected
      BY <1>5, <1>6 DEF GroupsExpected, lifeVars, flagVars
    <2>3. QED
      BY <1>6, <2>1, <2>2, GroupsStay DEF lifeVars, flagVars
  <1>7. CASE h \in 0 .. Len(groups) - 1 /\ ~(Exit /\ UNCHANGED lifeVars)
    <2>1. /\ groups' = [groups EXCEPT ![h + 1] = NoGroup]
          /\ groupHandle' = [groupHandle EXCEPT ![g] = NoHandle]
          /\ UNCHANGED flagVars /\ nextGroup' = nextGroup /\ object' = object
      BY <1>7 DEF CallGroupRelease
    <2>2. Len(groups) \in Nat /\ h \in Int /\ groups \in Seq(GroupType)
      BY <1>2 DEF GroupsInv
    <2>3. h # NoHandle /\ groups[h + 1].of = g
      BY <1>2, <1>7, <2>2 DEF GroupsInv, NoHandle
    <2>4. NoGroup \in GroupType
      BY DEF NoGroup, GroupType
    <2> HIDE DEF h, g
    <2>5. /\ groups' \in Seq(GroupType) /\ Len(groups') = Len(groups)
          /\ \A i \in 1 .. Len(groups) :
               groups'[i] = IF i = h + 1 THEN NoGroup ELSE groups[i]
      <3>1. h + 1 \in 1 .. Len(groups) /\ DOMAIN groups = 1 .. Len(groups)
        BY <1>7, <2>2 DEF h
      <3>2. groups' = [i \in 1 .. Len(groups) |-> IF i = h + 1 THEN NoGroup ELSE groups[i]]
        BY <2>1, <3>1
      <3>3. \A i \in 1 .. Len(groups) :
              (IF i = h + 1 THEN NoGroup ELSE groups[i]) \in GroupType
        BY <2>2, <2>4
      <3>4. QED
        BY <2>2, <3>2, <3>3
    <2>6. /\ groupHandle' \in [GroupName -> Int]
          /\ \A k \in GroupName :
               groupHandle'[k] = IF k = g THEN NoHandle ELSE groupHandle[k]
      BY <1>2, <2>1 DEF GroupsInv, NoHandle
    <2>7. h + 1 \in 1 .. Len(groups)
      BY <1>7, <2>2
    <2>8. groups # <<>> /\ groups' # <<>> /\ 1 \in 1 .. Len(groups)
      BY <2>2, <2>5, <2>7
    <2>9. groups'[1].of = DefaultGroup
      <3>1. groups[1].of = DefaultGroup /\ g # DefaultGroup
        BY <1>2, <2>8, LifeAssumption DEF GroupsInv
      <3>2. 1 # h + 1
        BY <2>3, <3>1
      <3>3. QED
        BY <2>5, <2>8, <3>1, <3>2
    <2>10. ASSUME NEW k \in GroupName, groupHandle'[k] # NoHandle
           PROVE  /\ groupHandle'[k] \in 0 .. Len(groups') - 1
                  /\ groups'[groupHandle'[k] + 1].of = k
      <3>1. /\ k # g /\ groupHandle'[k] = groupHandle[k] /\ groupHandle[k] # NoHandle
        BY <2>6, <2>10
      <3>2. /\ groupHandle[k] \in 0 .. Len(groups) - 1 /\ groups[groupHandle[k] + 1].of = k
        BY <3>1 DEF GroupsInv
      <3>3. groupHandle[k] + 1 # h + 1 /\ groupHandle[k] + 1 \in 1 .. Len(groups)
        <4>1. groupHandle[k] # h
          BY <2>3, <3>1, <3>2
        <4>2. groupHandle[k] \in Int
          BY DEF GroupsInv
        <4>3. QED
          BY <2>2, <3>2, <4>1, <4>2
      <3>4. QED
        BY <2>5, <3>1, <3>2, <3>3
    <2>11. \A b \in App : pc'[b] \in GroupLabels =>
             /\ asked' = <<>> => b = Master /\ Current(b)'.op = "init"
             /\ pc'[b] = "push" => object'[b].of = GroupName_(b)'
      BY <1>4, <1>5, <2>1 DEF GroupsInv, GroupLabels, GroupName_, flagVars
    <2>12. QED
      BY <2>1, <2>5, <2>6, <2>8, <2>9, <2>10, <2>11 DEF GroupsInv, GroupLabels
  <1>8. QED
    BY <1>3, <1>6, <1>7 DEF CallGroupRelease

\* A step that leaves the groups alone and leads nowhere near them.
LEMMA GroupsPass ==
  ASSUME CallsInv, GroupsInv, Master \in App, Master' = Master, UNCHANGED groupVars,
         NEW a \in App, asked' = asked, initialized' => initialized,
         \/ Exit \/ Return(a)
         \/ \E l \in Label \ (GroupLabels \cup {"setInitialized", "keInit"}) : GoTo(a, l)
  PROVE  GroupsInv'
  <1>1. /\ \A b \in App \ {a} : pc'[b] = pc[b] /\ Current(b)' = Current(b)
        /\ \/ pc'[a] = pc[a] /\ Current(a)' = Current(a)
           \/ pc'[a] \notin GroupLabels \cup {"setInitialized", "keInit"}
    BY DEF Exit, Return, GoTo, CallsInv, Thread, Current, GroupLabels
  <1>2. pc'[Master] \in {"setInitialized", "keInit"} => pc'[Master] = pc[Master]
    BY DEF Exit, Return, GoTo, CallsInv, Thread
  <1>3. GroupsExpected' => GroupsExpected
    BY <1>2 DEF GroupsExpected
  <1>4. QED
    BY <1>1, <1>3, GroupsStay DEF GroupLabels

LEMMA LifeKeepsGroups ==
  ASSUME CallsInv, LifeInv, Master \in App, NEW a \in App, LifeCall(a)
  PROVE  GroupsInv'
  <1> USE DEF LifeInv
  <1>1. Master' = Master /\ \A b \in App \ {a} : pc'[b] = pc[b] /\ Current(b)' = Current(b)
    BY LifeKeepsMaster DEF Current
  <1>2. a \in Thread
    BY DEF Thread
  <1>3. CASE ConstructGroup(a) \/ PushGroup(a) \/ CallGroupRelease(a)
    BY <1>1, <1>3, ConstructKeepsGroups, PushKeepsGroups, ReleaseKeepsGroups
  <1>4. CASE CallInitialize(a)
    <2>1. /\ UNCHANGED groupVars /\ asked' = asked /\ initialized' = initialized
          /\ pc' = [pc EXCEPT ![a] = IF initialized THEN "keInit" ELSE "gpu"]
      BY <1>4 DEF CallInitialize, GoTo, lifeVars, flagVars
    <2>2. pc'[Master] \in {"setInitialized", "keInit"} =>
            pc'[Master] = pc[Master] \/ initialized
      BY <2>1 DEF CallsInv
    <2>3. \A b \in App : pc'[b] \in GroupLabels => pc'[b] = pc[b] /\ Current(b)' = Current(b)
      BY <1>1, <1>2, <2>1 DEF CallsInv, GroupLabels
    <2>4. GroupsExpected' => GroupsExpected
      BY <1>1, <2>1, <2>2 DEF GroupsExpected
    <2>5. QED
      BY <1>1, <2>1, <2>3, <2>4, GroupsStay
  <1>5. CASE InitGPU(a)
    <2>1. /\ UNCHANGED groupVars /\ asked' = asked /\ initialized' = initialized
          /\ Exit \/ GoTo(a, "cpu")
      BY <1>5 DEF InitGPU, Context, lifeVars, flagVars
    <2>2. "cpu" \in Label \ (GroupLabels \cup {"setInitialized", "keInit"})
      BY DEF Label, Others, GroupLabels
    <2>3. QED
      BY <1>1, <2>1, <2>2, GroupsPass
  <1>6. CASE InitCPU(a)
    <2>1. /\ UNCHANGED groupVars /\ asked' = asked /\ initialized' = initialized
          /\ Exit \/ GoTo(a, "construct")
      BY <1>6 DEF InitCPU, Context, lifeVars, flagVars
    <2>2. CASE Exit
      BY <1>1, <2>1, <2>2, GroupsPass
    <2>3. CASE GoTo(a, "construct")
      <3>1. a = Master /\ Current(a).op = "init"
        BY <1>6, OnlyMaster DEF InitCPU, Context, LabelsCall, Belongs, InitLabels
      <3>2. Current(a)' = Current(a) /\ pc' = [pc EXCEPT ![a] = "construct"]
        BY <2>3 DEF GoTo, Current
      <3>3. \A b \in App : pc'[b] \in GroupLabels =>
              \/ pc'[b] = pc[b] /\ Current(b)' = Current(b)
              \/ pc'[b] = "construct" /\ b = Master /\ Current(b)'.op = "init"
        BY <1>1, <1>2, <3>1, <3>2 DEF CallsInv
      <3>4. pc'[Master] \notin {"setInitialized", "keInit"}
        BY <1>2, <3>1, <3>2 DEF CallsInv
      <3>5. GroupsExpected' => GroupsExpected
        BY <1>1, <2>1, <3>4 DEF GroupsExpected
      <3>6. QED
        BY <1>1, <2>1, <3>3, <3>5, GroupsStay
    <2>4. QED
      BY <2>1, <2>2, <2>3
  <1>7. CASE SetInitialized(a)
    <2>1. pc[a] = "setInitialized" /\ a = Master
      BY <1>7, OnlyMaster DEF SetInitialized, InitLabels
    <2>2. /\ UNCHANGED groupVars /\ asked' = asked
          /\ pc' = [pc EXCEPT ![a] = "keInit"]
      BY <1>7 DEF SetInitialized, GoTo
    <2>3. \A b \in App : pc'[b] \in GroupLabels => pc'[b] = pc[b] /\ Current(b)' = Current(b)
      BY <1>1, <1>2, <2>2 DEF CallsInv, GroupLabels
    <2>4. GroupsExpected
      BY <2>1 DEF GroupsExpected
    <2>5. QED
      BY <1>1, <2>2, <2>3, <2>4, GroupsStay
  <1>8. CASE InitDeviceRuntime(a)
    <2>1. pc[a] = "keInit" /\ a = Master
      BY <1>8, OnlyMaster DEF InitDeviceRuntime, InitLabels
    <2>2. UNCHANGED groupVars /\ pc' = [pc EXCEPT ![a] = "idle"]
      BY <1>8 DEF InitDeviceRuntime, Return
    <2>3. \A b \in App : pc'[b] \in GroupLabels => pc'[b] = pc[b] /\ Current(b)' = Current(b)
      BY <1>1, <1>2, <2>2 DEF CallsInv, GroupLabels
    <2>4. GroupsExpected
      BY <2>1 DEF GroupsExpected
    <2>5. asked' # <<>>
      <3>1. asked' = Append(asked, Current(a).type) /\ calls[a] # <<>>
        BY <1>8, <2>1 DEF InitDeviceRuntime, CallsInv
      <3>2. Current(a).type \in {c.type : c \in AllCalls(program)}
        BY <3>1, CurrentIsCall
      <3>3. QED
        BY <3>1, <3>2 DEF UpInv
    <2>6. QED
      BY <1>1, <2>2, <2>3, <2>4, <2>5, GroupsStay
  <1>9. CASE CallGroupCreate(a)
    <2>1. /\ UNCHANGED groupVars /\ asked' = asked /\ initialized' = initialized
          /\ pc' = [pc EXCEPT ![a] = "construct"]
      BY <1>9 DEF CallGroupCreate, GoTo, lifeVars, flagVars
    <2>2. asked # <<>>
      BY <1>9, CreateAfterInit DEF CallGroupCreate
    <2>3. \A b \in App : pc'[b] \in GroupLabels =>
            \/ pc'[b] = pc[b] /\ Current(b)' = Current(b)
            \/ pc'[b] = "construct"
      BY <1>1, <1>2, <2>1 DEF CallsInv
    <2>4. GroupsExpected
      BY <2>2 DEF GroupsExpected
    <2>5. QED
      BY <1>1, <2>1, <2>2, <2>3, <2>4, GroupsStay
  <1>10. CASE \/ CallFinalize(a) \/ DestroyQueues(a) \/ ClearTables(a)
              \/ ResetInitialized(a) \/ ShutDown(a)
    <2>1. /\ UNCHANGED groupVars /\ asked' = asked /\ (initialized' => initialized)
          /\ \/ Exit \/ Return(a)
             \/ \E l \in FinalLabels : GoTo(a, l)
      BY <1>10 DEF CallFinalize, DestroyQueues, ClearTables, ResetInitialized, ShutDown,
                   lifeVars, flagVars, FinalLabels
    <2>2. \A l \in FinalLabels :
            l \in Label \ (GroupLabels \cup {"setInitialized", "keInit"})
      BY DEF Label, Others, GroupLabels, FinalLabels
    <2>3. QED
      BY <1>1, <2>1, <2>2, GroupsPass
  <1>11. CASE \/ CallRegisterModule(a) \/ CallCreateKernel(a) \/ AddGPUKernelImpl(a)
              \/ FillTemplate(a) \/ CallReleaseKernel(a) \/ WaitTasks(a)
    <2>1. /\ UNCHANGED groupVars /\ asked' = asked /\ (initialized' => initialized)
          /\ \/ Exit \/ Return(a)
             \/ \E l \in {"addImpl", "template", "waitTasks"} : GoTo(a, l)
      BY <1>11 DEF CallRegisterModule, CallCreateKernel, AddGPUKernelImpl, FillTemplate,
                   CallReleaseKernel, WaitTasks, lifeVars, flagVars
    <2>2. \A l \in {"addImpl", "template", "waitTasks"} :
            l \in Label \ (GroupLabels \cup {"setInitialized", "keInit"})
      BY DEF Label, Others, GroupLabels
    <2>3. QED
      BY <1>1, <2>1, <2>2, GroupsPass
  <1>12. QED
    BY <1>3, <1>4, <1>5, <1>6, <1>7, <1>8, <1>9, <1>10, <1>11 DEF LifeCall

-------------------------------------------------------------------------------
(* The flags, HSA, the queues and what the calls of atmi_init asked for.     *)
LEMMA SameCalls ==
  ASSUME program' = program
  PROVE  AllCalls(program)' = AllCalls(program)
  BY DEF AllCalls

\* A step that leaves all this alone: on a thread that makes a group or a kernel.
LEMMA UpPass ==
  ASSUME UpInv, Master' = Master, program' = program,
         UNCHANGED <<hsa, context, queues, initialized, asked, finalized, templates>>,
         \A b \in App : pc'[b] = "push" => pc[b] = "push" \/ hsa # 0,
         pc[Master] = "keInit" => pc'[Master] = "keInit",
         \/ pc'[Master] = pc[Master] /\ Current(Master)' = Current(Master)
         \/ pc'[Master] \notin InitLabels \cup FinalLabels \cup GroupLabels
         \/ pc'[Master] \in GroupLabels /\ Current(Master)'.op # "init"
         \/ /\ Current(Master)' = Current(Master) /\ Master \in App
            /\ \/ pc[Master] = "construct" /\ pc'[Master] = "push"
               \/ /\ pc[Master] = "push" /\ pc'[Master] = "setInitialized"
                  /\ Current(Master).op = "init"
  PROVE  UpInv'
  <1> USE DEF InitLabels, FinalLabels, GroupLabels
  <1>1. /\ asked' \in Seq({c.type : c \in AllCalls(program)'})
        /\ hsa' \in Int /\ queues' \in [{"gpu", "cpu"} -> {"none", "live", "mixed", "destroyed"}]
    BY SameCalls DEF UpInv
  <1>2. /\ pc'[Master] = "keInit" => initialized'
        /\ initialized' => asked' # <<>> \/ pc'[Master] = "keInit"
        /\ templates' = "live" \/ finalized' => asked' # <<>>
        /\ pc'[Master] \in FinalLabels => finalized'
    BY DEF UpInv
  <1>3. ASSUME ~finalized'
        PROVE  /\ hsa' >= 0
               /\ initialized' \/ pc'[Master] = "setInitialized" => hsa' > 0
               /\ \A b \in App : pc'[b] = "push" => hsa' > 0
               /\ \A d \in {"gpu", "cpu"} :
                    queues'[d] = IF d \in context' THEN "live" ELSE "none"
               /\ \A d \in {"gpu", "cpu"} : asked' # <<>> /\ Head(asked') \in {d, "all"}
                                              => d \in context'
    BY <1>3 DEF UpInv
  <1>4. ASSUME ~finalized', NEW d \in {"gpu", "cpu"}
        PROVE  /\ pc'[Master] = "cpu" => AskedFor("gpu")'
               /\ pc'[Master] \in {"construct", "push", "setInitialized"} =>
                    (Current(Master)'.op = "init" => AskedFor(d)')
               /\ pc'[Master] = "keInit" /\ asked' = <<>> => AskedFor(d)'
    <2>1. CASE Current(Master)' = Current(Master)
      <3>1. AskedFor(d)' = AskedFor(d) /\ AskedFor("gpu")' = AskedFor("gpu")
        BY <2>1 DEF AskedFor, Wanted
      <3>2. QED
        BY <1>4, <2>1, <3>1 DEF UpInv
    <2>2. CASE Current(Master)' # Current(Master)
      BY <2>2
    <2>3. QED
      BY <2>1, <2>2
  <1>5. QED
    BY <1>1, <1>2, <1>3, <1>4 DEF UpInv

LEMMA UpSame ==
  ASSUME CallsInv, UpInv, Master' = Master, Exit \/ UNCHANGED <<program, calls, pc>>,
         UNCHANGED <<hsa, context, queues, initialized, asked, finalized, templates>>
  PROVE  UpInv'
  <1>1. program' = program /\ pc' = pc /\ calls' = calls
    BY DEF Exit
  <1>2. Current(Master)' = Current(Master)
    BY <1>1 DEF Current
  <1>3. QED
    BY <1>1, <1>2, UpPass

\* After atmi_finalize.
LEMMA UpFinal ==
  ASSUME UpInv, Master' = Master, program' = program, UNCHANGED asked, finalized',
         asked # <<>>, hsa' \in Int,
         queues' \in [{"gpu", "cpu"} -> {"none", "live", "mixed", "destroyed"}],
         pc'[Master] = "keInit" => initialized'
  PROVE  UpInv'
  BY SameCalls DEF UpInv

LEMMA ContextKeepsUp ==
  ASSUME CallsInv, LifeInv, Master \in App, Master' = Master,
         NEW d \in {"gpu", "cpu"}, NEW next,
         \/ d = "gpu" /\ next = "cpu"
         \/ d = "cpu" /\ next = "construct",
         Context(Master, d, next)
  PROVE  UpInv'
  <1> USE DEF LifeInv
  <1>1. pc[Master] = d /\ Master \in Thread
    BY DEF Context, Thread
  <1>2. CASE Exit /\ UNCHANGED lifeVars
    BY <1>2, UpSame DEF lifeVars, hsaVars, flagVars, kernelVars
  <1>3. CASE ~(Exit /\ UNCHANGED lifeVars)
    <2>1. /\ GoTo(Master, next) /\ UNCHANGED <<initialized, asked, finalized, templates>>
          /\ hsa' \in Int
          /\ ~finalized => hsa' >= 0 /\ (hsa' = hsa \/ hsa' > 0)
          /\ queues' = [queues EXCEPT ![d] = IF d \in context \/ ~Wanted(Master, d) THEN @
                          ELSE IF @ = "none" THEN "live" ELSE "mixed"]
          /\ context' = IF d \in context \/ ~Wanted(Master, d) THEN context
                        ELSE context \cup {"hsa", d, "tasks"}
      BY <1>3 DEF Context, UpInv, lifeVars, hsaVars, flagVars, kernelVars
    <2>2. /\ program' = program /\ calls' = calls /\ pc' = [pc EXCEPT ![Master] = next]
      BY <2>1 DEF GoTo
    <2>3. /\ Current(Master)' = Current(Master)
          /\ \A e : Wanted(Master, e)' = Wanted(Master, e)
      BY <2>2 DEF Current, Wanted
    <2>4. /\ pc'[Master] = next /\ \A b \in App : b # Master => pc'[b] = pc[b]
          /\ \A b \in App : pc'[b] = "push" => pc[b] = "push"
      BY <1>1, <2>2 DEF CallsInv, Thread
    <2>5. /\ queues' \in [{"gpu", "cpu"} -> {"none", "live", "mixed", "destroyed"}]
          /\ \A e \in context : e \in context'
          /\ Wanted(Master, d) => d \in context'
      BY <2>1 DEF UpInv
    <2>6. ~finalized => \A e \in {"gpu", "cpu"} :
            queues'[e] = IF e \in context' THEN "live" ELSE "none"
      BY <2>1 DEF UpInv
    <2>7. ~finalized => \A e \in {"gpu", "cpu"} :
            next = "construct" => (Wanted(Master, e) => e \in context')
      <3>1. d = "cpu" => (~finalized => (Wanted(Master, "gpu") => "gpu" \in context))
        BY <1>1 DEF UpInv, AskedFor
      <3>2. QED
        BY <2>5, <3>1
    <2>8. AskedFor("gpu")' /\ AskedFor("cpu")'
            <=> \A e \in {"gpu", "cpu"} : Wanted(Master, e) => e \in context'
      BY <2>3 DEF AskedFor
    <2>9. /\ asked' \in Seq({c.type : c \in AllCalls(program)'})
          /\ pc'[Master] = "keInit" => initialized'
          /\ initialized' => asked' # <<>> \/ pc'[Master] = "keInit"
          /\ templates' = "live" \/ finalized' => asked' # <<>>
          /\ pc'[Master] \in FinalLabels => finalized'
      BY <1>1, <2>1, <2>2, <2>4, SameCalls DEF UpInv, FinalLabels
    <2>10. ASSUME ~finalized
           PROVE  /\ hsa' >= 0
                  /\ initialized' \/ pc'[Master] = "setInitialized" => hsa' > 0
                  /\ \A b \in App : pc'[b] = "push" => hsa' > 0
                  /\ pc'[Master] = "cpu" => AskedFor("gpu")'
                  /\ \A e \in {"gpu", "cpu"} : asked' # <<>> /\ Head(asked') \in {e, "all"}
                                                 => e \in context'
      <3>1. pc'[Master] = "cpu" => AskedFor("gpu")'
        BY <2>3, <2>4, <2>5 DEF AskedFor
      <3>2. QED
        BY <2>1, <2>4, <2>5, <2>10, <3>1 DEF UpInv
    <2>11. QED
      BY <2>1, <2>4, <2>5, <2>6, <2>7, <2>8, <2>9, <2>10 DEF UpInv
  <1>4. QED
    BY <1>2, <1>3

LEMMA LifeKeepsUp ==
  ASSUME CallsInv, LifeInv, Master \in App, NEW a \in App, LifeCall(a)
  PROVE  UpInv'
  <1> USE DEF LifeInv
  <1>1. /\ Master' = Master /\ program' = program /\ calls[a] # <<>>
        /\ \A b \in App \ {a} : pc'[b] = pc[b] /\ Current(b)' = Current(b)
        /\ a \in Thread
    BY LifeKeepsMaster DEF Current, Thread
  <1>a. Exit /\ UNCHANGED lifeVars => UpInv'
    BY <1>1, UpSame DEF lifeVars, hsaVars, flagVars, kernelVars
  <1>2. CASE CallInitialize(a)
    <2>1. a = Master
      BY <1>2, OnlyMaster DEF CallInitialize, Calling, MasterCalls
    <2>2. /\ UNCHANGED <<hsa, context, queues, initialized, asked, finalized, templates>>
          /\ pc[Master] = "idle" /\ calls' = calls
          /\ pc' = [pc EXCEPT ![Master] = IF initialized THEN "keInit" ELSE "gpu"]
      BY <1>2, <2>1 DEF CallInitialize, Calling, GoTo, lifeVars, hsaVars, flagVars, kernelVars
    <2>3. /\ pc'[Master] = IF initialized THEN "keInit" ELSE "gpu"
          /\ \A b \in App : pc'[b] = "push" => pc[b] = "push"
      BY <1>1, <2>1, <2>2 DEF CallsInv
    <2>4. initialized => asked # <<>>
      BY <2>2 DEF UpInv
    <2>5. QED
      BY <1>1, <2>2, <2>3, <2>4, SameCalls DEF UpInv, FinalLabels
  <1>3. CASE InitGPU(a) \/ InitCPU(a)
    <2>1. a = Master
      BY <1>3, OnlyMaster DEF InitGPU, InitCPU, Context, InitLabels
    <2>2. CASE Context(Master, "gpu", "cpu")
      BY <1>1, <2>2, ContextKeepsUp
    <2>3. CASE Context(Master, "cpu", "construct")
      BY <1>1, <2>3, ContextKeepsUp
    <2>4. QED
      BY <1>3, <2>1, <2>2, <2>3 DEF InitGPU, InitCPU
  <1>4. CASE SetInitialized(a)
    <2>1. pc[a] = "setInitialized" /\ a = Master /\ Current(a).op = "init"
      BY <1>4, OnlyMaster DEF SetInitialized, InitLabels, LabelsCall, Belongs
    <2>2. /\ UNCHANGED <<hsa, context, queues, asked, finalized, templates>>
          /\ initialized' /\ calls' = calls /\ pc' = [pc EXCEPT ![Master] = "keInit"]
      BY <1>4, <2>1 DEF SetInitialized, GoTo, hsaVars, kernelVars
    <2>3. /\ pc'[Master] = "keInit" /\ Current(Master)' = Current(Master)
          /\ \A b \in App : pc'[b] = "push" => pc[b] = "push"
      BY <1>1, <2>1, <2>2 DEF CallsInv, Current
    <2>4. \A d : AskedFor(d)' = AskedFor(d)
      BY <1>1, <2>2, <2>3 DEF AskedFor, Wanted
    <2>5. ~finalized => hsa > 0 /\ \A d \in {"gpu", "cpu"} : AskedFor(d)
      BY <2>1 DEF UpInv
    <2>6. QED
      BY <1>1, <2>2, <2>3, <2>4, <2>5, SameCalls DEF UpInv, FinalLabels
  <1>5. CASE InitDeviceRuntime(a)
    <2>1. pc[a] = "keInit" /\ a = Master /\ Current(a).op = "init"
      BY <1>5, OnlyMaster DEF InitDeviceRuntime, InitLabels, LabelsCall, Belongs
    <2>2. /\ UNCHANGED <<hsa, context, queues, initialized, finalized>>
          /\ asked' = Append(asked, Current(Master).type)
          /\ pc' = [pc EXCEPT ![Master] = "idle"]
      BY <1>5, <2>1 DEF InitDeviceRuntime, Return, hsaVars
    <2>3. /\ pc'[Master] = "idle"
          /\ \A b \in App : pc'[b] = "push" => pc[b] = "push"
      BY <1>1, <2>1, <2>2 DEF CallsInv
    <2>4. /\ asked \in Seq({c.type : c \in AllCalls(program)})
          /\ Current(Master).type \in {c.type : c \in AllCalls(program)}
      BY <1>1, <2>1, CurrentIsCall DEF UpInv
    <2>5. /\ asked' \in Seq({c.type : c \in AllCalls(program)}) /\ asked' # <<>>
          /\ asked # <<>> => Head(asked') = Head(asked)
          /\ asked = <<>> => Head(asked') = Current(Master).type
      BY <2>2, <2>4
    <2>6. ~finalized => \A d \in {"gpu", "cpu"} : Head(asked') \in {d, "all"} => d \in context
      <3>1. CASE asked = <<>>
        BY <2>1, <2>5, <3>1 DEF UpInv, AskedFor, Wanted
      <3>2. CASE asked # <<>>
        BY <2>5, <3>2 DEF UpInv
      <3>3. QED
        BY <3>1, <3>2
    <2>7. QED
      BY <1>1, <2>2, <2>3, <2>5, <2>6, SameCalls DEF UpInv, FinalLabels
  <1>6. CASE CallFinalize(a)
    <2>1. a = Master
      BY <1>6, OnlyMaster DEF CallFinalize, Calling, MasterCalls
    <2>2. CASE ~(Exit /\ UNCHANGED lifeVars)
      <3>1. /\ templates = "live" /\ finalized' /\ asked' = asked
            /\ hsa' = hsa /\ queues' = queues
            /\ pc' = [pc EXCEPT ![Master] = "destroyQueues"]
        BY <1>6, <2>1, <2>2 DEF CallFinalize, GoTo, hsaVars
      <3>2. pc'[Master] # "keInit" /\ asked # <<>>
        BY <1>1, <2>1, <3>1 DEF CallsInv, UpInv
      <3>3. hsa' \in Int
            /\ queues' \in [{"gpu", "cpu"} -> {"none", "live", "mixed", "destroyed"}]
        BY <3>1 DEF UpInv
      <3>4. QED
        BY <1>1, <3>1, <3>2, <3>3, UpFinal
    <2>3. QED
      BY <1>a, <2>2
  <1>7. CASE DestroyQueues(a) \/ ClearTables(a) \/ ResetInitialized(a) \/ ShutDown(a)
    <2>1. a = Master /\ finalized /\ asked # <<>>
      BY <1>7, OnlyMaster DEF DestroyQueues, ClearTables, ResetInitialized, ShutDown,
                              FinalLabels, UpInv
    <2>2. /\ finalized' /\ asked' = asked /\ hsa' \in Int
          /\ queues' \in [{"gpu", "cpu"} -> {"none", "live", "mixed", "destroyed"}]
      <3>1. CASE DestroyQueues(a)
        BY <2>1, <3>1 DEF DestroyQueues, flagVars, UpInv
      <3>2. CASE ClearTables(a)
        BY <2>1, <3>2 DEF ClearTables, flagVars, UpInv
      <3>3. CASE ResetInitialized(a)
        BY <2>1, <3>3 DEF ResetInitialized, hsaVars, UpInv
      <3>4. CASE ShutDown(a)
        BY <2>1, <3>4 DEF ShutDown, flagVars, UpInv
      <3>5. QED
        BY <1>7, <3>1, <3>2, <3>3, <3>4
    <2>3. \E l \in {"clearTables", "reset", "shutDown", "idle"} :
            pc' = [pc EXCEPT ![Master] = l]
      <3>1. CASE DestroyQueues(a)
        BY <2>1, <3>1 DEF DestroyQueues, GoTo
      <3>2. CASE ClearTables(a)
        BY <2>1, <3>2 DEF ClearTables, GoTo
      <3>3. CASE ResetInitialized(a)
        BY <2>1, <3>3 DEF ResetInitialized, GoTo
      <3>4. CASE ShutDown(a)
        BY <2>1, <3>4 DEF ShutDown, Return
      <3>5. QED
        BY <1>7, <3>1, <3>2, <3>3, <3>4
    <2>4. pc'[Master] # "keInit"
      BY <1>1, <2>1, <2>3 DEF CallsInv
    <2>5. QED
      BY <1>1, <2>1, <2>2, <2>4, UpFinal
  <1>8. CASE CallGroupCreate(a) \/ ConstructGroup(a) \/ PushGroup(a)
    <2>1. UNCHANGED <<hsa, context, queues, initialized, asked, finalized, templates>>
      BY <1>8 DEF CallGroupCreate, ConstructGroup, PushGroup, lifeVars, hsaVars,
                  flagVars, kernelVars
    <2>2. CASE CallGroupCreate(a)
      <3>1. /\ pc' = [pc EXCEPT ![a] = "construct"] /\ calls' = calls
            /\ Current(a).op = "groupCreate" /\ pc[a] = "idle"
        BY <2>2 DEF CallGroupCreate, Calling, GoTo
      <3>2. pc'[a] = "construct" /\ Current(a)' = Current(a)
        BY <1>1, <3>1 DEF CallsInv, Current
      <3>3. \A b \in App : pc'[b] = "push" => pc[b] = "push"
        BY <1>1, <3>2
      <3>4. pc[Master] = "keInit" => pc'[Master] = "keInit"
        BY <1>1, <3>1
      <3>5. \/ pc'[Master] = pc[Master] /\ Current(Master)' = Current(Master)
            \/ pc'[Master] \in GroupLabels /\ Current(Master)'.op # "init"
        BY <1>1, <3>1, <3>2 DEF GroupLabels
      <3>6. QED
        BY <1>1, <2>1, <3>3, <3>4, <3>5, UpPass
    <2>3. CASE ConstructGroup(a) /\ ~(Exit /\ UNCHANGED lifeVars)
      <3>1. /\ pc' = [pc EXCEPT ![a] = "push"] /\ calls' = calls
            /\ pc[a] = "construct" /\ hsa # 0
        BY <2>3 DEF ConstructGroup, GoTo
      <3>2. pc'[a] = "push" /\ Current(a)' = Current(a)
        BY <1>1, <3>1 DEF CallsInv, Current
      <3>3. pc[Master] = "keInit" => pc'[Master] = "keInit"
        BY <1>1, <3>1
      <3>4. \/ pc'[Master] = pc[Master] /\ Current(Master)' = Current(Master)
            \/ /\ Current(Master)' = Current(Master)
               /\ pc[Master] = "construct" /\ pc'[Master] = "push"
        BY <1>1, <3>1, <3>2
      <3>5. QED
        BY <1>1, <2>1, <3>1, <3>3, <3>4, UpPass
    <2>4. CASE PushGroup(a) /\ ~(Exit /\ UNCHANGED lifeVars)
      <3>1. pc[a] = "push"
        BY <2>4 DEF PushGroup
      <3>2. \/ GoTo(a, "setInitialized") /\ Current(a).op = "init"
            \/ Return(a)
        BY <2>4, <3>1, PushFor DEF PushGroup
      <3>3. \A b \in App : pc'[b] = "push" => pc[b] = "push"
        BY <1>1, <3>1
      <3>4. pc[Master] = "keInit" => pc'[Master] = "keInit"
        BY <1>1, <3>1
      <3>5. CASE GoTo(a, "setInitialized") /\ Current(a).op = "init"
        <4>1. pc'[a] = "setInitialized" /\ Current(a)' = Current(a)
          BY <1>1, <3>5 DEF GoTo, CallsInv, Current
        <4>2. \/ pc'[Master] = pc[Master] /\ Current(Master)' = Current(Master)
              \/ /\ Current(Master)' = Current(Master) /\ pc[Master] = "push"
                 /\ pc'[Master] = "setInitialized" /\ Current(Master).op = "init"
          BY <1>1, <3>1, <3>5, <4>1
        <4>3. QED
          BY <1>1, <2>1, <3>3, <3>4, <4>2, UpPass
      <3>6. CASE Return(a)
        <4>1. pc'[a] = "idle"
          BY <1>1, <3>6 DEF Return, CallsInv
        <4>2. \/ pc'[Master] = pc[Master] /\ Current(Master)' = Current(Master)
              \/ pc'[Master] \notin InitLabels \cup FinalLabels \cup GroupLabels
          BY <1>1, <4>1 DEF InitLabels, FinalLabels, GroupLabels
        <4>3. QED
          BY <1>1, <2>1, <3>3, <3>4, <4>2, UpPass
      <3>7. QED
        BY <3>2, <3>5, <3>6
    <2>5. QED
      BY <1>8, <1>a, <2>2, <2>3, <2>4
  <1>9. CASE \/ CallGroupRelease(a) \/ CallRegisterModule(a) \/ CallCreateKernel(a)
             \/ AddGPUKernelImpl(a) \/ FillTemplate(a) \/ CallReleaseKernel(a)
             \/ WaitTasks(a)
    <2>1. UNCHANGED <<hsa, context, queues, initialized, asked, finalized, templates>>
      BY <1>9 DEF CallGroupRelease, CallRegisterModule, CallCreateKernel,
                  AddGPUKernelImpl, FillTemplate, CallReleaseKernel, WaitTasks,
                  lifeVars, hsaVars, flagVars, kernelVars
    <2>2. /\ pc[a] \in {"idle", "addImpl", "template", "waitTasks"}
          /\ \/ Exit \/ Return(a)
             \/ \E l \in {"addImpl", "template", "waitTasks"} : GoTo(a, l)
      BY <1>9 DEF CallGroupRelease, CallRegisterModule, CallCreateKernel,
                  AddGPUKernelImpl, FillTemplate, CallReleaseKernel, WaitTasks, Calling
    <2>3. CASE Exit
      BY <1>1, <2>1, <2>3, UpSame
    <2>4. CASE ~Exit
      <3>1. pc'[a] \in {"idle", "addImpl", "template", "waitTasks"}
        BY <1>1, <2>2, <2>4 DEF Return, GoTo, CallsInv
      <3>2. \A b \in App : pc'[b] = "push" => pc[b] = "push"
        BY <1>1, <3>1
      <3>3. pc[Master] = "keInit" => pc'[Master] = "keInit"
        BY <1>1, <2>2
      <3>4. \/ pc'[Master] = pc[Master] /\ Current(Master)' = Current(Master)
            \/ pc'[Master] \notin InitLabels \cup FinalLabels \cup GroupLabels
        BY <1>1, <3>1 DEF InitLabels, FinalLabels, GroupLabels
      <3>5. QED
        BY <1>1, <2>1, <3>2, <3>3, <3>4, UpPass
    <2>5. QED
      BY <2>3, <2>4
  <1>10. QED
    BY <1>2, <1>3, <1>4, <1>5, <1>6, <1>7, <1>8, <1>9 DEF LifeCall

-------------------------------------------------------------------------------
(* HSA after atmi_finalize, when only ATMI holds it.                          *)
LEMMA DownPass ==
  ASSUME DownInv, Master' = Master, program' = program,
         UNCHANGED <<hsa, context, initialized, finalized>>,
         finalized /\ ~program.holdsHSA =>
           \/ pc'[Master] = pc[Master] /\ Current(Master)' = Current(Master)
           \/ /\ pc[Master] \notin FinalLabels
              /\ pc'[Master] \notin FinalLabels \cup {"setInitialized"}
              /\ pc'[Master] = "push" => Current(Master)'.op # "init"
  PROVE  DownInv'
  BY DEF DownInv

LEMMA DownSame ==
  ASSUME DownInv, Master' = Master, Exit, UNCHANGED lifeVars
  PROVE  DownInv'
  BY DownPass DEF Exit, Current, lifeVars, hsaVars, flagVars

LEMMA LifeKeepsDown ==
  ASSUME CallsInv, LifeInv, Master \in App, NEW a \in App, LifeCall(a)
  PROVE  DownInv'
  <1> USE DEF LifeInv
  <1>1. /\ Master' = Master /\ program' = program /\ calls[a] # <<>>
        /\ \A b \in App \ {a} : pc'[b] = pc[b] /\ Current(b)' = Current(b)
        /\ a \in Thread
    BY LifeKeepsMaster DEF Current, Thread
  <1>a. Exit /\ UNCHANGED lifeVars => DownInv'
    BY <1>1, DownSame
  <1>2. CASE CallInitialize(a)
    <2>1. /\ UNCHANGED <<hsa, context, initialized, finalized>> /\ pc[a] = "idle"
          /\ pc' = [pc EXCEPT ![a] = IF initialized THEN "keInit" ELSE "gpu"]
      BY <1>2 DEF CallInitialize, Calling, GoTo, lifeVars, hsaVars, flagVars
    <2>2. pc'[a] \in {"keInit", "gpu"}
      BY <1>1, <2>1 DEF CallsInv
    <2>3. \/ pc'[Master] = pc[Master] /\ Current(Master)' = Current(Master)
          \/ /\ pc[Master] \notin FinalLabels
             /\ pc'[Master] \notin FinalLabels \cup {"setInitialized", "push"}
      BY <1>1, <2>1, <2>2 DEF FinalLabels
    <2>4. QED
      BY <1>1, <2>1, <2>3, DownPass
  <1>3. ASSUME NEW d \in {"gpu", "cpu"}, NEW next \in {"cpu", "construct"}, Context(a, d, next)
        PROVE  DownInv'
    <2>1. pc[a] = d /\ a = Master
      BY <1>3, OnlyMaster DEF Context, InitLabels
    <2>2. CASE ~Wanted(a, d) \/ d \in context
      <3>1. /\ UNCHANGED <<hsa, context, initialized, finalized>>
            /\ pc' = [pc EXCEPT ![a] = next]
        BY <1>3, <2>2 DEF Context, GoTo, lifeVars, hsaVars, flagVars
      <3>2. pc'[a] \in {"cpu", "construct"}
        BY <1>1, <3>1 DEF CallsInv
      <3>3. /\ pc[Master] \notin FinalLabels
            /\ pc'[Master] \notin FinalLabels \cup {"setInitialized", "push"}
        BY <2>1, <3>2 DEF FinalLabels
      <3>4. QED
        BY <1>1, <3>1, <3>3, DownPass
    <2>3. CASE ~(~Wanted(a, d) \/ d \in context) /\ ~(Exit /\ UNCHANGED lifeVars)
      <3>1. /\ hsa' = (IF "hsa" \in context THEN hsa ELSE hsa + 1) /\ hsa' # 0
            /\ context' = context \cup {"hsa", d, "tasks"} /\ finalized' = finalized
        BY <1>3, <2>3 DEF Context, flagVars
      <3>2. ~program.holdsHSA => ~finalized
        BY <2>1, <3>1 DEF DownInv, FinalLabels
      <3>3. QED
        BY <1>1, <3>1, <3>2 DEF DownInv
    <2>4. QED
      BY <1>3, <1>a, <2>2, <2>3
  <1>4. CASE SetInitialized(a)
    <2>1. pc[Master] = "setInitialized"
      BY <1>4, OnlyMaster DEF SetInitialized, InitLabels
    <2>2. hsa' = hsa /\ context' = context /\ finalized' = finalized
      BY <1>4 DEF SetInitialized, hsaVars
    <2>3. QED
      BY <1>1, <2>1, <2>2 DEF DownInv
  <1>5. CASE InitDeviceRuntime(a)
    <2>1. pc[a] = "keInit" /\ a = Master
      BY <1>5, OnlyMaster DEF InitDeviceRuntime, InitLabels
    <2>2. /\ UNCHANGED <<hsa, context, initialized, finalized>>
          /\ pc' = [pc EXCEPT ![a] = "idle"]
      BY <1>5 DEF InitDeviceRuntime, Return, hsaVars
    <2>3. pc'[a] = "idle"
      BY <1>1, <2>2 DEF CallsInv
    <2>4. QED
      BY <1>1, <2>1, <2>2, <2>3, DownPass DEF FinalLabels
  <1>6. CASE CallFinalize(a) /\ ~(Exit /\ UNCHANGED lifeVars)
    <2>1. a = Master /\ pc[a] = "idle"
      BY <1>6, OnlyMaster DEF CallFinalize, Calling, MasterCalls
    <2>2. /\ hsa # 0 /\ finalized' /\ hsa' = hsa /\ context' = context
          /\ initialized' = initialized
          /\ pc' = [pc EXCEPT ![a] = "destroyQueues"]
      BY <1>6 DEF CallFinalize, GoTo, hsaVars
    <2>3. pc'[Master] = "destroyQueues"
      BY <1>1, <2>1, <2>2 DEF CallsInv
    <2>4. ~program.holdsHSA => hsa = 1 /\ "hsa" \in context
      BY <2>1, <2>2 DEF DownInv, FinalLabels
    <2>5. QED
      BY <1>1, <2>2, <2>3, <2>4 DEF DownInv, FinalLabels
  <1>7. CASE DestroyQueues(a) \/ ClearTables(a) \/ ResetInitialized(a) \/ ShutDown(a)
    <2>1. a = Master /\ finalized /\ pc[Master] \in FinalLabels
      BY <1>7, OnlyMaster DEF DestroyQueues, ClearTables, ResetInitialized, ShutDown,
                              FinalLabels, UpInv
    <2>2. ~program.holdsHSA => hsa = 1 /\ "hsa" \in context
      BY <2>1 DEF DownInv
    <2>3. CASE DestroyQueues(a)
      <3>1. /\ pc' = [pc EXCEPT ![Master] = "clearTables"] /\ hsa' = hsa
            /\ context' = context \ {"cpu"} /\ finalized' = finalized
        BY <2>1, <2>3 DEF DestroyQueues, GoTo, flagVars
      <3>2. pc'[Master] = "clearTables"
        BY <1>1, <2>1, <3>1 DEF CallsInv
      <3>3. QED
        BY <1>1, <2>1, <2>2, <3>1, <3>2 DEF DownInv, FinalLabels
    <2>4. CASE ClearTables(a)
      <3>1. /\ pc' = [pc EXCEPT ![Master] = "reset"] /\ hsa' = hsa
            /\ context' = context /\ finalized' = finalized
        BY <2>1, <2>4 DEF ClearTables, GoTo, flagVars
      <3>2. pc'[Master] = "reset"
        BY <1>1, <2>1, <3>1 DEF CallsInv
      <3>3. QED
        BY <1>1, <2>1, <2>2, <3>1, <3>2 DEF DownInv, FinalLabels
    <2>5. CASE ResetInitialized(a)
      <3>1. /\ pc' = [pc EXCEPT ![Master] = "shutDown"] /\ hsa' = hsa
            /\ context' = context /\ finalized' = finalized /\ ~initialized'
        BY <2>1, <2>5 DEF ResetInitialized, GoTo, hsaVars
      <3>2. pc'[Master] = "shutDown"
        BY <1>1, <2>1, <3>1 DEF CallsInv
      <3>3. QED
        BY <1>1, <2>1, <2>2, <3>1, <3>2 DEF DownInv, FinalLabels
    <2>6. CASE ShutDown(a)
      <3>1. /\ pc' = [pc EXCEPT ![Master] = "idle"] /\ hsa' = hsa - 1
            /\ context' = context /\ finalized' = finalized /\ initialized' = initialized
            /\ pc[Master] = "shutDown"
        BY <2>1, <2>6 DEF ShutDown, Return, flagVars
      <3>2. pc'[Master] = "idle"
        BY <1>1, <2>1, <3>1 DEF CallsInv
      <3>3. ~program.holdsHSA => ~initialized'
        BY <2>1, <3>1 DEF DownInv
      <3>4. QED
        BY <1>1, <2>1, <2>2, <3>1, <3>2, <3>3 DEF DownInv, FinalLabels
    <2>7. QED
      BY <1>7, <2>3, <2>4, <2>5, <2>6
  <1>8. CASE ConstructGroup(a) /\ ~(Exit /\ UNCHANGED lifeVars)
    <2>1. /\ UNCHANGED <<hsa, context, initialized, finalized>> /\ hsa # 0
          /\ pc[a] = "construct"
      BY <1>8 DEF ConstructGroup, hsaVars, flagVars
    <2>2. finalized /\ ~program.holdsHSA => a # Master
      BY <2>1 DEF DownInv, FinalLabels
    <2>3. QED
      BY <1>1, <2>1, <2>2, DownPass
  <1>9. CASE PushGroup(a) /\ ~(Exit /\ UNCHANGED lifeVars)
    <2>1. UNCHANGED <<hsa, context, initialized, finalized>> /\ pc[a] = "push"
      BY <1>9 DEF PushGroup, hsaVars, flagVars
    <2>2. \/ Current(a).op = "init"
          \/ pc' = [pc EXCEPT ![a] = "idle"]
      BY <1>9, <2>1, PushFor DEF PushGroup, Return
    <2>3. finalized /\ ~program.holdsHSA => \/ a # Master
                                            \/ pc'[Master] = "idle"
      BY <1>1, <2>1, <2>2 DEF DownInv, CallsInv
    <2>4. QED
      BY <1>1, <2>1, <2>3, DownPass DEF FinalLabels
  <1>10. CASE \/ CallGroupRelease(a) \/ CallRegisterModule(a) \/ CallCreateKernel(a)
              \/ AddGPUKernelImpl(a) \/ FillTemplate(a) \/ CallReleaseKernel(a)
              \/ WaitTasks(a) \/ CallGroupCreate(a)
    <2>1. UNCHANGED <<hsa, context, initialized, finalized>>
      BY <1>10 DEF CallGroupRelease, CallRegisterModule, CallCreateKernel,
                   AddGPUKernelImpl, FillTemplate, CallReleaseKernel, WaitTasks,
                   CallGroupCreate, lifeVars, hsaVars, flagVars
    <2>2. /\ pc[a] \in {"idle", "addImpl", "template", "waitTasks"}
          /\ \/ Exit \/ Return(a)
             \/ \E l \in {"addImpl", "template", "waitTasks", "construct"} : GoTo(a, l)
      BY <1>10 DEF CallGroupRelease, CallRegisterModule, CallCreateKernel,
                   AddGPUKernelImpl, FillTemplate, CallReleaseKernel, WaitTasks,
                   CallGroupCreate, Calling
    <2>3. CASE Exit
      <3>1. pc' = pc /\ Current(Master)' = Current(Master)
        BY <1>1, <2>3 DEF Exit, Current
      <3>2. QED
        BY <1>1, <2>1, <3>1, DownPass
    <2>4. CASE ~Exit
      <3>1. pc'[a] \in {"idle", "addImpl", "template", "waitTasks", "construct"}
        BY <1>1, <2>2, <2>4 DEF Return, GoTo, CallsInv
      <3>2. \/ pc'[Master] = pc[Master] /\ Current(Master)' = Current(Master)
            \/ /\ pc[Master] \notin FinalLabels
               /\ pc'[Master] \notin FinalLabels \cup {"setInitialized", "push"}
        BY <1>1, <2>2, <3>1 DEF FinalLabels
      <3>3. QED
        BY <1>1, <2>1, <3>2, DownPass
    <2>5. QED
      BY <2>3, <2>4
  <1>11. CASE InitGPU(a) \/ InitCPU(a)
    BY <1>3, <1>11 DEF InitGPU, InitCPU
  <1>12. QED
    BY <1>a, <1>2, <1>4, <1>5, <1>6, <1>7, <1>8, <1>9, <1>10, <1>11 DEF LifeCall

-------------------------------------------------------------------------------
(* The records of the kernels.                                               *)
LEMMA KernelsPass ==
  ASSUME KernelsKept, Master' = Master, UNCHANGED <<stage, done>>,
         kernel' \in [Kernel -> {"none", "empty", "live", "freed"}],
         \A k \in Kernel : kernel[k] # "none" =>
           kernel'[k] # "none" \/ \A r \in Task : KernelOf[r] = k =>
                                    ~(stage[r] # "none" /\ r \notin done),
         \/ pc'[Master] # "template"
         \/ /\ pc[Master] = "template" /\ Current(Master)' = Current(Master)
            /\ \A k \in Kernel : kernel[k] # "none" => kernel'[k] # "none"
         \/ Current(Master)'.kernel \in Kernel => kernel'[Current(Master)'.kernel] # "none"
  PROVE  KernelsKept'
  <1>1. \A r \in Task : KernelOf[r] \in Kernel
    BY DeviceEnqueueAssumption DEF Task
  <1>2. \A r \in Task : stage'[r] # "none" /\ r \notin done' => kernel'[KernelOf[r]] # "none"
    BY <1>1 DEF KernelsKept
  <1>3. pc'[Master] = "template" /\ Current(Master)'.kernel \in Kernel
          => kernel'[Current(Master)'.kernel] # "none"
    BY DEF KernelsKept
  <1>4. QED
    BY <1>2, <1>3 DEF KernelsKept

LEMMA LifeKeepsKernels ==
  ASSUME CallsInv, LifeInv, Master \in App, NEW a \in App, LifeCall(a),
         UNCHANGED <<stage, done>>
  PROVE  KernelsKept'
  <1> USE DEF LifeInv
  <1>1. /\ Master' = Master
        /\ \A b \in App \ {a} : pc'[b] = pc[b] /\ Current(b)' = Current(b)
        /\ a \in Thread
    BY LifeKeepsMaster DEF Current, Thread
  <1>2. kernel \in [Kernel -> {"none", "empty", "live", "freed"}]
    BY DEF KernelsKept
  <1>3. ASSUME UNCHANGED kernel,
               \/ UNCHANGED <<pc, calls>>
               \/ \E l \in Label \ {"template"} : pc' = [pc EXCEPT ![a] = l]
        PROVE  KernelsKept'
    <2>1. pc'[Master] = "template" =>
            pc[Master] = "template" /\ Current(Master)' = Current(Master)
      BY <1>1, <1>3 DEF CallsInv, Current
    <2>2. QED
      BY <1>1, <1>2, <1>3, <2>1, KernelsPass
  <1> USE DEF GoTo, Return, Exit, lifeVars, kernelVars, Label, Others
  <1>4. CASE CallInitialize(a)
    BY <1>3, <1>4 DEF CallInitialize
  <1>5. CASE InitGPU(a)
    BY <1>3, <1>5 DEF InitGPU, Context
  <1>6. CASE InitCPU(a)
    BY <1>3, <1>6 DEF InitCPU, Context
  <1>7. CASE SetInitialized(a) \/ InitDeviceRuntime(a)
    BY <1>3, <1>7 DEF SetInitialized, InitDeviceRuntime
  <1>8. CASE CallFinalize(a)
    BY <1>3, <1>8 DEF CallFinalize
  <1>9. CASE DestroyQueues(a) \/ ClearTables(a)
    BY <1>3, <1>9 DEF DestroyQueues, ClearTables
  <1>10. CASE ResetInitialized(a) \/ ShutDown(a)
    BY <1>3, <1>10 DEF ResetInitialized, ShutDown
  <1>11. CASE CallGroupCreate(a) \/ ConstructGroup(a)
    BY <1>3, <1>11 DEF CallGroupCreate, ConstructGroup
  <1>12. CASE PushGroup(a)
    BY <1>3, <1>12 DEF PushGroup
  <1>13. CASE CallGroupRelease(a) \/ CallRegisterModule(a)
    BY <1>3, <1>13 DEF CallGroupRelease, CallRegisterModule
  <1>14. CASE CallCreateKernel(a) /\ initialized
    <2>1. pc' = [pc EXCEPT ![a] = "addImpl"]
      BY <1>14 DEF CallCreateKernel
    <2>2. pc'[Master] = "template" =>
            pc[Master] = "template" /\ Current(Master)' = Current(Master)
      BY <1>1, <2>1 DEF CallsInv
    <2>3. /\ kernel' \in [Kernel -> {"none", "empty", "live", "freed"}]
          /\ \A k \in Kernel : kernel[k] # "none" => kernel'[k] # "none"
      BY <1>2, <1>14 DEF CallCreateKernel
    <2>4. QED
      BY <1>1, <2>2, <2>3, KernelsPass
  <1>a. CASE CallCreateKernel(a) /\ ~initialized
    BY <1>3, <1>a DEF CallCreateKernel
  <1>15. CASE AddGPUKernelImpl(a) /\ ~(Exit /\ UNCHANGED lifeVars)
    <2>1. /\ kernel' = [kernel EXCEPT ![Current(a).kernel] = "live"]
          /\ calls' = calls
      BY <1>15 DEF AddGPUKernelImpl
    <2>2. /\ kernel' \in [Kernel -> {"none", "empty", "live", "freed"}]
          /\ \A k \in Kernel : kernel[k] # "none" => kernel'[k] # "none"
      BY <1>2, <2>1
    <2>3. Current(a)' = Current(a)
      BY <2>1 DEF Current
    <2>4. Current(a)'.kernel \in Kernel => kernel'[Current(a)'.kernel] # "none"
      BY <1>2, <2>1, <2>3
    <2>5. CASE a = Master
      BY <1>1, <2>2, <2>4, <2>5, KernelsPass
    <2>6. CASE a # Master
      BY <1>1, <2>2, <2>6, KernelsPass
    <2>7. QED
      BY <2>5, <2>6
  <1>16. CASE AddGPUKernelImpl(a) /\ Exit /\ UNCHANGED lifeVars
    BY <1>3, <1>16
  <1>17. CASE FillTemplate(a)
    BY <1>3, <1>17 DEF FillTemplate
  <1>18. CASE CallReleaseKernel(a) /\ ~(Exit /\ UNCHANGED lifeVars)
    <2>1. /\ kernel' = [kernel EXCEPT ![Current(a).kernel] = IF @ = "live" THEN "freed" ELSE @]
          /\ pc' = [pc EXCEPT ![a] = "waitTasks"]
      BY <1>18 DEF CallReleaseKernel
    <2>2. pc'[Master] = "template" =>
            pc[Master] = "template" /\ Current(Master)' = Current(Master)
      BY <1>1, <2>1 DEF CallsInv
    <2>3. /\ kernel' \in [Kernel -> {"none", "empty", "live", "freed"}]
          /\ \A k \in Kernel : kernel[k] # "none" => kernel'[k] # "none"
      BY <1>2, <2>1
    <2>4. QED
      BY <1>1, <2>2, <2>3, KernelsPass
  <1>19. CASE CallReleaseKernel(a) /\ Exit /\ UNCHANGED lifeVars
    BY <1>3, <1>19
  <1>20. CASE WaitTasks(a)
    <2> DEFINE n == Current(a).kernel
    <2>1. /\ kernel' = [kernel EXCEPT ![n] = "none"] /\ Unfinished(n) = {}
          /\ pc' = [pc EXCEPT ![a] = "idle"]
      BY <1>20 DEF WaitTasks
    <2>2. a = Master
      BY <1>20, OnlyMaster DEF WaitTasks
    <2> HIDE DEF n
    <2>3. pc'[Master] # "template"
      BY <1>1, <2>1, <2>2 DEF CallsInv
    <2>4. kernel' \in [Kernel -> {"none", "empty", "live", "freed"}]
      BY <1>2, <2>1
    <2>5. \A r \in Task : KernelOf[r] = n => ~(stage[r] # "none" /\ r \notin done)
      BY <2>1 DEF Unfinished
    <2>6. \A k \in Kernel : kernel[k] # "none" => kernel'[k] # "none" \/ k = n
      BY <1>2, <2>1
    <2>7. QED
      BY <1>1, <2>3, <2>4, <2>5, <2>6, KernelsPass
  <1>21. QED
    BY <1>4, <1>5, <1>6, <1>7, <1>8, <1>9, <1>10, <1>11, <1>12, <1>13, <1>14, <1>a,
       <1>15, <1>16, <1>17, <1>18, <1>19, <1>20 DEF LifeCall

-------------------------------------------------------------------------------
(* All steps, and the theorem.                                               *)
LEMMA LifeKeepsLife ==
  ASSUME CallsInv, LaunchInv, LifeInv, Master \in App, NEW a \in App, Life(a)
  PROVE  LifeInv'
  <1>1. LifeCall(a) /\ UNCHANGED <<stage, done>>
    BY DEF Life, deviceVars
  <1>2. LabelsCall'
    BY <1>1, LifeKeepsLabels DEF LifeInv
  <1>3. CallsAhead'
    BY <1>1, LifeKeepsAhead DEF LaunchInv
  <1>4. GroupsInv' /\ UpInv' /\ DownInv'
    BY <1>1, LifeKeepsGroups, LifeKeepsUp, LifeKeepsDown
  <1>5. KernelsKept'
    BY <1>1, LifeKeepsKernels
  <1>6. QED
    BY <1>2, <1>3, <1>4, <1>5 DEF LifeInv

\* A step of another service that begins no task.
LEMMA OthersKeepLife ==
  ASSUME CallsInv, LaunchInv, LifeInv, Master \in App, NEW x \in Thread,
         QuietMove(x), UNCHANGED lifeVars,
         \A r \in Task : /\ stage'[r] # "none" => stage[r] # "none"
                         /\ r \in done => r \in done'
  PROVE  LifeInv'
  <1>1. \A r \in Task : stage'[r] # "none" /\ r \notin done'
                          => kernel[KernelOf[r]] # "none"
    BY DEF LifeInv, KernelsKept
  <1>2. QED
    BY <1>1, QuietKeepsLife DEF LaunchInv

\* The master launches a task of a kernel that it has made and not released.
LEMMA LaunchKeepsLife ==
  ASSUME CallsInv, LaunchInv, LifeInv, Master \in App, NEW a \in App, CallLaunch(a),
         UNCHANGED lifeVars
  PROVE  LifeInv'
  <1> DEFINE t == Current(a).task
  <1>1. /\ calls[a] # <<>> /\ Current(a).op = "launch"
        /\ stage' = [stage EXCEPT ![t] = "queued"] /\ done' = done
    BY DEF CallLaunch, Calling, Advance
  <1>2. a = Master
    BY <1>1, OnlyMaster DEF MasterCalls, LifeInv
  <1>3. 1 \in DOMAIN calls[a] /\ Current(a) = calls[a][1]
    BY <1>1, TailCalls
  <1>4. kernel[KernelOf[t]] # "none"
    <2>1. ~ReadyFor(initialized, calls[a], KernelOf[t], 1)
      BY DEF ReadyFor
    <2>2. IsLaunch(calls[a][1]) /\ t = calls[a][1].task
      BY <1>1, <1>3 DEF IsLaunch
    <2>3. QED
      BY <1>2, <1>3, <2>1, <2>2 DEF LifeInv, CallsAhead
  <1> HIDE DEF t
  <1>5. \A r \in Task : stage'[r] # "none" => r = t \/ stage[r] # "none"
    BY <1>1 DEF LaunchInv, DeviceTypes, Task
  <1>6. \A r \in Task : stage'[r] # "none" /\ r \notin done'
                          => kernel[KernelOf[r]] # "none"
    BY <1>1, <1>4, <1>5 DEF LifeInv, KernelsKept
  <1>7. a \in Thread /\ QuietMove(a)
    BY AwaitIsQuiet DEF DeviceCall, Thread
  <1>8. QED
    BY <1>6, <1>7, QuietKeepsLife DEF LaunchInv

\* The steps of the GPU begin no task: the host does.
LEMMA DeviceBeginsNone ==
  ASSUME LaunchInv, (\E i \in Instance : GPU(i)) \/ Packets
  PROVE  \A r \in Task : /\ stage'[r] # "none" => stage[r] # "none"
                         /\ r \in done => r \in done'
  <1> USE DEF LaunchInv, DeviceTypes, Task
  <1>1. ASSUME NEW i \in Instance, NEW s, stage' = [stage EXCEPT ![i] = s],
               stage[i] # "none" \/ Parent[i] # Host, done' = done
        PROVE  \A r \in Task : /\ stage'[r] # "none" => stage[r] # "none"
                               /\ r \in done => r \in done'
    BY <1>1
  <1>2. ASSUME NEW i \in Instance, DeviceStep(i)
        PROVE  \A r \in Task : /\ stage'[r] # "none" => stage[r] # "none"
                               /\ r \in done => r \in done'
    <2>1. \E s : stage' = [stage EXCEPT ![i] = s]
      BY <1>2 DEF DeviceStep, TakeSegment, TakeSlot, CountLaunch, SetHeader, EndInstance,
                  Advance
    <2>2. (stage[i] # "none" \/ Parent[i] # Host) /\ done' = done
      BY <1>2 DEF DeviceStep, TakeSegment, TakeSlot, CountLaunch, SetHeader, EndInstance
    <2>3. QED
      BY <1>1, <2>1, <2>2
  <1>3. ASSUME NEW i \in Task, CompleteTask(i)
        PROVE  \A r \in Task : /\ stage'[r] # "none" => stage[r] # "none"
                               /\ r \in done => r \in done'
    BY <1>3 DEF CompleteTask
  <1>4. CASE Packets
    <2> DEFINE n == readIndex % QueueSize
    <2>1. /\ queue[n] # Host /\ stage' = [stage EXCEPT ![queue[n]] = "running"]
          /\ done' = done
      BY <1>4 DEF Packets, ProcessPacket, Advance
    <2>2. n \in 0 .. QueueSize - 1
      BY SlotIndex
    <2> HIDE DEF n
    <2>3. queue[n] \in Instance /\ stage[queue[n]] # "none"
      BY <2>1, <2>2 DEF PacketsWait
    <2>4. QED
      BY <1>1, <2>1, <2>3
  <1>5. QED
    BY <1>2, <1>3, <1>4 DEF GPU

LEMMA LifeSteps ==
  ASSUME CallsInv, LaunchInv, LifeInv, Master \in App, [Next]_serviceVars
  PROVE  LifeInv'
  <1>1. ASSUME NEW a \in App, Life(a) PROVE LifeInv'
    BY <1>1, LifeKeepsLife
  <1>2. ASSUME NEW x \in Thread, Data(x) PROVE LifeInv'
    <2>1. QuietMove(x)
      BY <1>2, CallIsQuiet, DataIsQuiet, CopyIsQuiet DEF Data
    <2>2. UNCHANGED lifeVars /\ stage' = stage /\ done' = done
      BY <1>2 DEF Data, deviceVars
    <2>3. QED
      BY <2>1, <2>2, OthersKeepLife
  <1>3. ASSUME NEW a \in App, Await(a) PROVE LifeInv'
    <2>1. QuietMove(a) /\ a \in Thread
      BY <1>3, AwaitIsQuiet DEF Thread
    <2>2. UNCHANGED lifeVars /\ stage' = stage /\ done' = done
      BY <1>3 DEF Await, deviceVars
    <2>3. QED
      BY <2>1, <2>2, OthersKeepLife
  <1>4. ASSUME NEW a \in App, Device(a) PROVE LifeInv'
    <2>1. CASE CallLaunch(a)
      BY <1>4, <2>1, LaunchKeepsLife DEF Device
    <2>2. CASE WaitTask(a)
      <3>1. QuietMove(a) /\ a \in Thread
        BY <2>2, AwaitIsQuiet DEF DeviceCall, Thread
      <3>2. UNCHANGED lifeVars /\ stage' = stage /\ done' = done
        BY <1>4, <2>2 DEF Device, WaitTask, deviceVars
      <3>3. QED
        BY <3>1, <3>2, OthersKeepLife
    <2>3. QED
      BY <1>4, <2>1, <2>2 DEF Device, DeviceCall
  <1>5. CASE UNCHANGED appVars /\ UNCHANGED lifeVars /\ UNCHANGED deviceVars
    <2>1. stage' = stage /\ done' = done
      BY <1>5 DEF deviceVars
    <2>2. Master \in Thread /\ QuietMove(Master)
      BY <1>5 DEF Thread, QuietMove
    <2>3. QED
      BY <1>5, <2>1, <2>2, OthersKeepLife
  <1>6. CASE (\E i \in Instance : GPU(i)) \/ Packets
    <2>1. UNCHANGED appVars /\ UNCHANGED lifeVars
      BY <1>6 DEF GPU, Packets
    <2>2. Master \in Thread /\ QuietMove(Master)
      BY <2>1 DEF Thread, QuietMove
    <2>3. QED
      BY <1>6, <2>1, <2>2, DeviceBeginsNone, OthersKeepLife
  <1>7. CASE Engine \/ Arguments \/ Hardware \/ UNCHANGED serviceVars
    BY <1>5, <1>7 DEF Engine, EngineStep, EngineCopy, Arguments, Hardware, serviceVars
  <1>8. QED
    BY <1>1, <1>2, <1>3, <1>4, <1>6, <1>7 DEF Next, AppStep, Thread

LEMMA LifeStarts ==
  ASSUME Init, Disciplined(program)
  PROVE  LifeInv
  <1>1. /\ calls = program.calls /\ program \in Programs /\ pc = [x \in Thread |-> "idle"]
        /\ CallsInv
    BY CallsInit DEF Init, AppInit
  <1>2. \A a \in App : pc[a] = "idle"
    BY <1>1 DEF Thread
  <1>3. Master \in App /\ pc[Master] = "idle"
    BY <1>2, MasterIs
  <1> USE DEF Init, LifeInit
  <1>4. LabelsCall
    BY <1>2 DEF LabelsCall, Belongs, InitLabels, FinalLabels, GroupLabels
  <1>5. CallsAhead
    <2>1. Alone(Master, calls) /\ GroupsAfterInit(Master, calls)
      BY <1>1, MasterIs
    <2>2. ASSUME NEW n \in DOMAIN calls[Master], IsLaunch(calls[Master][n])
          PROVE  ReadyFor(initialized, calls[Master], KernelOf[calls[Master][n].task], n)
      <3>1. CreatedBefore(calls[Master], KernelOf[calls[Master][n].task], n)
        BY <1>1, <2>2, MasterIs DEF KernelsBeforeLaunch
      <3>2. QED
        BY <3>1 DEF CreatedBefore, ReadyFor
    <2>3. QED
      BY <2>1, <2>2 DEF CallsAhead
  <1>6. GroupsInv
    <2>1. NoGroup \in GroupType /\ NoHandle \in Int /\ <<>> \in Seq(GroupType)
      BY DEF NoGroup, GroupType, NoHandle
    <2>2. QED
      BY <1>2, <1>3, <2>1 DEF GroupsInv, GroupLabels
  <1>7. UpInv
    BY <1>2, <1>3 DEF UpInv, FinalLabels
  <1>8. DownInv
    BY DEF DownInv
  <1>9. KernelsKept
    BY <1>3 DEF KernelsKept, DeviceInit, Task
  <1>10. QED
    BY <1>4, <1>5, <1>6, <1>7, <1>8, <1>9 DEF LifeInv

LEMMA LifeInvUsable ==
  ASSUME LifeInv, Master \in App
  PROVE  RuntimeUsable
  <1> USE DEF LifeInv
  <1>1. Master \in App /\ ~Finalizing => pc[Master] \notin FinalLabels
    BY DEF Finalizing, FinalLabels
  <1>2. ASSUME initialized, ~Finalizing, ~finalized
        PROVE  /\ hsa > 0
               /\ \A d \in {"gpu", "cpu"} : Asked(d) => queues[d] = "live" \/ LeftOut(d)
               /\ Len(groups) > 0 /\ groups[1].of = DefaultGroup
    <2>1. hsa > 0
      BY <1>2 DEF UpInv
    <2>2. groups # <<>> /\ groups \in Seq(GroupType)
      BY <1>2 DEF GroupsInv
    <2>3. Len(groups) > 0 /\ groups[1].of = DefaultGroup
      BY <2>2 DEF GroupsInv
    <2>4. ASSUME NEW d \in {"gpu", "cpu"}, Asked(d), ~LeftOut(d)
          PROVE  queues[d] = "live"
      <3>1. asked # <<>>
        BY <2>4 DEF Asked
      <3>2. d \in context
        BY <1>2, <2>4, <3>1 DEF UpInv, LeftOut
      <3>3. QED
        BY <1>2, <3>2 DEF UpInv
    <2>5. QED
      BY <2>1, <2>3, <2>4
  <1>3. finalized /\ ~Finalizing => ~initialized \/ program.holdsHSA
    BY <1>1 DEF DownInv
  <1>4. QED
    BY <1>2, <1>3 DEF RuntimeUsable, GroupsInv, KernelsKept

\* "All ATMI runtime functions will fail if this function is not called at least
\* once" (atmi_runtime.h:46), and what they rest on is there once it was: for any
\* threads and calls of which one thread initialises ATMI, ends it, launches the
\* tasks and releases the kernels, a thread makes groups when it knows that ATMI is
\* initialised, and each kernel is made before and released after its launches.
\* HSA is up and the queues asked for are live while the flag is set, the flag
\* does not come back after atmi_finalize ("will fail if called after finalize",
\* :62), a handle names its group and a kernel outlives its tasks.
THEOREM RuntimeIsUsable ==
  (\A p \in Programs : Disciplined(p)) => (Spec => []RuntimeUsable)
  <1> DEFINE Inv == CallsInv /\ LaunchInv /\ LifeInv /\ Master \in App
  <1> SUFFICES ASSUME \A p \in Programs : Disciplined(p)
               PROVE  Spec => []RuntimeUsable
    OBVIOUS
  <1>1. Init => Inv
    <2>1. Init => Disciplined(program)
      BY DEF Init, AppInit
    <2>2. QED
      BY <2>1, CallsInit, LaunchInit, LifeStarts, MasterIs DEF Init
  <1>2. Inv /\ [Next]_serviceVars => Inv'
    <2>1. SUFFICES ASSUME Inv, [Next]_serviceVars PROVE Inv'
      OBVIOUS
    <2>2. CallsInv' /\ LaunchInv' /\ LifeInv'
      BY <2>1, CallsSteps, LaunchSteps, LifeSteps
    <2>3. program' = program
      BY <2>1, StepProceeds DEF Proceeds, GoTo, Return, Exit, appVars
    <2>4. Master' = Master
      BY <2>3, MasterStays
    <2>5. QED
      BY <2>1, <2>2, <2>4
  <1>3. Inv => RuntimeUsable
    BY LifeInvUsable
  <1>4. QED
    BY <1>1, <1>2, <1>3, PTL DEF Spec


-------------------------------------------------------------------------------
(***************************************************************************)
(* The copies, for careful programs.                                       *)
(***************************************************************************)
\* How many calls thread a has made.
MadeBy(a) == Len(program.calls[a]) - Len(calls[a])

\* The calls left are the end of the program.
CallsLeft ==
  \A a \in App :
    /\ Len(calls[a]) <= Len(program.calls[a])
    /\ \A n \in DOMAIN calls[a] : calls[a][n] = program.calls[a][MadeBy(a) + n]

\* The device operands of the calls left are, or will be, allocated.
PointersReady ==
  \A a \in App : \A n \in DOMAIN calls[a] : IsCopy(calls[a][n]) =>
    \A v \in Operands(calls[a][n]) \ Plain :
      /\ v \in Pointer
      /\ \/ pointer[v] # Junk /\ NoFree(calls[a], v, 1, n)
         \/ \E m \in 1 .. n - 1 : Mallocs(calls[a][m], v) /\ NoFree(calls[a], v, m, n)

\* An asynchronous copy that was made: by a call of the past, and its device operands
\* are there.
CopiesMade ==
  \A t \in Copy : copy[t] # "none" =>
    /\ \E a \in App : \E m \in 1 .. MadeBy(a) :
         IsAsync(program.calls[a][m]) /\ program.calls[a][m].copy = t
    /\ \A v \in {Dest[t], Src[t]} \ Plain : v \in Pointer /\ pointer[v] # Junk

OperandsInv == CallsLeft /\ PointersReady /\ CopiesMade

LEMMA CallAt ==
  ASSUME CallsInv, CallsLeft, NEW a \in App
  PROVE  /\ MadeBy(a) \in Nat /\ DOMAIN calls[a] = 1 .. Len(calls[a])
         /\ DOMAIN program.calls[a] = 1 .. Len(program.calls[a])
         /\ Len(calls[a]) \in Nat /\ Len(program.calls[a]) \in Nat
         /\ \A n \in DOMAIN calls[a] :
              /\ MadeBy(a) + n \in DOMAIN program.calls[a]
              /\ program.calls[a][MadeBy(a) + n] = calls[a][n]
         /\ calls[a] # <<>> => 1 \in DOMAIN calls[a] /\ Current(a) = calls[a][1]
  <1>1. program.calls[a] \in Seq(AllCalls(program)) /\ calls[a] \in Seq(AllCalls(program))
    BY ApplicationAssumption DEF CallsInv
  <1>2. /\ DOMAIN calls[a] = 1 .. Len(calls[a]) /\ Len(calls[a]) \in Nat
        /\ DOMAIN program.calls[a] = 1 .. Len(program.calls[a])
        /\ Len(program.calls[a]) \in Nat
    BY <1>1
  <1>3. MadeBy(a) \in Nat
    BY <1>2 DEF CallsLeft, MadeBy
  <1>4. calls[a] # <<>> => 1 \in DOMAIN calls[a] /\ Current(a) = calls[a][1]
    BY <1>1 DEF Current
  <1>5. ASSUME NEW n \in DOMAIN calls[a]
        PROVE  /\ MadeBy(a) + n \in DOMAIN program.calls[a]
               /\ program.calls[a][MadeBy(a) + n] = calls[a][n]
    <2>1. program.calls[a][MadeBy(a) + n] = calls[a][n]
      BY DEF CallsLeft
    <2>2. n \in 1 .. Len(calls[a])
      BY <1>2
    <2>0. \A p, c \in Nat : p - c \in Nat => \A k \in 1 .. c : (p - c) + k \in 1 .. p
      OBVIOUS
    <2>3. MadeBy(a) + n \in 1 .. Len(program.calls[a])
      BY <1>2, <1>3, <2>0, <2>2, Zenon DEF MadeBy
    <2>4. QED
      BY <1>2, <2>1, <2>3
  <1>6. QED
    BY <1>2, <1>3, <1>4, <1>5

\* The operands of what was made are not touched by the calls that are left.
LEMMA MadeOperandsKept ==
  ASSUME CallsInv, OperandsInv, Careful(program), NEW t \in Copy, copy[t] # "none",
         NEW a \in App, NEW n \in DOMAIN calls[a], NEW v \in {Dest[t], Src[t]} \ Plain
  PROVE  ~Mallocs(calls[a][n], v) /\ ~Frees(calls[a][n], v)
  <1>0. PICK b \in App : \E m \in 1 .. MadeBy(b) :
          IsAsync(program.calls[b][m]) /\ program.calls[b][m].copy = t
    BY DEF OperandsInv, CopiesMade
  <1>1. PICK m \in 1 .. MadeBy(b) :
          IsAsync(program.calls[b][m]) /\ program.calls[b][m].copy = t
    BY <1>0
  <1>2. MadeBy(b) \in Nat /\ m \in DOMAIN program.calls[b]
    BY CallAt DEF OperandsInv, CallsLeft, MadeBy
  <1>3. /\ MadeBy(a) \in Nat /\ n \in Nat \ {0}
        /\ MadeBy(a) + n \in DOMAIN program.calls[a]
        /\ program.calls[a][MadeBy(a) + n] = calls[a][n]
    BY CallAt DEF OperandsInv
  <1>4. IsCopy(program.calls[b][m]) /\ v \in Operands(program.calls[b][m]) \ Plain
    BY <1>1 DEF IsCopy, Operands, Target, Source
  <1>5. Mallocs(calls[a][n], v) \/ Frees(calls[a][n], v) => b = a /\ MadeBy(a) + n < m
    BY <1>1, <1>2, <1>3, <1>4 DEF Careful, OperandsKept
  <1>6. ~(b = a /\ MadeBy(a) + n < m)
    BY <1>2, <1>3
  <1>7. QED
    BY <1>5, <1>6

LEMMA OperandsSame ==
  ASSUME OperandsInv, UNCHANGED <<program, calls, pointer>>,
         \A t \in Copy : copy[t] = "none" => copy'[t] = "none"
  PROVE  OperandsInv'
  <1>1. \A a : MadeBy(a)' = MadeBy(a) /\ calls'[a] = calls[a]
    BY DEF MadeBy
  <1>2. CallsLeft'
    BY <1>1 DEF OperandsInv, CallsLeft
  <1>3. PointersReady'
    BY DEF OperandsInv, PointersReady
  <1>4. CopiesMade'
    BY <1>1 DEF OperandsInv, CopiesMade
  <1>5. QED
    BY <1>2, <1>3, <1>4 DEF OperandsInv

LEMMA NoFreeTail ==
  ASSUME NEW S, NEW s \in Seq(S), s # <<>>, NEW v,
         NEW i \in Nat \ {0}, NEW h \in Nat, h = i + 1,
         NEW n \in 1 .. Len(s) - 1, NEW m \in Nat, m = n + 1
  PROVE  NoFree(s, v, h, m) => NoFree(Tail(s), v, i, n)
  <1>1. \A k \in i .. n : k + 1 \in h .. m /\ Tail(s)[k] = s[k + 1]
    OBVIOUS
  <1>2. QED
    BY <1>1 DEF NoFree

\* The first call of thread a returns, having done its part.
LEMMA OperandsReturn ==
  ASSUME CallsInv, OperandsInv, NEW a \in App, calls[a] # <<>>, Return(a),
         \A v \in Pointer : pointer[v] # Junk \/ Mallocs(Current(a), v) => pointer'[v] # Junk,
         \A t \in Copy : copy'[t] # "none" =>
           copy[t] # "none" \/ (IsAsync(Current(a)) /\ Current(a).copy = t)
  PROVE  OperandsInv'
  <1> DEFINE s == calls[a]
             S == AllCalls(program)
  <1>1. /\ program' = program /\ calls' = [calls EXCEPT ![a] = Tail(s)]
        /\ calls'[a] = Tail(s) /\ \A b \in App \ {a} : calls'[b] = calls[b]
    BY DEF Return, CallsInv
  <1>2. /\ 1 \in DOMAIN s /\ Current(a) = s[1] /\ s \in Seq(S)
        /\ Len(s) \in Nat \ {0} /\ DOMAIN s = 1 .. Len(s)
        /\ DOMAIN Tail(s) = 1 .. Len(s) - 1 /\ Len(Tail(s)) = Len(s) - 1
        /\ \A n \in 1 .. Len(s) - 1 : Tail(s)[n] = s[n + 1]
    BY TailCalls
  <1>3. /\ \A b \in App : MadeBy(b)' = IF b = a THEN MadeBy(a) + 1 ELSE MadeBy(b)
        /\ \A b \in App : MadeBy(b) \in Nat
        /\ \A b \in App : Len(calls[b]) <= Len(program.calls[b])
    <2>1. \A b \in App : /\ MadeBy(b) \in Nat /\ Len(calls[b]) <= Len(program.calls[b])
                         /\ Len(calls[b]) \in Nat /\ Len(program.calls[b]) \in Nat
      BY CallAt DEF OperandsInv, CallsLeft
    <2>2. /\ MadeBy(a)' = Len(program.calls[a]) - (Len(s) - 1)
          /\ \A b \in App \ {a} : MadeBy(b)' = MadeBy(b)
      BY <1>1, <1>2 DEF MadeBy
    <2>3. MadeBy(a) = Len(program.calls[a]) - Len(s)
      BY DEF MadeBy
    <2>4. \A p \in Nat, k \in Nat : p - (k - 1) = (p - k) + 1
      OBVIOUS
    <2>5. MadeBy(a)' = MadeBy(a) + 1
      BY <1>2, <2>1, <2>2, <2>3, <2>4
    <2>6. \A b \in App : MadeBy(b)' = IF b = a THEN MadeBy(a) + 1 ELSE MadeBy(b)
      BY <2>2, <2>5
    <2>7. QED
      BY <2>1, <2>6
  <1>4. CallsLeft'
    <2>1. ASSUME NEW n \in 1 .. Len(s) - 1
          PROVE  Tail(s)[n] = program.calls[a][(MadeBy(a) + 1) + n]
      <3>1. Tail(s)[n] = s[n + 1] /\ n + 1 \in DOMAIN s
        BY <1>2
      <3>2. s[n + 1] = program.calls[a][MadeBy(a) + (n + 1)]
        BY <3>1 DEF OperandsInv, CallsLeft
      <3>3. MadeBy(a) + (n + 1) = (MadeBy(a) + 1) + n
        BY <1>3
      <3>4. QED
        BY <3>1, <3>2, <3>3
    <2>2. Len(Tail(s)) <= Len(program.calls[a])
      <3>1. Len(program.calls[a]) \in Nat
        BY CallAt DEF OperandsInv
      <3>2. QED
        BY <1>2, <1>3, <3>1
    <2>3. ASSUME NEW b \in App
          PROVE  /\ Len(calls'[b]) <= Len(program'.calls[b])
                 /\ \A n \in DOMAIN calls'[b] :
                      calls'[b][n] = program'.calls[b][MadeBy(b)' + n]
      <3>1. CASE b = a
        <4>1. /\ calls'[b] = Tail(s) /\ MadeBy(b)' = MadeBy(a) + 1
              /\ program'.calls[b] = program.calls[a]
          BY <1>1, <1>3, <3>1
        <4>2. \A n \in DOMAIN Tail(s) : Tail(s)[n] = program.calls[a][(MadeBy(a) + 1) + n]
          BY <1>2, <2>1
        <4>3. QED
          BY <2>2, <4>1, <4>2, Zenon
      <3>2. CASE b # a
        BY <1>1, <1>3, <3>2 DEF OperandsInv, CallsLeft
      <3>3. QED
        BY <3>1, <3>2
    <2>4. QED
      BY <2>3 DEF CallsLeft
  <1>5. PointersReady'
    <2>1. SUFFICES ASSUME NEW b \in App, NEW n \in DOMAIN calls'[b], IsCopy(calls'[b][n]),
                          NEW v \in Operands(calls'[b][n]) \ Plain
                   PROVE  /\ v \in Pointer
                          /\ \/ pointer'[v] # Junk /\ NoFree(calls'[b], v, 1, n)
                             \/ \E m \in 1 .. n - 1 : Mallocs(calls'[b][m], v)
                                                      /\ NoFree(calls'[b], v, m, n)
      BY DEF PointersReady
    <2>2. CASE b # a
      BY <1>1, <2>1, <2>2 DEF OperandsInv, PointersReady
    <2>3. CASE b = a
      <3>1. n \in 1 .. Len(s) - 1 /\ n + 1 \in DOMAIN s /\ calls'[b][n] = s[n + 1]
        <4>1. n \in DOMAIN Tail(s) /\ calls'[b] = Tail(s)
          BY <1>1, <2>1, <2>3
        <4>2. QED
          BY <1>2, <4>1
      <3>2. /\ v \in Pointer
            /\ \/ pointer[v] # Junk /\ NoFree(s, v, 1, n + 1)
               \/ \E m \in 1 .. (n + 1) - 1 : Mallocs(s[m], v) /\ NoFree(s, v, m, n + 1)
        BY <2>1, <2>3, <3>1 DEF OperandsInv, PointersReady
      <3>3. ASSUME NEW m \in 1 .. n, Mallocs(s[m + 1], v), NoFree(s, v, m + 1, n + 1), m # n
            PROVE  m \in 1 .. n - 1 /\ Mallocs(Tail(s)[m], v) /\ NoFree(Tail(s), v, m, n)
        <4>1. m \in Nat \ {0} /\ m + 1 \in Nat /\ n + 1 \in Nat /\ m \in 1 .. n - 1
              /\ m \in 1 .. Len(s) - 1
          BY <3>1, <3>3
        <4>2. NoFree(Tail(s), v, m, n)
          BY <1>2, <3>1, <3>3, <4>1, NoFreeTail
        <4>3. QED
          BY <1>2, <3>3, <4>1, <4>2
      <3>4. NoFree(s, v, 1, n + 1) => NoFree(s, v, 2, n + 1)
        BY <3>1 DEF NoFree
      <3>5. NoFree(s, v, 2, n + 1) => NoFree(Tail(s), v, 1, n)
        <4>1. 1 \in Nat \ {0} /\ 2 \in Nat /\ 2 = 1 + 1 /\ n + 1 \in Nat
          BY <3>1
        <4>2. QED
          BY <1>2, <3>1, <4>1, NoFreeTail
      <3>6. CASE pointer[v] # Junk /\ NoFree(s, v, 1, n + 1)
        BY <1>1, <2>3, <3>2, <3>4, <3>5, <3>6
      <3>7. ASSUME NEW m \in 1 .. (n + 1) - 1, Mallocs(s[m], v), NoFree(s, v, m, n + 1)
            PROVE  \/ pointer'[v] # Junk /\ NoFree(Tail(s), v, 1, n)
                   \/ \E k \in 1 .. n - 1 : Mallocs(Tail(s)[k], v) /\ NoFree(Tail(s), v, k, n)
        <4>1. CASE m = 1
          BY <1>2, <3>2, <3>4, <3>5, <3>7, <4>1
        <4>2. CASE m # 1
          <5>1. m - 1 \in 1 .. n - 1 /\ m - 1 \in 1 .. n /\ (m - 1) + 1 = m /\ m - 1 # n
            BY <3>1, <3>7, <4>2
          <5>2. QED
            BY <3>3, <3>7, <5>1
        <4>3. QED
          BY <4>1, <4>2
      <3>8. QED
        BY <1>1, <2>3, <3>2, <3>6, <3>7
    <2>4. QED
      BY <2>2, <2>3
  <1>6. CopiesMade'
    <2>1. SUFFICES ASSUME NEW t \in Copy, copy'[t] # "none"
                   PROVE  /\ \E b \in App : \E m \in 1 .. MadeBy(b)' :
                               IsAsync(program.calls[b][m]) /\ program.calls[b][m].copy = t
                          /\ \A v \in {Dest[t], Src[t]} \ Plain :
                               v \in Pointer /\ pointer'[v] # Junk
      BY <1>1 DEF CopiesMade
    <2>2. CASE copy[t] # "none"
      <3>1. \A b \in App : 1 .. MadeBy(b) \subseteq 1 .. MadeBy(b)'
        BY <1>3
      <3>2. QED
        BY <2>2, <3>1 DEF OperandsInv, CopiesMade
    <2>3. CASE IsAsync(Current(a)) /\ Current(a).copy = t
      <3>1. Current(a) = program.calls[a][MadeBy(a) + 1]
        BY <1>2 DEF OperandsInv, CallsLeft
      <3>2. MadeBy(a) + 1 \in 1 .. MadeBy(a)'
        BY <1>3
      <3>3. /\ IsCopy(s[1]) /\ Operands(s[1]) = {Dest[t], Src[t]}
        BY <1>2, <2>3 DEF IsCopy, Operands, Target, Source
      <3>4. \A v \in {Dest[t], Src[t]} \ Plain : v \in Pointer /\ pointer[v] # Junk
        BY <1>2, <3>3 DEF OperandsInv, PointersReady
      <3>5. QED
        BY <2>3, <3>1, <3>2, <3>4
    <2>4. QED
      BY <2>1, <2>2, <2>3
  <1>7. QED
    BY <1>4, <1>5, <1>6 DEF OperandsInv

LEMMA OperandsFree ==
  ASSUME CallsInv, OperandsInv, Careful(program), pointer \in [Pointer -> Block \cup {Junk}],
         NEW a \in App, CallFree(a)
  PROVE  OperandsInv'
  <1> DEFINE w == Current(a).var
  <1>1. /\ UNCHANGED <<program, calls, copy>> /\ calls[a] # <<>> /\ Frees(Current(a), w)
        /\ \A v \in Pointer : v # w => pointer'[v] = pointer[v]
    BY DEF CallFree, Calling, GoTo, Frees, copyVars
  <1>2. 1 \in DOMAIN calls[a] /\ Current(a) = calls[a][1]
    BY <1>1, CallAt DEF OperandsInv
  <1>3. \A b : MadeBy(b)' = MadeBy(b) /\ calls'[b] = calls[b]
    BY <1>1 DEF MadeBy
  <1>4. CallsLeft'
    BY <1>1, <1>3 DEF OperandsInv, CallsLeft
  <1>5. PointersReady'
    <2>1. SUFFICES ASSUME NEW b \in App, NEW n \in DOMAIN calls[b], IsCopy(calls[b][n]),
                          NEW v \in Operands(calls[b][n]) \ Plain
                   PROVE  /\ v \in Pointer
                          /\ \/ pointer'[v] # Junk /\ NoFree(calls[b], v, 1, n)
                             \/ \E m \in 1 .. n - 1 : Mallocs(calls[b][m], v)
                                                      /\ NoFree(calls[b], v, m, n)
      BY <1>1 DEF PointersReady
    <2>2. /\ v \in Pointer
          /\ \/ pointer[v] # Junk /\ NoFree(calls[b], v, 1, n)
             \/ \E m \in 1 .. n - 1 : Mallocs(calls[b][m], v) /\ NoFree(calls[b], v, m, n)
      BY <2>1 DEF OperandsInv, PointersReady
    <2>3. CASE v = w
      <3>1. /\ MadeBy(b) + n \in DOMAIN program.calls[b]
            /\ MadeBy(a) + 1 \in DOMAIN program.calls[a]
            /\ program.calls[b][MadeBy(b) + n] = calls[b][n]
            /\ program.calls[a][MadeBy(a) + 1] = Current(a)
        BY <1>2, CallAt DEF OperandsInv
      <3>2. a = b
        BY <1>1, <2>1, <2>3, <3>1 DEF Careful, OperandsKept
      <3>3. 1 \in 1 .. n
        BY <3>2, CallAt DEF OperandsInv
      <3>4. ~NoFree(calls[b], v, 1, n)
        BY <1>1, <1>2, <2>3, <3>2, <3>3 DEF NoFree
      <3>5. QED
        BY <2>2, <3>4
    <2>4. CASE v # w
      BY <1>1, <2>2, <2>4
    <2>5. QED
      BY <2>3, <2>4
  <1>6. CopiesMade'
    <2>1. ASSUME NEW t \in Copy, copy[t] # "none", NEW v \in {Dest[t], Src[t]} \ Plain
          PROVE  v \in Pointer /\ pointer'[v] # Junk
      BY <1>1, <1>2, <2>1, MadeOperandsKept DEF OperandsInv, CopiesMade
    <2>2. QED
      BY <1>1, <1>3, <2>1 DEF OperandsInv, CopiesMade
  <1>7. QED
    BY <1>4, <1>5, <1>6 DEF OperandsInv

\* Who is in a copy, and of what to what.
TargetOf(x) == IF x \in App THEN Current(x).dest ELSE Dest[x]
SourceOf(x) == IF x \in App THEN Current(x).src ELSE Src[x]
Operable(x) ==
  IF x \in App THEN pc[x] # "idle" /\ Current(x).op = "memcpy"
  ELSE x \in Copy /\ copy[x] # "none"

CopyBase == CallsInv /\ TrackInv /\ OperandsInv

\* What the device operands of x point to is in the tracker.
OperandsThere(x) ==
  /\ \A v \in {TargetOf(x), SourceOf(x)} \ Plain :
       v \in Pointer /\ pointer[v] \in tracked /\ pointer[v] # Junk
  /\ To(x) \in Memory /\ From(x) \in Memory
  /\ H2D(x) <=> SourceOf(x) \in Plain /\ TargetOf(x) \notin Plain
  /\ D2H(x) <=> SourceOf(x) \notin Plain /\ TargetOf(x) \in Plain

AllThere == \A x \in Thread : Operable(x) => OperandsThere(x)

LEMMA OperandsAreThere == CopyBase => AllThere
  <1> SUFFICES ASSUME CopyBase, NEW x \in Thread, Operable(x) PROVE OperandsThere(x)
    BY DEF AllThere
  <1>1. \A v \in {TargetOf(x), SourceOf(x)} \ Plain : v \in Pointer /\ pointer[v] # Junk
    <2>1. CASE x \in App
      <3>1. calls[x] # <<>>
        BY <2>1 DEF CopyBase, CallsInv, Operable
      <3>2. 1 \in DOMAIN calls[x] /\ Current(x) = calls[x][1]
        BY <2>1, <3>1, CallAt DEF CopyBase, OperandsInv
      <3>3. IsCopy(calls[x][1]) /\ Operands(calls[x][1]) = {TargetOf(x), SourceOf(x)}
        BY <2>1, <3>2 DEF Operable, IsCopy, IsAsync, Operands, Target, Source, TargetOf, SourceOf
      <3>4. QED
        BY <2>1, <3>2, <3>3 DEF CopyBase, OperandsInv, PointersReady
    <2>2. CASE x \notin App
      BY <2>2 DEF Operable, TargetOf, SourceOf, CopyBase, OperandsInv, CopiesMade
    <2>3. QED
      BY <2>1, <2>2
  <1>2. /\ To(x) = Address(TargetOf(x)) /\ From(x) = Address(SourceOf(x))
    BY DEF To, From, TargetOf, SourceOf
  <1>3. /\ tracked \subseteq Block /\ Plain \cap Block = {}
        /\ pointer \in [Pointer -> tracked \cup {Junk}]
    BY DataAssumption DEF CopyBase, TrackInv, TrackTypes
  <1>4. \A v \in {TargetOf(x), SourceOf(x)} :
          /\ v \in Plain => Address(v) = v /\ v \notin tracked
          /\ v \notin Plain => Address(v) = pointer[v] /\ pointer[v] \in tracked
    BY <1>1, <1>3 DEF Address
  <1>5. To(x) \in Memory /\ From(x) \in Memory
    <2>1. \A v \in {TargetOf(x), SourceOf(x)} : Address(v) \in Plain \cup tracked
      BY <1>4
    <2>2. QED
      BY <1>2, <1>3, <2>1 DEF Memory
  <1>6. QED
    BY <1>1, <1>2, <1>3, <1>4, <1>5 DEF OperandsThere, H2D, D2H

LEMMA OperandsStayThere == CopyBase' => AllThere'
  BY OperandsAreThere, PTL

\* Where the call or the copy that x is in was made.
LEMMA MadeAt ==
  ASSUME CopyBase, NEW x \in Thread, Operable(x)
  PROVE  \E a \in App : \E m \in DOMAIN program.calls[a] :
           LET call == program.calls[a][m]
           IN /\ IsCopy(call) /\ Target(call) = TargetOf(x) /\ Source(call) = SourceOf(x)
              /\ IF x \in App THEN a = x /\ m = MadeBy(a) + 1 /\ ~IsAsync(call)
                 ELSE /\ m <= MadeBy(a) /\ IsAsync(call) /\ call.copy = x
  <1> USE DEF CopyBase
  <1>1. CASE x \in App
    <2>1. calls[x] # <<>>
      BY <1>1 DEF CallsInv, Operable
    <2>2. 1 \in DOMAIN calls[x] /\ Current(x) = calls[x][1]
      BY <1>1, <2>1, CallAt DEF OperandsInv
    <2>3. /\ MadeBy(x) + 1 \in DOMAIN program.calls[x]
          /\ program.calls[x][MadeBy(x) + 1] = Current(x)
      BY <1>1, <2>2, CallAt DEF OperandsInv
    <2>4. /\ IsCopy(Current(x)) /\ ~IsAsync(Current(x))
          /\ Target(Current(x)) = TargetOf(x) /\ Source(Current(x)) = SourceOf(x)
      BY <1>1 DEF Operable, IsCopy, IsAsync, Target, Source, TargetOf, SourceOf
    <2>5. QED
      BY <1>1, <2>3, <2>4
  <1>2. CASE x \notin App
    <2>1. x \in Copy /\ copy[x] # "none"
      BY <1>2 DEF Operable
    <2>2. PICK a \in App : \E m \in 1 .. MadeBy(a) :
            IsAsync(program.calls[a][m]) /\ program.calls[a][m].copy = x
      BY <2>1 DEF OperandsInv, CopiesMade
    <2>3. PICK m \in 1 .. MadeBy(a) :
            IsAsync(program.calls[a][m]) /\ program.calls[a][m].copy = x
      BY <2>2
    <2>4. MadeBy(a) \in Nat /\ m \in DOMAIN program.calls[a] /\ m <= MadeBy(a)
      <3>1. /\ MadeBy(a) \in Nat /\ Len(calls[a]) \in Nat /\ Len(program.calls[a]) \in Nat
            /\ DOMAIN program.calls[a] = 1 .. Len(program.calls[a])
        BY CallAt DEF OperandsInv
      <3>2. QED
        BY <3>1 DEF MadeBy
    <2>5. /\ IsCopy(program.calls[a][m])
          /\ Target(program.calls[a][m]) = TargetOf(x)
          /\ Source(program.calls[a][m]) = SourceOf(x)
      BY <1>2, <2>3 DEF IsCopy, Target, Source, TargetOf, SourceOf
    <2>6. QED
      BY <1>2, <2>3, <2>4, <2>5
  <1>3. QED
    BY <1>1, <1>2

\* Copies that are under way do not meddle with each other's operands.
LEMMA NamesApart ==
  ASSUME CopyBase, Careful(program), NEW x \in Thread, NEW y \in Thread, x # y,
         Operable(x), Operable(y)
  PROVE  /\ TargetOf(x) # TargetOf(y)
         /\ TargetOf(x) = SourceOf(y) => x \in Copy /\ y \in Copy /\ x \in Requires[y]
  <1> DEFINE IsAt(z, a, m) ==
        LET call == program.calls[a][m]
        IN /\ IsCopy(call) /\ Target(call) = TargetOf(z) /\ Source(call) = SourceOf(z)
           /\ IF z \in App THEN a = z /\ m = MadeBy(a) + 1 /\ ~IsAsync(call)
              ELSE /\ m <= MadeBy(a) /\ IsAsync(call) /\ call.copy = z
  <1>1. PICK a \in App : \E m \in DOMAIN program.calls[a] : IsAt(x, a, m)
    BY MadeAt
  <1>2. PICK m \in DOMAIN program.calls[a] : IsAt(x, a, m)
    BY <1>1
  <1>3. PICK b \in App : \E n \in DOMAIN program.calls[b] : IsAt(y, b, n)
    BY MadeAt
  <1>4. PICK n \in DOMAIN program.calls[b] : IsAt(y, b, n)
    BY <1>3
  <1>5. /\ MadeBy(a) \in Nat /\ MadeBy(b) \in Nat /\ m \in Nat /\ n \in Nat
        /\ x \notin App => x \in Copy
        /\ y \notin App => y \in Copy
    <2>1. /\ MadeBy(a) \in Nat /\ MadeBy(b) \in Nat
          /\ DOMAIN program.calls[a] = 1 .. Len(program.calls[a])
          /\ DOMAIN program.calls[b] = 1 .. Len(program.calls[b])
      BY CallAt DEF CopyBase, OperandsInv
    <2>2. QED
      BY <2>1 DEF Thread
  <1> DEFINE c == program.calls[a][m]
             d == program.calls[b][n]
  <1>6. \/ a # b \/ (m < n /\ IsAsync(c))
        \/ a = b /\ n < m /\ IsAsync(d)
    <2>1. CASE a = b /\ m = n
      BY <1>2, <1>4, <1>5, <2>1
    <2>2. CASE a = b /\ m < n
      BY <1>2, <1>4, <1>5, <2>2
    <2>3. CASE a = b /\ n < m
      BY <1>2, <1>4, <1>5, <2>3
    <2>4. QED
      BY <1>5, <2>1, <2>2, <2>3
  <1>7. /\ Target(c) # Target(d)
        /\ Target(c) = Source(d) => Follows(c, d)
    <2>1. IsCopy(c) /\ IsCopy(d)
      BY <1>2, <1>4
    <2>2. CASE a # b \/ (m < n /\ IsAsync(c))
      BY <2>1, <2>2 DEF Careful, OperandsApart
    <2>3. CASE a = b /\ n < m /\ IsAsync(d)
      BY <2>1, <2>3 DEF Careful, OperandsApart
    <2>4. QED
      BY <1>6, <2>2, <2>3
  <1>8. Follows(c, d) => x \in Copy /\ y \in Copy /\ x \in Requires[y]
    BY <1>2, <1>4, <1>5 DEF Follows
  <1>9. QED
    BY <1>2, <1>4, <1>7, <1>8

\* Nor do their addresses coincide, or those of their temporary blocks.
LEMMA AddressesApart ==
  ASSUME CopyBase, Careful(program), NEW x \in Thread, NEW y \in Thread, x # y,
         Operable(x), Operable(y)
  PROVE  /\ To(x) # To(y)
         /\ To(x) = From(y) => x \in Copy /\ y \in Copy /\ x \in Requires[y]
  <1>1. OperandsThere(x) /\ OperandsThere(y)
    BY OperandsAreThere DEF AllThere
  <1>2. /\ To(x) = Address(TargetOf(x))
        /\ To(y) = Address(TargetOf(y)) /\ From(y) = Address(SourceOf(y))
    BY DEF To, From, TargetOf, SourceOf
  <1>3. /\ tracked \subseteq Block /\ Plain \cap Block = {}
        /\ \A v, w \in Pointer : pointer[v] = pointer[w] => v = w \/ pointer[v] = Junk
    BY DataAssumption DEF CopyBase, TrackInv, TrackTypes, BlocksApart
  <1>4. \A v \in {TargetOf(x), SourceOf(x)}, w \in {TargetOf(y), SourceOf(y)} :
          Address(v) = Address(w) => v = w
    <2>1. SUFFICES ASSUME NEW v \in {TargetOf(x), SourceOf(x)},
                          NEW w \in {TargetOf(y), SourceOf(y)}, Address(v) = Address(w)
                   PROVE  v = w
      OBVIOUS
    <2>2. CASE v \in Plain
      <3>1. w \in Plain
        BY <1>1, <1>3, <2>1, <2>2 DEF Address, OperandsThere
      <3>2. QED
        BY <2>1, <2>2, <3>1 DEF Address
    <2>3. CASE v \notin Plain
      <3>1. w \notin Plain
        BY <1>1, <1>3, <2>1, <2>3 DEF Address, OperandsThere
      <3>2. QED
        BY <1>1, <1>3, <2>1, <2>3, <3>1 DEF Address, OperandsThere
    <2>4. QED
      BY <2>2, <2>3
  <1>5. QED
    BY <1>2, <1>4, NamesApart

LEMMA TempsApart ==
  ASSUME CopyBase, NEW x \in Thread, NEW y \in Thread, Operable(y), block[x] # Junk
  PROVE  block[x] # To(y) /\ block[x] # From(y) /\ block[x] \in Block
  <1>1. OperandsThere(y)
    BY OperandsAreThere DEF AllThere
  <1>2. /\ To(y) = Address(TargetOf(y)) /\ From(y) = Address(SourceOf(y))
    BY DEF To, From, TargetOf, SourceOf
  <1>3. /\ block[x] \in Block /\ Plain \cap Block = {}
        /\ \A v \in Pointer : block[x] # pointer[v]
    BY DataAssumption DEF CopyBase, TrackInv, TrackTypes, BlocksApart
  <1>4. \A v \in {TargetOf(y), SourceOf(y)} : block[x] # Address(v)
    BY <1>1, <1>3 DEF Address, OperandsThere
  <1>5. QED
    BY <1>2, <1>3, <1>4

\* Where the thread of a call or of a copy is, and what it has.
Staging == {"allocate", "register", "fill", "submit"}
AfterStaging == {"wait", "back", "find", "remove", "release", "subtract"}
Temporary == {"register", "fill", "store", "submit", "wait", "back", "find", "remove",
              "release"}

InEngine(x) == \E c \in engine : c.of = x

DataOps == {"malloc", "free", "memcpy", "memcpyAsync"}

PlaceInv(x) ==
  /\ x \in App =>
       /\ pc[x] \in LifeLabels => Current(x).op \notin DataOps
       /\ pc[x] \in {"fill", "store", "submit", "wait", "back"} => Current(x).op = "memcpy"
       /\ pc[x] \in {"allocate", "register"} => Current(x).op \in {"malloc", "memcpy"}
       /\ pc[x] \in {"find", "remove", "release"} => Current(x).op \in {"free", "memcpy"}
       /\ Current(x).op = "memcpy"
          /\ pc[x] \in {"allocate", "register", "fill", "back", "find", "remove", "release"}
            => Staged(x)
  /\ x \in Copy =>
       /\ copy[x] \in {"none", "ready", "staging", "dispatched", "completed"}
       /\ pc[x] \in Staging \cup AfterStaging \cup {"idle"}
       /\ pc[x] \in Staging <=> copy[x] = "staging"
       /\ pc[x] \in AfterStaging => copy[x] = "dispatched"
       /\ pc[x] # "idle" => Staged(x)
  /\ Operable(x) /\ Staged(x) /\ pc[x] \in Temporary => block[x] # Junk

\* What the engine has been given and has not done.
CommandInv(c) ==
  /\ c.of \in Thread /\ c.from \in Memory /\ c.to \in Memory
  /\ c.of \in Copy =>
       /\ c = Command(c.of) /\ copy[c.of] = "dispatched"
       /\ pc[c.of] = IF Staged(c.of) THEN "wait" ELSE "idle"
  /\ c.of \in App /\ ~overlapped => c = Command(c.of) /\ pc[c.of] = "wait"

PlacesKept ==
  /\ \A x \in Thread : PlaceInv(x)
  /\ \A c \in engine : CommandInv(c)

\* A step that leaves thread y, what it is in and copy y alone.
Untouched(y) ==
  /\ pc'[y] = pc[y] /\ block'[y] = block[y]
  /\ y \in App /\ pc[y] # "idle" => calls'[y] = calls[y]
  /\ y \in Copy => copy'[y] = copy[y]

StepBase ==
  /\ CopyBase /\ CopyBase' /\ Careful(program) /\ program' = program
  /\ \A y \in Thread : Operable(y) =>
       \A v \in {TargetOf(y), SourceOf(y)} \ Plain : pointer'[v] = pointer[v]

LEMMA Partition ==
  /\ \A x \in Thread : x \in App <=> x \notin Copy
  /\ \A x \in Thread : x \in Copy <=> x \notin App
  /\ App \subseteq Thread /\ Copy \subseteq Thread
  BY ApplicationAssumption DEF Thread

\* What x copies stays the same while it is at it.
LEMMA SameOperands ==
  ASSUME StepBase, NEW x \in Thread, Operable(x), Operable(x)',
         x \in App => calls'[x] = calls[x]
  PROVE  /\ To(x)' = To(x) /\ From(x)' = From(x)
         /\ H2D(x)' <=> H2D(x)
         /\ D2H(x)' <=> D2H(x)
         /\ Staged(x)' <=> Staged(x)
  <1>1. TargetOf(x)' = TargetOf(x) /\ SourceOf(x)' = SourceOf(x)
    BY DEF TargetOf, SourceOf, Current
  <1>2. OperandsThere(x) /\ OperandsThere(x)'
    <2>1. AllThere /\ AllThere'
      BY OperandsAreThere, OperandsStayThere DEF StepBase
    <2>2. QED
      BY <2>1 DEF AllThere
  <1>3. /\ H2D(x)' <=> H2D(x)
        /\ D2H(x)' <=> D2H(x)
    BY <1>1, <1>2 DEF OperandsThere
  <1>4. \A v \in {TargetOf(x), SourceOf(x)} : v \notin Plain => pointer'[v] = pointer[v]
    BY DEF StepBase
  <1>5. To(x)' = To(x) /\ From(x)' = From(x)
    <2>1. /\ To(x) = Address(TargetOf(x)) /\ From(x) = Address(SourceOf(x))
          /\ To(x)' = Address(TargetOf(x))' /\ From(x)' = Address(SourceOf(x))'
      BY DEF To, From, TargetOf, SourceOf
    <2>2. /\ Address(TargetOf(x))' = Address(TargetOf(x))
          /\ Address(SourceOf(x))' = Address(SourceOf(x))
      BY <1>1, <1>4 DEF Address
    <2>3. QED
      BY <2>1, <2>2
  <1>6. QED
    BY <1>3, <1>5 DEF Staged

LEMMA UntouchedOperable ==
  ASSUME NEW y \in Thread, Untouched(y)
  PROVE  /\ Operable(y)' <=> Operable(y)
         /\ y \in App /\ pc[y] # "idle" => Current(y)' = Current(y)
  BY Partition DEF Untouched, Operable, Current

LEMMA UntouchedPlace ==
  ASSUME StepBase, NEW y \in Thread, PlaceInv(y), Untouched(y)
  PROVE  PlaceInv(y)'
  <1>1. Operable(y)' <=> Operable(y)
    BY UntouchedOperable
  <1>2. Operable(y) => (Staged(y)' <=> Staged(y))
    BY <1>1, SameOperands DEF Untouched, Operable
  <1>3. CASE y \in App
    <2>0. CASE pc[y] = "idle"
      <3>1. pc'[y] = "idle" /\ y \notin Copy /\ ~Operable(y)'
        BY <1>3, <2>0, Partition DEF Untouched, Operable
      <3>2. QED
        BY <3>1 DEF PlaceInv, LifeLabels, InitLabels, FinalLabels, GroupLabels
    <2> SUFFICES ASSUME pc[y] # "idle" PROVE PlaceInv(y)'
      BY <2>0
    <2>1. Current(y)' = Current(y) /\ y \notin Copy
      BY <1>3, UntouchedOperable, Partition
    <2>2. pc[y] # "idle" /\ Current(y).op = "memcpy" => Operable(y)
      BY <1>3 DEF Operable
    <2>3. QED
      BY <1>1, <1>2, <1>3, <2>1, <2>2 DEF PlaceInv, Untouched
  <1>4. CASE y \in Copy
    <2>1. copy[y] # "none" => Operable(y)
      BY <1>4, Partition DEF Operable
    <2>2. y \notin App /\ pc[y] # "idle" => copy[y] # "none"
      BY <1>4 DEF PlaceInv
    <2>3. QED
      BY <1>1, <1>2, <1>4, <2>1, <2>2, Partition DEF PlaceInv, Untouched
  <1>5. QED
    BY <1>3, <1>4, Partition

LEMMA SameCommand ==
  ASSUME StepBase, NEW x \in Thread, Operable(x), Operable(x)',
         x \in App => calls'[x] = calls[x], block'[x] = block[x]
  PROVE  Command(x)' = Command(x)
  <1>1. /\ To(x)' = To(x) /\ From(x)' = From(x)
        /\ H2D(x)' <=> H2D(x)
        /\ D2H(x)' <=> D2H(x)
    BY SameOperands
  <1>2. (IF H2D(x)' THEN block'[x] ELSE From(x)') = (IF H2D(x) THEN block[x] ELSE From(x))
    BY <1>1
  <1>3. (IF D2H(x)' THEN block'[x] ELSE To(x)') = (IF D2H(x) THEN block[x] ELSE To(x))
    BY <1>1
  <1>4. QED
    BY <1>2, <1>3 DEF Command, StepBase, SignalOf

LEMMA CommandIsOperable ==
  ASSUME CopyBase, PlacesKept, NEW c \in engine, c.of \in Copy \/ ~overlapped
  PROVE  Operable(c.of) /\ c.of \in Thread
  <1>1. CommandInv(c) /\ PlaceInv(c.of) /\ c.of \in Thread
    BY DEF PlacesKept, CommandInv
  <1>2. CASE c.of \in Copy
    BY <1>1, <1>2, Partition DEF CommandInv, Operable
  <1>3. CASE c.of \in App
    BY <1>1, <1>3, Partition DEF CommandInv, Operable, PlaceInv
  <1>4. QED
    BY <1>1, <1>2, <1>3 DEF Thread

LEMMA UntouchedCommand ==
  ASSUME StepBase, PlacesKept, NEW c \in engine, Untouched(c.of),
         overlapped => overlapped'
  PROVE  CommandInv(c)'
  <1>1. CommandInv(c) /\ c.of \in Thread
    BY DEF PlacesKept, CommandInv
  <1>2. CASE c.of \in Copy \/ ~overlapped
    <2>1. Operable(c.of) /\ Operable(c.of)'
      BY <1>1, <1>2, CommandIsOperable, UntouchedOperable DEF StepBase
    <2>2. Command(c.of)' = Command(c.of) /\ (Staged(c.of)' <=> Staged(c.of))
      BY <1>1, <2>1, SameCommand, SameOperands DEF Untouched, Operable
    <2>3. QED
      BY <1>1, <1>2, <2>2 DEF CommandInv, Untouched, Memory
  <1>3. CASE c.of \notin Copy /\ overlapped
    BY <1>1, <1>3 DEF CommandInv, Memory
  <1>4. QED
    BY <1>2, <1>3

\* A step of x alone that gives the engine nothing new.
LEMMA PlacesStep ==
  ASSUME StepBase, PlacesKept, NEW x, \A y \in Thread \ {x} : Untouched(y),
         x \in Thread => PlaceInv(x)', overlapped => overlapped',
         \A c \in engine' : (c \in engine /\ c.of # x) \/ CommandInv(c)'
  PROVE  PlacesKept'
  <1>1. \A y \in Thread : PlaceInv(y)'
    BY UntouchedPlace DEF PlacesKept
  <1>2. ASSUME NEW c \in engine' PROVE CommandInv(c)'
    <2>1. CASE c \in engine /\ c.of # x
      <3>1. c.of \in Thread \ {x}
        BY <2>1 DEF PlacesKept, CommandInv
      <3>2. QED
        BY <2>1, <3>1, UntouchedCommand
    <2>2. QED
      BY <1>2, <2>1
  <1>3. QED
    BY <1>1, <1>2 DEF PlacesKept

CopyTypes ==
  /\ copy \in [Copy -> {"none", "ready", "staging", "dispatched", "completed"}]
  /\ mem \in [Memory -> Plain \cup {Junk}]
  /\ signal \in [Signal -> Nat] /\ identityCopy \in Int
  /\ early \subseteq Copy /\ overlapped \in BOOLEAN

\* The value of a signal: one for each copy of it that the engine has still to do and
\* one for each of its staging threads.
EngineShare(s) == {t \in Copy : SignalOf(t) = s /\ (pc[t] \in Staging \/ InEngine(t))}
ThreadShare(s) == {t \in Copy : SignalOf(t) = s /\ pc[t] # "idle"}
SharesCounted ==
  \A s \in Signal :
    signal[s] = Cardinality(EngineShare(s)) + Cardinality(ThreadShare(s))

\* One call at a time uses IdentityCopySignal, and its value is its own.
IdentityUsed ==
  overlapped \/
    /\ \A a, b \in App : UsesIdentity(a) /\ UsesIdentity(b) => a = b
    /\ \A a \in App : pc[a] = "submit" => identityCopy = 1
    /\ \A a \in App : pc[a] = "wait" => identityCopy = IF InEngine(a) THEN 1 ELSE 0

\* A copy that will write no more; one that has read its source for good.
Over(t) == copy[t] \in {"dispatched", "completed"} /\ pc[t] = "idle" /\ ~InEngine(t)
HasRead(t) ==
  IF H2D(t) THEN copy[t] \in {"dispatched", "completed"} \/ pc[t] = "submit"
  ELSE copy[t] \in {"dispatched", "completed"} /\ ~InEngine(t)

RequiredInv(t) ==
  \A u \in Requires[t] :
    /\ copy[t] \notin {"none", "ready"} =>
         \/ copy[u] = "completed"
         \/ program.depSync = "barrier" /\ copy[u] = "dispatched"
    /\ HasRead(t) /\ t \notin early => Over(u)

\* How far the contents of the source have come.
Filled(x) == H2D(x) /\ pc[x] \in {"store", "submit", "wait"}
Moved(x) == (pc[x] = "wait" /\ ~InEngine(x)) \/ pc[x] = "back"
Through(x) ==
  \/ pc[x] \in {"find", "remove", "release", "return", "subtract"}
  \/ x \in Copy /\ Over(x)
Holds(x) == Filled(x) \/ Moved(x) \/ Through(x)

CarriedInv(x) ==
  Operable(x) =>
    /\ Filled(x) => mem[block[x]] = mem[From(x)]
    /\ Moved(x) => mem[IF D2H(x) THEN block[x] ELSE To(x)] = mem[From(x)]
    /\ Through(x) => mem[To(x)] = mem[From(x)]

ContentsInv ==
  /\ \A t \in Copy : RequiredInv(t)
  /\ overlapped \/ \A x \in Thread \ early : CarriedInv(x)

CopyInv ==
  CopyTypes /\ PlacesKept /\ SharesCounted /\ IdentityUsed /\ ContentsInv

-------------------------------------------------------------------------------
(* What steps leave alone.                                                   *)
LEMMA SharesSame ==
  ASSUME SharesCounted, signal' = signal,
         \A t \in Copy : /\ pc'[t] \in Staging \/ InEngine(t)' <=> pc[t] \in Staging \/ InEngine(t)
                         /\ pc'[t] = "idle" <=> pc[t] = "idle"
  PROVE  SharesCounted'
  <1>1. \A s : /\ EngineShare(s)' = EngineShare(s)
               /\ ThreadShare(s)' = ThreadShare(s)
    BY DEF EngineShare, ThreadShare, SignalOf
  <1>2. QED
    BY <1>1 DEF SharesCounted

\* The steps by which copies go on.
GoesOn(u) ==
  /\ Over(u) => Over(u)'
  /\ copy[u] = "completed" => copy'[u] = "completed"
  /\ copy[u] = "dispatched" => copy'[u] \in {"dispatched", "completed"}

LEMMA RequiredKept ==
  ASSUME \A u \in Copy : GoesOn(u), program' = program, Requires \in [Copy -> SUBSET Copy],
         NEW t \in Copy, RequiredInv(t),
         copy'[t] \notin {"none", "ready"} => copy[t] \notin {"none", "ready"},
         HasRead(t)' /\ t \notin early' => HasRead(t) /\ t \notin early
  PROVE  RequiredInv(t)'
  <1>1. ASSUME NEW u \in Requires[t]
        PROVE  /\ copy'[t] \notin {"none", "ready"} =>
                    \/ copy'[u] = "completed"
                    \/ program'.depSync = "barrier" /\ copy'[u] = "dispatched"
               /\ HasRead(t)' /\ t \notin early' => Over(u)'
    BY DEF RequiredInv, GoesOn
  <1>2. QED
    BY <1>1 DEF RequiredInv

LEMMA HoldsHasRead ==
  ASSUME PlacesKept, NEW t \in Copy, Holds(t)
  PROVE  HasRead(t)
  <1>1. PlaceInv(t) /\ \A c \in engine : CommandInv(c)
    BY Partition DEF PlacesKept
  <1>2. InEngine(t) => copy[t] = "dispatched" /\ pc[t] = IF Staged(t) THEN "wait" ELSE "idle"
    BY <1>1 DEF InEngine, CommandInv
  <1>3. pc[t] \in AfterStaging => copy[t] = "dispatched" /\ Staged(t)
    BY <1>1 DEF PlaceInv, AfterStaging
  <1>4. pc[t] \notin {"store", "return"}
    BY <1>1 DEF PlaceInv, Staging, AfterStaging
  <1>5. CASE Filled(t)
    BY <1>3, <1>4, <1>5 DEF Filled, HasRead, AfterStaging
  <1>6. CASE Moved(t)
    BY <1>2, <1>3, <1>6 DEF Moved, HasRead, AfterStaging
  <1>7. CASE Through(t)
    BY <1>2, <1>3, <1>4, <1>7 DEF Through, Over, HasRead, AfterStaging
  <1>8. QED
    BY <1>5, <1>6, <1>7 DEF Holds

\* A copy writes nothing that another one has to keep.
LEMMA WriterSpares ==
  ASSUME CopyBase, Careful(program), PlacesKept, NEW x \in Thread, NEW y \in Thread \ early,
         x # y, Operable(x), Operable(y), y \in Copy => RequiredInv(y),
         x \in Copy => ~Over(x),
         NEW w, w = To(x) \/ (w = block[x] /\ w # Junk)
  PROVE  /\ w # To(y)
         /\ Holds(y) => w # From(y)
         /\ block[y] # Junk => w # block[y]
  <1>1. CASE w = To(x)
    <2>1. w # To(y)
      BY <1>1, AddressesApart
    <2>2. block[y] # Junk => w # block[y]
      BY <1>1, TempsApart
    <2>3. ASSUME Holds(y), w = From(y) PROVE FALSE
      <3>1. x \in Copy /\ y \in Copy /\ x \in Requires[y]
        BY <1>1, <2>3, AddressesApart
      <3>2. Over(x)
        BY <2>3, <3>1, HoldsHasRead DEF RequiredInv
      <3>3. QED
        BY <3>1, <3>2
    <2>4. QED
      BY <2>1, <2>2, <2>3
  <1>2. CASE w = block[x] /\ w # Junk
    BY <1>2, TempsApart DEF CopyBase, TrackInv, BlocksApart
  <1>3. QED
    BY <1>1, <1>2

LEMMA CarriedKept ==
  ASSUME StepBase, NEW y \in Thread, PlaceInv(y), CarriedInv(y), Untouched(y),
         InEngine(y)' <=> InEngine(y),
         Operable(y) => /\ mem'[To(y)] = mem[To(y)]
                        /\ Holds(y) => mem'[From(y)] = mem[From(y)]
                        /\ block[y] # Junk => mem'[block[y]] = mem[block[y]]
  PROVE  CarriedInv(y)'
  <1>1. SUFFICES ASSUME Operable(y)'
                 PROVE  /\ Filled(y)' => mem'[block'[y]] = mem'[From(y)']
                        /\ Moved(y)' => mem'[IF D2H(y)' THEN block'[y] ELSE To(y)'] = mem'[From(y)']
                        /\ Through(y)' => mem'[To(y)'] = mem'[From(y)']
    BY DEF CarriedInv
  <1>2. Operable(y)
    BY <1>1, UntouchedOperable
  <1>3. /\ To(y)' = To(y) /\ From(y)' = From(y)
        /\ H2D(y)' <=> H2D(y)
        /\ D2H(y)' <=> D2H(y)
    BY <1>1, <1>2, SameOperands DEF Untouched, Operable
  <1>4. /\ Filled(y)' <=> Filled(y)
        /\ Moved(y)' <=> Moved(y)
        /\ Through(y)' <=> Through(y)
    BY <1>3 DEF Filled, Moved, Through, Over, Untouched
  <1>5. Filled(y) \/ (Moved(y) /\ D2H(y)) => block[y] # Junk
    <2>1. H2D(y) \/ D2H(y) => Staged(y)
      BY DEF Staged
    <2>2. Filled(y) \/ Moved(y) => pc[y] \in Temporary
      BY DEF Filled, Moved, Temporary
    <2>3. QED
      BY <1>2, <2>1, <2>2 DEF PlaceInv, Filled
  <1>6. block'[y] = block[y]
    BY DEF Untouched
  <1>7. QED
    BY <1>2, <1>3, <1>4, <1>5, <1>6 DEF CarriedInv, Holds

LEMMA UntouchedGoesOn ==
  ASSUME NEW u \in Copy, Untouched(u), InEngine(u)' <=> InEngine(u)
  PROVE  GoesOn(u)
  BY DEF GoesOn, Untouched, Over

LEMMA UntouchedRequired ==
  ASSUME StepBase, PlacesKept, NEW t \in Copy, Untouched(t), InEngine(t)' <=> InEngine(t),
         \A u \in Copy : GoesOn(u), RequiredInv(t), early \subseteq early'
  PROVE  RequiredInv(t)'
  <1>1. t \in Thread /\ t \notin App /\ PlaceInv(t)
    BY Partition DEF PlacesKept
  <1>2. HasRead(t)' => HasRead(t)
    <2>1. CASE copy[t] = "none"
      BY <1>1, <2>1 DEF HasRead, Untouched, PlaceInv, Staging
    <2>2. CASE copy[t] # "none"
      <3>1. Operable(t) /\ Operable(t)'
        BY <1>1, <2>2 DEF Operable, Untouched
      <3>2. H2D(t)' <=> H2D(t)
        BY <1>1, <3>1, SameOperands
      <3>3. QED
        BY <3>2 DEF HasRead, Untouched
    <2>3. QED
      BY <2>1, <2>2
  <1>3. copy'[t] = copy[t] /\ program' = program
    BY DEF Untouched, StepBase
  <1>4. QED
    BY <1>2, <1>3, RequiredKept, DataAssumption

\* A step of x leaves what the other copies hold.
Spares(x) ==
  \A y \in Thread \ early : y # x /\ Operable(y) =>
    /\ mem'[To(y)] = mem[To(y)]
    /\ Holds(y) => mem'[From(y)] = mem[From(y)]
    /\ block[y] # Junk => mem'[block[y]] = mem[block[y]]

\* A step of x that spares what the others hold.
LEMMA ContentsStep ==
  ASSUME StepBase, PlacesKept, ContentsInv, NEW x,
         \A y \in Thread \ {x} : Untouched(y) /\ (InEngine(y)' <=> InEngine(y)),
         x \in Copy => GoesOn(x) /\ RequiredInv(x)',
         early \subseteq early', overlapped => overlapped',
         x \in Thread /\ ~overlapped' /\ x \notin early' => CarriedInv(x)',
         overlapped \/ Spares(x)
  PROVE  ContentsInv'
  <1>1. \A u \in Copy : GoesOn(u)
    BY UntouchedGoesOn, Partition
  <1>2. ASSUME NEW t \in Copy PROVE RequiredInv(t)'
    <2>1. CASE t = x
      BY <2>1
    <2>2. CASE t # x
      <3>1. t \in Thread \ {x} /\ RequiredInv(t)
        BY <2>2, Partition DEF ContentsInv
      <3>2. QED
        BY <1>1, <3>1, UntouchedRequired
    <2>3. QED
      BY <2>1, <2>2
  <1>3. ASSUME ~overlapped', NEW y \in Thread \ early' PROVE CarriedInv(y)'
    <2>1. CASE y = x
      BY <1>3, <2>1
    <2>2. CASE y # x
      <3>1. PlaceInv(y) /\ CarriedInv(y) /\ y \in Thread \ early /\ ~overlapped
        BY <1>3 DEF PlacesKept, ContentsInv
      <3>2. Untouched(y) /\ (InEngine(y)' <=> InEngine(y))
        BY <1>3, <2>2
      <3>3. QED
        BY <2>2, <3>1, <3>2, CarriedKept DEF Spares
    <2>3. QED
      BY <2>1, <2>2
  <1>4. QED
    BY <1>2, <1>3 DEF ContentsInv

\* A copy that writes its destination or its temporary block.
LEMMA WriteSpares ==
  ASSUME CopyBase, Careful(program), CopyTypes, PlacesKept, ContentsInv,
         NEW x \in Thread, Operable(x), x \in Copy => ~Over(x),
         NEW w, w = To(x) \/ (w = block[x] /\ w # Junk),
         NEW val, mem' = [mem EXCEPT ![w] = val]
  PROVE  Spares(x)
  <1>1. \A m \in Memory : m # w => mem'[m] = mem[m]
    BY DEF CopyTypes
  <1>2. ASSUME NEW y \in Thread \ early, y # x, Operable(y)
        PROVE  /\ mem'[To(y)] = mem[To(y)]
               /\ Holds(y) => mem'[From(y)] = mem[From(y)]
               /\ block[y] # Junk => mem'[block[y]] = mem[block[y]]
    <2>1. y \in Copy => RequiredInv(y)
      BY DEF ContentsInv
    <2>2. /\ w # To(y)
          /\ Holds(y) => w # From(y)
          /\ block[y] # Junk => w # block[y]
      BY <1>2, <2>1, WriterSpares
    <2>3. /\ To(y) \in Memory /\ From(y) \in Memory
          /\ block[y] # Junk => block[y] \in Memory
      BY <1>2, OperandsAreThere, TempsApart DEF AllThere, OperandsThere, Memory
    <2>4. QED
      BY <1>1, <2>2, <2>3
  <1>3. QED
    BY <1>2 DEF Spares

LEMMA SharesStep ==
  ASSUME SharesCounted, signal' = signal, NEW x,
         \A y \in Thread \ {x} : Untouched(y) /\ (InEngine(y)' <=> InEngine(y)),
         x \in Copy =>
           /\ pc'[x] \in Staging \/ InEngine(x)' <=> pc[x] \in Staging \/ InEngine(x)
           /\ pc'[x] = "idle" <=> pc[x] = "idle"
  PROVE  SharesCounted'
  <1>1. ASSUME NEW t \in Copy
        PROVE  /\ pc'[t] \in Staging \/ InEngine(t)' <=> pc[t] \in Staging \/ InEngine(t)
               /\ pc'[t] = "idle" <=> pc[t] = "idle"
    BY Partition DEF Untouched
  <1>2. QED
    BY <1>1, SharesSame

LEMMA IdentityStep ==
  ASSUME IdentityUsed, UNCHANGED <<identityCopy, overlapped>>, NEW x,
         \A y \in Thread \ {x} : Untouched(y) /\ (InEngine(y)' <=> InEngine(y)),
         x \in App =>
           /\ pc'[x] = "submit" => pc[x] = "submit"
           /\ pc'[x] = "wait" => pc[x] = "wait" /\ (InEngine(x)' <=> InEngine(x))
  PROVE  IdentityUsed'
  <1>1. \A a \in App : /\ pc'[a] = "submit" => pc[a] = "submit"
                       /\ pc'[a] = "wait" => pc[a] = "wait" /\ (InEngine(a)' <=> InEngine(a))
    BY Partition DEF Untouched
  <1>2. \A a \in App : UsesIdentity(a)' => UsesIdentity(a)
    BY <1>1 DEF UsesIdentity
  <1>3. QED
    BY <1>1, <1>2 DEF IdentityUsed

-------------------------------------------------------------------------------
(* What the steps do to the calls and the variables of the program.          *)
LEMMA StepStays ==
  ASSUME CopyBase, CallsInv', TrackInv', Careful(program),
         UNCHANGED <<program, calls, pointer>>,
         \A t \in Copy : copy[t] = "none" => copy'[t] = "none"
  PROVE  StepBase
  BY OperandsSame DEF StepBase, CopyBase

LEMMA StepReturns ==
  ASSUME CopyBase, CallsInv', TrackInv', Careful(program), NEW a \in App,
         calls[a] # <<>>, Return(a), Current(a).op # "malloc", pointer' = pointer,
         \A t \in Copy : copy'[t] # "none" =>
           copy[t] # "none" \/ (IsAsync(Current(a)) /\ Current(a).copy = t)
  PROVE  StepBase
  <1>1. OperandsInv'
    BY OperandsReturn DEF CopyBase, Mallocs
  <1>2. QED
    BY <1>1 DEF StepBase, CopyBase, Return

\* A call of atmi_malloc or atmi_free does not name what a copy is at.
LEMMA NotNamed ==
  ASSUME CopyBase, Careful(program), NEW a \in App, calls[a] # <<>>,
         Current(a).op \in {"malloc", "free"}, NEW y \in Thread, Operable(y),
         NEW v \in {TargetOf(y), SourceOf(y)} \ Plain
  PROVE  v # Current(a).var
  <1>1. PICK b \in App : \E m \in DOMAIN program.calls[b] :
          LET call == program.calls[b][m]
          IN /\ IsCopy(call) /\ Target(call) = TargetOf(y) /\ Source(call) = SourceOf(y)
             /\ IF y \in App THEN b = y /\ m = MadeBy(b) + 1 /\ ~IsAsync(call)
                ELSE /\ m <= MadeBy(b) /\ IsAsync(call) /\ call.copy = y
    BY MadeAt
  <1>2. PICK m \in DOMAIN program.calls[b] :
          LET call == program.calls[b][m]
          IN /\ IsCopy(call) /\ Target(call) = TargetOf(y) /\ Source(call) = SourceOf(y)
             /\ IF y \in App THEN b = y /\ m = MadeBy(b) + 1 /\ ~IsAsync(call)
                ELSE /\ m <= MadeBy(b) /\ IsAsync(call) /\ call.copy = y
    BY <1>1
  <1>3. /\ 1 \in DOMAIN calls[a] /\ Current(a) = calls[a][1]
        /\ MadeBy(a) + 1 \in DOMAIN program.calls[a]
        /\ program.calls[a][MadeBy(a) + 1] = Current(a)
        /\ MadeBy(a) \in Nat /\ MadeBy(b) \in Nat /\ m \in Nat
    <2>1. /\ 1 \in DOMAIN calls[a] /\ Current(a) = calls[a][1]
          /\ MadeBy(a) \in Nat /\ MadeBy(b) \in Nat /\ m \in Nat
      BY CallAt DEF CopyBase, OperandsInv
    <2>2. QED
      BY <2>1, CallAt DEF CopyBase, OperandsInv
  <1>4. SUFFICES ASSUME v = Current(a).var PROVE FALSE
    OBVIOUS
  <1>5. Mallocs(Current(a), v) \/ Frees(Current(a), v)
    BY <1>4 DEF Mallocs, Frees
  <1>6. v \in Operands(program.calls[b][m]) \ Plain /\ IsCopy(program.calls[b][m])
    BY <1>2 DEF Operands
  <1>7. a = b /\ (IsAsync(program.calls[b][m]) => MadeBy(a) + 1 < m)
    BY <1>3, <1>5, <1>6 DEF Careful, OperandsKept
  <1>8. CASE y \in App
    BY <1>2, <1>7, <1>8 DEF Operable
  <1>9. CASE y \notin App
    BY <1>2, <1>3, <1>7, <1>9
  <1>10. QED
    BY <1>8, <1>9

LEMMA StepFrees ==
  ASSUME CopyBase, CallsInv', TrackInv', Careful(program), NEW a \in App, CallFree(a)
  PROVE  StepBase
  <1>1. pointer \in [Pointer -> Block \cup {Junk}]
    BY DEF CopyBase, TrackInv, TrackTypes
  <1>2. OperandsInv'
    BY <1>1, OperandsFree DEF CopyBase
  <1>3. /\ program' = program /\ calls[a] # <<>> /\ Current(a).op = "free"
        /\ pointer' = [pointer EXCEPT ![Current(a).var] = Junk]
    BY DEF CallFree, Calling, GoTo
  <1>4. ASSUME NEW y \in Thread, Operable(y), NEW v \in {TargetOf(y), SourceOf(y)} \ Plain
        PROVE  pointer'[v] = pointer[v]
    <2>1. v \in Pointer
      BY <1>4, OperandsAreThere DEF AllThere, OperandsThere
    <2>2. v # Current(a).var
      BY <1>3, <1>4, NotNamed
    <2>3. QED
      BY <1>1, <1>3, <2>1, <2>2
  <1>5. QED
    BY <1>2, <1>3, <1>4 DEF StepBase, CopyBase

LEMMA StepAllocates ==
  ASSUME CopyBase, CallsInv', TrackInv', Careful(program), NEW a \in App, Register(a),
         calls[a] # <<>>, Current(a).op = "malloc"
  PROVE  StepBase
  <1>1. /\ pointer \in [Pointer -> Block \cup {Junk}] /\ block[a] # Junk
    BY DEF CopyBase, TrackInv, TrackTypes, BlocksHeld, Register, Thread
  <1>2. /\ Return(a) /\ copy' = copy
        /\ pointer' = [pointer EXCEPT ![Current(a).var] = block[a]]
    BY DEF Register, copyVars
  <1>3. \A v \in Pointer : pointer[v] # Junk \/ Mallocs(Current(a), v) => pointer'[v] # Junk
    BY <1>1, <1>2 DEF Mallocs
  <1>4. OperandsInv'
    BY <1>2, <1>3, OperandsReturn DEF CopyBase
  <1>5. ASSUME NEW y \in Thread, Operable(y), NEW v \in {TargetOf(y), SourceOf(y)} \ Plain
        PROVE  pointer'[v] = pointer[v]
    <2>1. v \in Pointer
      BY <1>5, OperandsAreThere DEF AllThere, OperandsThere
    <2>2. v # Current(a).var
      BY <1>5, NotNamed
    <2>3. QED
      BY <1>1, <1>2, <2>1, <2>2
  <1>6. QED
    BY <1>2, <1>4, <1>5 DEF StepBase, CopyBase, Return

-------------------------------------------------------------------------------
(* The steps.                                                                *)
\* Nothing of x is with the engine, or too much is.
NoCommand(x) == \A c \in engine : c.of = x => x \in App /\ overlapped

LEMMA NotWithEngine ==
  ASSUME PlacesKept, NEW x \in Thread, x \in App \/ pc[x] \notin {"idle", "wait"},
         pc[x] # "wait" \/ (x \in App /\ identityCopy = 0 /\ IdentityUsed)
  PROVE  NoCommand(x)
  <1>1. ASSUME NEW c \in engine, c.of = x PROVE x \in App /\ overlapped
    <2>1. CommandInv(c)
      BY DEF PlacesKept
    <2>2. CASE x \in Copy
      BY <1>1, <2>1, <2>2, Partition DEF CommandInv
    <2>3. CASE x \in App
      BY <1>1, <2>1, <2>3, Partition DEF CommandInv, IdentityUsed, InEngine
    <2>4. QED
      BY <2>2, <2>3, Partition
  <1>2. QED
    BY <1>1 DEF NoCommand

\* A step of the thread of x that has nothing to do with the engine.
LEMMA ThreadMoves ==
  ASSUME StepBase, CopyInv, CopyTypes', NEW x \in Thread,
         \A y \in Thread \ {x} : Untouched(y),
         UNCHANGED <<engine, signal, identityCopy, overlapped, copy>>, early \subseteq early',
         NoCommand(x), PlaceInv(x)',
         x \in App => pc'[x] \notin {"submit", "wait"},
         x \in Copy =>
           /\ pc[x] # "idle" /\ pc'[x] # "idle"
           /\ pc'[x] \in Staging <=> pc[x] \in Staging
           /\ pc'[x] = "submit" => RequiredInv(x)',
         ~overlapped /\ x \notin early' => CarriedInv(x)',
         overlapped \/ Spares(x)
  PROVE  CopyInv'
  <1>1. CopyTypes /\ PlacesKept /\ SharesCounted /\ IdentityUsed /\ ContentsInv
    BY DEF CopyInv
  <1>2. \A y : InEngine(y)' <=> InEngine(y)
    BY DEF InEngine
  <1>3. PlacesKept'
    <2>1. \A c \in engine' : (c \in engine /\ c.of # x) \/ CommandInv(c)'
      <3>1. SUFFICES ASSUME NEW c \in engine, c.of = x PROVE CommandInv(c)'
        OBVIOUS
      <3>2. CommandInv(c) /\ x \in App /\ overlapped /\ x \notin Copy
        BY <1>1, <3>1, Partition DEF PlacesKept, NoCommand
      <3>3. QED
        BY <3>1, <3>2 DEF CommandInv, Memory
    <2>2. QED
      BY <1>1, <2>1, PlacesStep
  <1>4. SharesCounted'
    BY <1>1, <1>2, SharesStep
  <1>5. IdentityUsed'
    BY <1>1, <1>2, IdentityStep
  <1>6. x \in Copy => GoesOn(x) /\ RequiredInv(x)'
    <2>1. SUFFICES ASSUME x \in Copy PROVE GoesOn(x) /\ RequiredInv(x)'
      OBVIOUS
    <2>2. GoesOn(x)
      BY <2>1 DEF GoesOn, Over
    <2>3. CASE pc'[x] = "submit"
      BY <2>1, <2>2, <2>3
    <2>4. CASE pc'[x] # "submit"
      <3>1. PlaceInv(x) /\ RequiredInv(x) /\ x \notin App
        BY <1>1, <2>1, Partition DEF PlacesKept, ContentsInv
      <3>2. Operable(x) /\ Operable(x)'
        BY <2>1, <3>1 DEF Operable, PlaceInv, AfterStaging, Staging
      <3>3. H2D(x)' <=> H2D(x)
        BY <3>1, <3>2, SameOperands
      <3>4. HasRead(x)' => HasRead(x)
        BY <1>2, <2>4, <3>3 DEF HasRead
      <3>5. \A u \in Copy : GoesOn(u)
        BY <1>2, <2>2, UntouchedGoesOn, Partition
      <3>6. program' = program
        BY DEF StepBase
      <3>7. QED
        BY <2>1, <2>2, <3>1, <3>4, <3>5, <3>6, RequiredKept, DataAssumption
    <2>5. QED
      BY <2>3, <2>4
  <1>7. ContentsInv'
    BY <1>1, <1>2, <1>6, ContentsStep
  <1>8. QED
    BY <1>3, <1>4, <1>5, <1>7 DEF CopyInv

\* A thread that is in no copy.
LEMMA InNoCopy ==
  ASSUME NEW x \in App, pc'[x] = "idle" \/ Current(x)'.op # "memcpy"
  PROVE  ~Operable(x)' /\ CarriedInv(x)'
  BY DEF Operable, CarriedInv

LEMMA AtRest ==
  ASSUME NEW x \in App, pc'[x] = "idle"
  PROVE  PlaceInv(x)' /\ CarriedInv(x)'
  <1>1. ~Operable(x)' /\ x \notin Copy /\ CarriedInv(x)'
    BY InNoCopy, ApplicationAssumption
  <1>2. QED
    BY <1>1 DEF PlaceInv, LifeLabels, InitLabels, FinalLabels, GroupLabels

\* A call of an application thread that moves nothing.
LEMMA CallMoves ==
  ASSUME StepBase, CopyInv, NEW x \in App, \A y \in Thread \ {x} : Untouched(y),
         UNCHANGED <<engine, signal, identityCopy, overlapped, copy, mem, early>>,
         pc[x] # "wait" \/ identityCopy = 0, PlaceInv(x)', pc'[x] \notin {"submit", "wait"},
         overlapped \/ CarriedInv(x)'
  PROVE  CopyInv'
  <1>1. x \in Thread /\ x \notin Copy
    BY ApplicationAssumption DEF Thread
  <1>2. CopyTypes'
    BY DEF CopyInv, CopyTypes
  <1>3. NoCommand(x)
    BY <1>1, NotWithEngine DEF CopyInv
  <1>4. Spares(x)
    BY DEF Spares
  <1>5. QED
    BY <1>1, <1>2, <1>3, <1>4, ThreadMoves

LEMMA OthersUntouched ==
  ASSUME NEW x \in Thread, pc \in [Thread -> Label], calls \in [App -> Seq(AllCalls(program))],
         \/ \E l : GoTo(x, l)
         \/ x \in App /\ Return(x)
  PROVE  \A y \in Thread \ {x} : pc'[y] = pc[y] /\ (y \in App => calls'[y] = calls[y])
  BY DEF GoTo, Return

\* What the movement of data reads.
movingVars ==
  <<program, calls, pc, copy, signal, engine, mem, early, block, tracked, pointer,
    identityCopy, overlapped>>

LEMMA SameThread ==
  ASSUME UNCHANGED movingVars, NEW x
  PROVE  /\ Command(x)' = Command(x)
         /\ PlaceInv(x) => PlaceInv(x)'
         /\ RequiredInv(x) => RequiredInv(x)'
         /\ CarriedInv(x) => CarriedInv(x)'
  <1> USE DEF movingVars
  <1>1. /\ To(x)' = To(x) /\ From(x)' = From(x)
        /\ Operable(x)' <=> Operable(x)
    BY DEF To, From, Address, Current, Operable
  <1>2. /\ H2D(x)' <=> H2D(x)
        /\ D2H(x)' <=> D2H(x)
        /\ Staged(x)' <=> Staged(x)
    BY <1>1 DEF H2D, D2H, Staged
  <1>3. Command(x)' = Command(x)
    BY <1>1, <1>2 DEF Command, SignalOf
  <1>4. PlaceInv(x) => PlaceInv(x)'
    BY <1>1, <1>2 DEF PlaceInv, Current
  <1>5. RequiredInv(x) => RequiredInv(x)'
    BY <1>2 DEF RequiredInv, HasRead, Over, InEngine
  <1>6. CarriedInv(x) => CarriedInv(x)'
    <2>1. /\ Filled(x)' <=> Filled(x)
          /\ Moved(x)' <=> Moved(x)
          /\ Through(x)' <=> Through(x)
      BY <1>2 DEF Filled, Moved, Through, Over, InEngine
    <2>2. /\ mem'[block'[x]] = mem[block[x]]
          /\ mem'[To(x)'] = mem[To(x)] /\ mem'[From(x)'] = mem[From(x)]
      BY <1>1
    <2>3. QED
      BY <1>1, <1>2, <2>1, <2>2 DEF CarriedInv
  <1>7. QED
    BY <1>3, <1>4, <1>5, <1>6

\* A step in which no thread moves.
LEMMA NobodyMoves ==
  ASSUME CopyInv, UNCHANGED <<program, calls, pc, dataVars>>
  PROVE  CopyInv'
  <1>1. UNCHANGED movingVars
    BY DEF movingVars, dataVars, trackVars, copyVars, ghostVars
  <1> USE DEF movingVars
  <1>2. CopyTypes'
    BY <1>1 DEF CopyInv, CopyTypes
  <1>3. PlacesKept'
    <2>1. ASSUME NEW x \in Thread PROVE PlaceInv(x)'
      BY <1>1, SameThread DEF CopyInv, PlacesKept
    <2>2. ASSUME NEW c \in engine PROVE CommandInv(c)'
      <3>1. CommandInv(c) /\ Command(c.of)' = Command(c.of)
        BY <1>1, SameThread DEF CopyInv, PlacesKept
      <3>2. Staged(c.of)' <=> Staged(c.of)
        BY <1>1 DEF Staged, H2D, D2H, To, From, Address, Current
      <3>3. QED
        BY <1>1, <3>1, <3>2 DEF CommandInv, Memory
    <2>3. QED
      BY <1>1, <2>1, <2>2 DEF PlacesKept
  <1>4. SharesCounted'
    BY <1>1, SharesSame DEF CopyInv, InEngine
  <1>5. IdentityUsed'
    BY <1>1 DEF CopyInv, IdentityUsed, UsesIdentity, InEngine
  <1>6. ContentsInv'
    <2>1. ASSUME NEW t \in Copy PROVE RequiredInv(t)'
      BY <1>1, SameThread DEF CopyInv, ContentsInv
    <2>2. ASSUME ~overlapped, NEW x \in Thread \ early PROVE CarriedInv(x)'
      BY <1>1, <2>2, SameThread DEF CopyInv, ContentsInv
    <2>3. QED
      BY <1>1, <2>1, <2>2 DEF ContentsInv
  <1>7. QED
    BY <1>2, <1>3, <1>4, <1>5, <1>6 DEF CopyInv

CarefulInv == CopyBase /\ CopyInv /\ Careful(program)

LEMMA CarefulStays ==
  ASSUME StepBase, CopyInv'
  PROVE  CarefulInv'
  BY DEF StepBase, CarefulInv

\* A call that returns and moves nothing.
LEMMA QuietReturn ==
  ASSUME CarefulInv, CallsInv', TrackInv', NEW a \in App, calls[a] # <<>>, Return(a),
         UNCHANGED dataVars, Current(a).op # "malloc", pc[a] # "wait"
  PROVE  CarefulInv'
  <1> USE DEF CarefulInv
  <1>1. /\ UNCHANGED <<engine, signal, identityCopy, overlapped, copy, mem, early>>
        /\ UNCHANGED <<pointer, block, tracked, allocated>>
    BY DEF dataVars, trackVars, copyVars, ghostVars
  <1>2. StepBase
    BY <1>1, StepReturns
  <1>3. pc'[a] = "idle" /\ \A y \in Thread \ {a} : Untouched(y)
    BY <1>1, OthersUntouched, Partition DEF Return, Untouched, CopyBase, CallsInv
  <1>4. PlaceInv(a)' /\ CarriedInv(a)'
    BY <1>3, AtRest
  <1>5. CopyInv'
    BY <1>1, <1>2, <1>3, <1>4, CallMoves
  <1>6. QED
    BY <1>2, <1>5, CarefulStays

\* A thread goes on in its call and moves nothing.
LEMMA GoesOnBase ==
  ASSUME CarefulInv, CallsInv', TrackInv', NEW x \in Thread, NEW l, GoTo(x, l),
         UNCHANGED <<pointer, copy>>, \A y \in Thread \ {x} : block'[y] = block[y]
  PROVE  /\ StepBase /\ pc'[x] = l /\ \A y \in Thread \ {x} : Untouched(y)
         /\ x \in App => calls'[x] = calls[x] /\ Current(x)' = Current(x)
  <1> USE DEF CarefulInv
  <1>1. StepBase
    BY StepStays DEF GoTo
  <1>2. pc'[x] = l /\ \A y \in Thread \ {x} : Untouched(y)
    BY OthersUntouched DEF GoTo, Untouched, CopyBase, CallsInv
  <1>3. QED
    BY <1>1, <1>2 DEF GoTo, Current

LEMMA QuietGoTo ==
  ASSUME CarefulInv, CallsInv', TrackInv', NEW a \in App, NEW l, GoTo(a, l),
         UNCHANGED dataVars, pc[a] # "wait" \/ identityCopy = 0, PlaceInv(a)',
         l \notin {"submit", "wait"}, overlapped \/ CarriedInv(a)'
  PROVE  CarefulInv'
  <1>1. /\ UNCHANGED <<engine, signal, identityCopy, overlapped, copy, mem, early>>
        /\ UNCHANGED <<pointer, block>> /\ a \in Thread
    BY DEF dataVars, trackVars, copyVars, ghostVars, Thread
  <1>2. StepBase /\ pc'[a] = l /\ \A y \in Thread \ {a} : Untouched(y)
    BY <1>1, GoesOnBase
  <1>3. CopyInv'
    BY <1>1, <1>2, CallMoves DEF CarefulInv
  <1>4. QED
    BY <1>2, <1>3, CarefulStays

\* Calls that have nothing to do with copies.
LEMMA OtherCalls ==
  ASSUME CarefulInv, CallsInv', TrackInv', NEW a \in App, NEW l, GoTo(a, l),
         UNCHANGED dataVars, pc[a] # "wait",
         \/ l \in LifeLabels /\ Current(a).op \notin DataOps
         \/ l = "allocate" /\ Current(a).op = "malloc"
  PROVE  CarefulInv'
  <1>1. pc'[a] = l /\ Current(a)' = Current(a) /\ a \notin Copy
    BY ApplicationAssumption DEF GoTo, Current, CarefulInv, CopyBase, CallsInv, Thread
  <1>2. Current(a)'.op # "memcpy" /\ l \notin {"submit", "wait"}
    BY <1>1 DEF DataOps, LifeLabels, InitLabels, FinalLabels, GroupLabels
  <1>3. ~Operable(a)' /\ CarriedInv(a)'
    BY <1>2, InNoCopy
  <1>4. PlaceInv(a)'
    BY <1>1, <1>2, <1>3 DEF PlaceInv, DataOps, LifeLabels, InitLabels, FinalLabels, GroupLabels
  <1>5. QED
    BY <1>2, <1>3, <1>4, QuietGoTo

LEMMA ExitKeeps ==
  ASSUME CarefulInv, CallsInv', TrackInv', UNCHANGED <<program, calls, pc, dataVars>>
  PROVE  CarefulInv'
  <1>1. CopyInv'
    BY NobodyMoves DEF CarefulInv
  <1>2. OperandsInv'
    BY OperandsSame DEF CarefulInv, CopyBase, dataVars, trackVars, copyVars
  <1>3. QED
    BY <1>1, <1>2 DEF CarefulInv, CopyBase

\* A call of the runtime's life is none of the movement of data.
LEMMA LifeGoes ==
  ASSUME CallsInv, NEW a \in App, PlaceInv(a), LifeCall(a)
  PROVE  /\ Current(a).op \notin DataOps /\ pc[a] # "wait" /\ calls[a] # <<>>
         /\ Exit \/ Return(a) \/ \E l \in LifeLabels : GoTo(a, l)
  <1> USE DEF Calling, LifeLabels, InitLabels, FinalLabels, GroupLabels, DataOps, PlaceInv
  <1>1. CASE CallInitialize(a)
    BY <1>1 DEF CallInitialize
  <1>2. CASE InitGPU(a)
    BY <1>2 DEF InitGPU, Context, CallsInv
  <1>3. CASE InitCPU(a)
    BY <1>3 DEF InitCPU, Context, CallsInv
  <1>4. CASE SetInitialized(a) \/ InitDeviceRuntime(a)
    BY <1>4 DEF SetInitialized, InitDeviceRuntime, CallsInv
  <1>5. CASE CallFinalize(a) \/ DestroyQueues(a) \/ ClearTables(a)
    BY <1>5 DEF CallFinalize, DestroyQueues, ClearTables, CallsInv
  <1>6. CASE ResetInitialized(a) \/ ShutDown(a)
    BY <1>6 DEF ResetInitialized, ShutDown, CallsInv
  <1>7. CASE CallGroupCreate(a) \/ ConstructGroup(a)
    BY <1>7 DEF CallGroupCreate, ConstructGroup, CallsInv
  <1>8. CASE CallGroupRelease(a) \/ CallRegisterModule(a)
    BY <1>8 DEF CallGroupRelease, CallRegisterModule
  <1>9. CASE CallCreateKernel(a)
    BY <1>9 DEF CallCreateKernel
  <1>10. CASE AddGPUKernelImpl(a) \/ FillTemplate(a)
    BY <1>10 DEF AddGPUKernelImpl, FillTemplate, CallsInv
  <1>11. CASE CallReleaseKernel(a) \/ WaitTasks(a)
    BY <1>11 DEF CallReleaseKernel, WaitTasks, CallsInv
  <1>12. CASE PushGroup(a)
    BY <1>12 DEF PushGroup, CallsInv
  <1>13. QED
    BY <1>1, <1>2, <1>3, <1>4, <1>5, <1>6, <1>7, <1>8, <1>9, <1>10, <1>11, <1>12
       DEF LifeCall

LEMMA LifeKeepsCopies ==
  ASSUME CarefulInv, CallsInv', TrackInv', NEW a \in App, Life(a)
  PROVE  CarefulInv'
  <1>1. LifeCall(a) /\ UNCHANGED dataVars /\ CallsInv /\ PlaceInv(a)
    BY Partition DEF Life, CarefulInv, CopyBase, CopyInv, PlacesKept
  <1>2. /\ Current(a).op \notin DataOps /\ pc[a] # "wait" /\ calls[a] # <<>>
        /\ Exit \/ Return(a) \/ \E l \in LifeLabels : GoTo(a, l)
    BY <1>1, LifeGoes
  <1>3. CASE Exit
    BY <1>1, <1>3, ExitKeeps DEF Exit
  <1>4. CASE Return(a)
    BY <1>1, <1>2, <1>4, QuietReturn DEF DataOps
  <1>5. CASE \E l \in LifeLabels : GoTo(a, l)
    BY <1>1, <1>2, <1>5, OtherCalls
  <1>6. QED
    BY <1>2, <1>3, <1>4, <1>5

LEMMA DeviceKeepsCopies ==
  ASSUME CarefulInv, CallsInv', TrackInv', NEW a \in App, Device(a) \/ Await(a)
  PROVE  CarefulInv'
  <1>1. /\ Return(a) /\ UNCHANGED dataVars /\ calls[a] # <<>> /\ pc[a] # "wait"
        /\ Current(a).op # "malloc"
    BY DEF Device, DeviceCall, CallLaunch, WaitTask, Calling, Await
  <1>2. QED
    BY <1>1, QuietReturn

\* The calls of the application that move nothing.
LEMMA CallsKeepCopies ==
  ASSUME CarefulInv, CallsInv', TrackInv', NEW a \in App,
         CallMalloc(a) \/ ReturnFree(a) \/ ReturnMemcpy(a) \/ WaitCopy(a)
  PROVE  CarefulInv'
  <1>1. CASE CallMalloc(a)
    <2>1. GoTo(a, "allocate") /\ UNCHANGED dataVars /\ pc[a] = "idle" /\ Current(a).op = "malloc"
      BY <1>1 DEF CallMalloc, Calling
    <2>2. QED
      BY <2>1, OtherCalls
  <1>2. CASE ReturnFree(a) \/ ReturnMemcpy(a) \/ WaitCopy(a)
    <2>1. /\ Return(a) /\ UNCHANGED dataVars /\ calls[a] # <<>> /\ pc[a] # "wait"
          /\ Current(a).op # "malloc"
      BY <1>2 DEF ReturnFree, ReturnMemcpy, WaitCopy, Inside, Calling, CarefulInv, CopyBase,
                  CallsInv
    <2>2. QED
      BY <2>1, QuietReturn
  <1>3. QED
    BY <1>1, <1>2

\* A thread that is moving data is in a copy, or in atmi_malloc or atmi_free.
LEMMA WorksOn ==
  ASSUME CarefulInv, NEW x \in Thread,
         pc[x] \in {"allocate", "register", "fill", "store", "submit", "wait", "back", "find",
                    "remove", "release"}
  PROVE  /\ PlaceInv(x) /\ (x \in App \/ x \in Copy)
         /\ x \in App => x \notin Copy
         /\ Operable(x) \/ (x \in App /\ Current(x).op \in {"malloc", "free"})
         /\ pc[x] \in {"fill", "store", "submit", "wait", "back"} => Operable(x)
         /\ ~overlapped /\ x \notin early /\ Operable(x) =>
              /\ Filled(x) => mem[block[x]] = mem[From(x)]
              /\ Moved(x) => mem[IF D2H(x) THEN block[x] ELSE To(x)] = mem[From(x)]
              /\ Through(x) => mem[To(x)] = mem[From(x)]
  <1>1. PlaceInv(x)
    BY DEF CarefulInv, CopyInv, PlacesKept
  <1>2. /\ Operable(x) \/ (x \in App /\ Current(x).op \in {"malloc", "free"})
        /\ pc[x] \in {"fill", "store", "submit", "wait", "back"} => Operable(x)
    <2>1. CASE x \in App
      BY <1>1, <2>1 DEF Operable, PlaceInv
    <2>2. CASE x \in Copy
      BY <1>1, <2>2, Partition DEF Operable, PlaceInv, Staging, AfterStaging
    <2>3. QED
      BY <2>1, <2>2, Partition
  <1>3. ~overlapped /\ x \notin early => CarriedInv(x)
    BY DEF CarefulInv, CopyInv, ContentsInv
  <1>4. QED
    BY <1>1, <1>2, <1>3, Partition DEF CarriedInv

\* A thread goes on in its copy.
LEMMA CopyGoesOn ==
  ASSUME CarefulInv, CallsInv', TrackInv', NEW x \in Thread, NEW l, l # "idle", GoTo(x, l),
         UNCHANGED <<pointer, copy>>, \A y \in Thread \ {x} : block'[y] = block[y],
         Operable(x)
  PROVE  /\ Operable(x)'
         /\ To(x)' = To(x) /\ From(x)' = From(x)
         /\ H2D(x)' <=> H2D(x)
         /\ D2H(x)' <=> D2H(x)
         /\ Staged(x)' <=> Staged(x)
  <1>1. /\ StepBase /\ pc'[x] = l
        /\ x \in App => calls'[x] = calls[x] /\ Current(x)' = Current(x)
    BY GoesOnBase
  <1>2. Operable(x)'
    BY <1>1 DEF Operable
  <1>3. QED
    BY <1>1, <1>2, SameOperands

\* The same, with what it has to show for it.
LEMMA MovesOn ==
  ASSUME CarefulInv, CallsInv', TrackInv', CopyTypes', NEW x \in Thread, NEW l,
         l \notin {"idle", "submit", "wait"} \/ (l = "submit" /\ x \in Copy /\ RequiredInv(x)'),
         GoTo(x, l), pc[x] \notin {"idle", "wait"} \/ (x \in App /\ identityCopy = 0),
         UNCHANGED <<engine, signal, identityCopy, overlapped, copy, pointer>>,
         early \subseteq early', \A y \in Thread \ {x} : block'[y] = block[y],
         x \in Copy => (l \in Staging <=> pc[x] \in Staging) /\ pc[x] # "idle",
         PlaceInv(x)', ~overlapped /\ x \notin early' => CarriedInv(x)',
         overlapped \/ Spares(x)
  PROVE  CarefulInv'
  <1>1. StepBase /\ pc'[x] = l /\ \A y \in Thread \ {x} : Untouched(y)
    BY GoesOnBase
  <1>2. NoCommand(x)
    BY NotWithEngine, Partition DEF CarefulInv, CopyInv
  <1>3. x \in App => l \notin {"submit", "wait"}
    BY Partition
  <1>4. x \in Copy => l # "idle"
    OBVIOUS
  <1>5. CopyInv'
    BY <1>1, <1>2, <1>3, <1>4, ThreadMoves DEF CarefulInv
  <1>6. QED
    BY <1>1, <1>5, CarefulStays

LEMMA SparesSame ==
  ASSUME mem' = mem, NEW x
  PROVE  Spares(x)
  BY DEF Spares

\* Steps of atmi_malloc and atmi_free.
LEMMA FreeGoesOn ==
  ASSUME NEW x \in App, NEW l, GoTo(x, l), pc'[x] = l, Current(x).op \in {"malloc", "free"},
         \/ l \in {"allocate", "register"} /\ Current(x).op = "malloc"
         \/ l \in {"find", "remove", "release"} /\ Current(x).op = "free"
         \/ l = "return"
  PROVE  PlaceInv(x)' /\ CarriedInv(x)'
  <1>1. Current(x)' = Current(x) /\ x \notin Copy
    BY Partition DEF GoTo, Current, Thread
  <1>2. ~Operable(x)' /\ CarriedInv(x)'
    BY <1>1, InNoCopy
  <1>3. QED
    BY <1>1, <1>2 DEF PlaceInv, LifeLabels, InitLabels, FinalLabels, GroupLabels

LEMMA CallMemcpyKeeps ==
  ASSUME CarefulInv, CallsInv', TrackInv', NEW a \in App, CallMemcpy(a)
  PROVE  CarefulInv'
  <1> DEFINE l == IF Staged(a) THEN "allocate" ELSE "store"
  <1>1. /\ GoTo(a, l) /\ UNCHANGED dataVars /\ pc[a] = "idle" /\ Current(a).op = "memcpy"
    BY DEF CallMemcpy, Calling
  <1>2. pc'[a] = l /\ Current(a)' = Current(a) /\ a \notin Copy
    BY <1>1, Partition DEF GoTo, Current, CarefulInv, CopyBase, CallsInv
  <1>3. Staged(a)' <=> Staged(a)
    BY <1>1 DEF GoTo, Staged, H2D, D2H, To, From, Address, Current, dataVars, trackVars
  <1>4. l \in {"allocate", "store"} /\ (l = "allocate" <=> Staged(a))
    OBVIOUS
  <1> HIDE DEF l
  <1>5. PlaceInv(a)'
    BY <1>1, <1>2, <1>3, <1>4
       DEF PlaceInv, LifeLabels, InitLabels, FinalLabels, GroupLabels, Temporary
  <1>6. CarriedInv(a)'
    <2>1. H2D(a)' => l = "allocate"
      BY <1>3, <1>4 DEF Staged
    <2>2. ~Filled(a)' /\ ~Moved(a)' /\ ~Through(a)'
      BY <1>2, <1>4, <2>1 DEF Filled, Moved, Through
    <2>3. QED
      BY <2>2 DEF CarriedInv
  <1>7. QED
    BY <1>1, <1>4, <1>5, <1>6, QuietGoTo

\* The temporary block, or the block of atmi_free, is given back step by step.
LEMMA HandsBack ==
  ASSUME CarefulInv, CallsInv', TrackInv', NEW x \in Thread, NEW l, GoTo(x, l),
         UNCHANGED <<engine, signal, identityCopy, overlapped, copy, pointer, mem, early>>,
         \A y \in Thread \ {x} : block'[y] = block[y],
         \/ pc[x] = "find" /\ l = "remove" /\ block'[x] = block[x]
         \/ pc[x] = "remove" /\ l = "release" /\ block'[x] = block[x]
         \/ pc[x] = "release" /\ l = IF x \in Copy THEN "subtract" ELSE "return"
  PROVE  CarefulInv'
  <1>1. pc'[x] = l
    BY GoesOnBase
  <1>2. PlaceInv(x)' /\ (~overlapped /\ x \notin early => CarriedInv(x)')
    <2>1. CASE Operable(x)
      <3>1. /\ Operable(x)'
            /\ To(x)' = To(x) /\ From(x)' = From(x)
            /\ H2D(x)' <=> H2D(x)
            /\ D2H(x)' <=> D2H(x)
            /\ Staged(x)' <=> Staged(x)
        BY <2>1, CopyGoesOn
      <3>2. x \in App => Current(x)' = Current(x)
        BY DEF GoTo, Current
      <3>3. PlaceInv(x)'
        <4>1. CASE x \in App
          BY <1>1, <2>1, <3>1, <3>2, <4>1, WorksOn
             DEF PlaceInv, LifeLabels, InitLabels, FinalLabels, GroupLabels, Temporary, Operable
        <4>2. CASE x \in Copy
          BY <1>1, <2>1, <3>1, <4>2, WorksOn DEF PlaceInv, Temporary, Staging, AfterStaging
        <4>3. QED
          BY <4>1, <4>2, WorksOn
      <3>4. CarriedInv(x)' <=> mem[To(x)] = mem[From(x)]
        BY <1>1, <3>1 DEF CarriedInv, Filled, Moved, Through
      <3>5. QED
        BY <2>1, <3>3, <3>4, WorksOn DEF Through
    <2>2. CASE ~Operable(x)
      BY <1>1, <2>2, WorksOn, FreeGoesOn DEF PlaceInv
    <2>3. QED
      BY <2>1, <2>2
  <1>3. CopyTypes' /\ Spares(x)
    BY SparesSame DEF CarefulInv, CopyInv, CopyTypes
  <1>4. x \in Copy => (l \in Staging <=> pc[x] \in Staging) /\ pc[x] # "idle"
    BY DEF Staging
  <1>5. QED
    BY <1>2, <1>3, <1>4, MovesOn

LEMMA FindKeeps ==
  ASSUME CarefulInv, CallsInv', TrackInv', NEW x \in Thread, Find(x)
  PROVE  CarefulInv'
  <1>1. /\ UNCHANGED dataVars /\ pc[x] = "find" /\ (GoTo(x, "remove") \/ Exit)
        /\ UNCHANGED <<engine, signal, identityCopy, overlapped, copy, pointer>>
        /\ UNCHANGED <<block, mem, early>>
    BY DEF Find, dataVars, trackVars, copyVars, ghostVars
  <1>2. CASE Exit
    BY <1>1, <1>2, ExitKeeps DEF Exit
  <1>3. CASE GoTo(x, "remove")
    BY <1>1, <1>3, HandsBack
  <1>4. QED
    BY <1>1, <1>2, <1>3

LEMMA RemoveKeeps ==
  ASSUME CarefulInv, CallsInv', TrackInv', NEW x \in Thread, RemoveRange(x)
  PROVE  CarefulInv'
  <1>1. /\ GoTo(x, "release") /\ pc[x] = "remove"
        /\ UNCHANGED <<engine, signal, identityCopy, overlapped, copy, pointer, mem, early>>
        /\ block' = block
    BY DEF RemoveRange, copyVars, ghostVars
  <1>2. QED
    BY <1>1, HandsBack

LEMMA ReleaseKeeps ==
  ASSUME CarefulInv, CallsInv', TrackInv', NEW x \in Thread, Release(x)
  PROVE  CarefulInv'
  <1>1. /\ GoTo(x, IF x \in Copy THEN "subtract" ELSE "return") /\ pc[x] = "release"
        /\ UNCHANGED <<engine, signal, identityCopy, overlapped, copy, pointer, mem, early>>
        /\ block' = [block EXCEPT ![x] = Junk]
    BY DEF Release, copyVars, ghostVars
  <1>2. \A y \in Thread \ {x} : block'[y] = block[y]
    BY <1>1 DEF CarefulInv, CopyBase, TrackInv, TrackTypes
  <1>3. QED
    BY <1>1, <1>2, HandsBack

\* The block that x has got is nobody else's.
LEMMA AllocateKeeps ==
  ASSUME CarefulInv, CallsInv', TrackInv', NEW x \in Thread, Allocate(x)
  PROVE  CarefulInv'
  <1>1. PICK b \in Block \ allocated :
          block' = [block EXCEPT ![x] = b] /\ mem' = [mem EXCEPT ![b] = Junk]
    BY DEF Allocate
  <1>2. /\ GoTo(x, "register") /\ pc[x] = "allocate"
        /\ UNCHANGED <<engine, signal, identityCopy, overlapped, copy, pointer, early>>
    BY DEF Allocate, copyVars, ghostVars
  <1>3. /\ block \in [Thread -> allocated \cup {Junk}] /\ tracked \subseteq allocated
        /\ b # Junk /\ b \in Memory /\ b \notin Plain
    BY DataAssumption DEF CarefulInv, CopyBase, TrackInv, TrackTypes, Memory
  <1>4. block'[x] = b /\ \A y \in Thread \ {x} : block'[y] = block[y]
    BY <1>1, <1>3
  <1>5. pc'[x] = "register"
    BY <1>2, <1>4, GoesOnBase
  <1>6. PlaceInv(x)' /\ CarriedInv(x)'
    <2>1. CASE Operable(x)
      <3>1. /\ Operable(x)'
            /\ To(x)' = To(x) /\ From(x)' = From(x)
            /\ H2D(x)' <=> H2D(x)
            /\ D2H(x)' <=> D2H(x)
            /\ Staged(x)' <=> Staged(x)
        BY <1>2, <1>4, <2>1, CopyGoesOn
      <3>2. x \in App => Current(x)' = Current(x)
        BY <1>2 DEF GoTo, Current
      <3>3. PlaceInv(x)'
        <4>1. CASE x \in App
          BY <1>2, <1>3, <1>4, <1>5, <2>1, <3>1, <3>2, <4>1, WorksOn
             DEF PlaceInv, LifeLabels, InitLabels, FinalLabels, GroupLabels, Temporary, Operable
        <4>2. CASE x \in Copy
          BY <1>2, <1>3, <1>4, <1>5, <2>1, <3>1, <4>2, WorksOn
             DEF PlaceInv, Temporary, Staging, AfterStaging
        <4>3. QED
          BY <1>2, <4>1, <4>2, WorksOn
      <3>4. CarriedInv(x)'
        BY <1>5, Partition DEF CarriedInv, Filled, Moved, Through, Over
      <3>5. QED
        BY <3>3, <3>4
    <2>2. CASE ~Operable(x)
      BY <1>2, <1>5, <2>2, WorksOn, FreeGoesOn DEF PlaceInv
    <2>3. QED
      BY <2>1, <2>2
  <1>7. CopyTypes'
    BY <1>1, <1>2, <1>3 DEF CarefulInv, CopyInv, CopyTypes
  <1>8. Spares(x)
    <2>1. ASSUME NEW y \in Thread \ early, y # x, Operable(y)
          PROVE  b # To(y) /\ b # From(y) /\ To(y) \in Memory /\ From(y) \in Memory
                 /\ (block[y] # Junk => b # block[y] /\ block[y] \in Memory)
      <3>1. OperandsThere(y)
        BY <2>1, OperandsAreThere DEF AllThere, CarefulInv
      <3>2. To(y) = Address(TargetOf(y)) /\ From(y) = Address(SourceOf(y))
        BY DEF To, From, TargetOf, SourceOf
      <3>3. \A v \in {TargetOf(y), SourceOf(y)} : Address(v) \in Plain \cup tracked
        BY <3>1 DEF OperandsThere, Address
      <3>4. block[y] # Junk => block[y] \in allocated /\ block[y] \in Memory
        BY <1>3, <2>1 DEF CarefulInv, CopyBase, TrackInv, TrackTypes, Memory
      <3>5. QED
        BY <1>1, <1>3, <3>1, <3>2, <3>3, <3>4 DEF OperandsThere
    <2>2. \A m \in Memory : m # b => mem'[m] = mem[m]
      BY <1>1 DEF CarefulInv, CopyInv, CopyTypes
    <2>3. QED
      BY <2>1, <2>2 DEF Spares
  <1>9. "register" \in Staging /\ pc[x] \in Staging
    BY <1>2 DEF Staging
  <1>10. QED
    BY <1>2, <1>4, <1>6, <1>7, <1>8, <1>9, MovesOn

LEMMA CallFreeKeeps ==
  ASSUME CarefulInv, CallsInv', TrackInv', NEW a \in App, CallFree(a)
  PROVE  CarefulInv'
  <1>1. /\ GoTo(a, "find") /\ pc[a] = "idle" /\ Current(a).op = "free"
        /\ UNCHANGED <<engine, signal, identityCopy, overlapped, copy, mem, early>>
        /\ block' = [block EXCEPT ![a] = pointer[Current(a).var]]
    BY DEF CallFree, Calling, copyVars, ghostVars
  <1>2. StepBase
    BY StepFrees DEF CarefulInv
  <1>3. \A y \in Thread \ {a} : block'[y] = block[y]
    BY <1>1 DEF CarefulInv, CopyBase, TrackInv, TrackTypes
  <1>4. pc'[a] = "find" /\ \A y \in Thread \ {a} : Untouched(y)
    BY <1>1, <1>3, OthersUntouched, Partition DEF GoTo, Untouched, CarefulInv, CopyBase, CallsInv
  <1>5. PlaceInv(a)' /\ CarriedInv(a)'
    BY <1>1, <1>4, FreeGoesOn
  <1>6. CopyInv'
    BY <1>1, <1>2, <1>4, <1>5, CallMoves DEF CarefulInv
  <1>7. QED
    BY <1>2, <1>6, CarefulStays

\* A thread goes on in its copy to a label at which it has a temporary block.
LEMMA PlaceGoesOn ==
  ASSUME CarefulInv, CallsInv', TrackInv', NEW x \in Thread, NEW l, GoTo(x, l),
         UNCHANGED <<pointer, copy, block>>, Operable(x), PlaceInv(x), x \in App \/ x \in Copy,
         l \in {"fill", "store", "submit", "back", "find"}, Staged(x),
         pc[x] \in {"register", "fill", "store", "submit", "wait", "back"},
         x \in Copy => l # "store" /\ (l \in Staging <=> pc[x] \in Staging)
  PROVE  PlaceInv(x)' /\ pc'[x] = l
  <1>1. /\ Operable(x)'
        /\ Staged(x)' <=> Staged(x)
    BY CopyGoesOn
  <1>2. pc'[x] = l
    BY GoesOnBase
  <1>3. x \in App => Current(x)' = Current(x) /\ x \notin Copy
    BY Partition DEF GoTo, Current
  <1>0. Operable(x)' /\ Staged(x)' /\ pc'[x] \in Temporary => block'[x] # Junk
    BY <1>1 DEF PlaceInv, Temporary
  <1>4. CASE x \in App
    <2>1. Current(x)'.op = "memcpy"
      BY <1>3, <1>4 DEF Operable
    <2>2. l \notin LifeLabels
      BY DEF LifeLabels, InitLabels, FinalLabels, GroupLabels
    <2>3. QED
      BY <1>0, <1>1, <1>2, <1>3, <1>4, <2>1, <2>2 DEF PlaceInv
  <1>5. CASE x \in Copy
    BY <1>0, <1>1, <1>2, <1>5, Partition DEF PlaceInv, Staging, AfterStaging
  <1>6. QED
    BY <1>2, <1>4, <1>5

LEMMA RegisterKeeps ==
  ASSUME CarefulInv, CallsInv', TrackInv', NEW x \in Thread, Register(x)
  PROVE  CarefulInv'
  <1>1. /\ pc[x] = "register"
        /\ UNCHANGED <<engine, signal, identityCopy, overlapped, copy, early, mem>>
    BY DEF Register, copyVars, ghostVars
  <1>2. CASE x \in App /\ Current(x).op = "malloc"
    <2>1. Return(x) /\ block' = [block EXCEPT ![x] = Junk] /\ calls[x] # <<>>
      BY <1>1, <1>2 DEF Register, CarefulInv, CopyBase, CallsInv
    <2>2. StepBase
      BY <1>2, <2>1, StepAllocates DEF CarefulInv
    <2>3. \A y \in Thread \ {x} : block'[y] = block[y]
      BY <2>1 DEF CarefulInv, CopyBase, TrackInv, TrackTypes
    <2>4. pc'[x] = "idle" /\ \A y \in Thread \ {x} : Untouched(y)
      BY <1>1, <1>2, <2>1, <2>3, OthersUntouched DEF Return, Untouched, CarefulInv, CopyBase, CallsInv
    <2>5. PlaceInv(x)' /\ CarriedInv(x)'
      BY <1>2, <2>4, AtRest
    <2>6. CopyInv'
      BY <1>1, <1>2, <2>2, <2>4, <2>5, CallMoves DEF CarefulInv
    <2>7. QED
      BY <2>2, <2>6, CarefulStays
  <1>3. CASE ~(x \in App /\ Current(x).op = "malloc")
    <2>1. GoTo(x, "fill") /\ UNCHANGED <<pointer, block>>
      BY <1>3 DEF Register
    <2>2. Operable(x) /\ PlaceInv(x) /\ (x \in App \/ x \in Copy)
      BY <1>1, <1>3, WorksOn DEF PlaceInv
    <2>3. Staged(x)
      BY <1>1, <2>2, Partition DEF PlaceInv, Operable
    <2>4. "fill" \in Staging /\ pc[x] \in Staging
      BY <1>1 DEF Staging
    <2>5. PlaceInv(x)' /\ pc'[x] = "fill"
      BY <1>1, <2>1, <2>2, <2>3, <2>4, PlaceGoesOn
    <2>6. CarriedInv(x)'
      BY <2>5 DEF CarriedInv, Filled, Moved, Through, Over
    <2>7. CopyTypes' /\ Spares(x)
      BY <1>1, SparesSame DEF CarefulInv, CopyInv, CopyTypes
    <2>8. QED
      BY <1>1, <2>1, <2>4, <2>5, <2>6, <2>7, MovesOn
  <1>4. QED
    BY <1>2, <1>3

\* The wait is over: the engine has done the copy.
LEMMA WaitKeeps ==
  ASSUME CarefulInv, CallsInv', TrackInv', NEW x \in Thread, Wait(x)
  PROVE  CarefulInv'
  <1> DEFINE l == IF Staged(x) THEN "back" ELSE "return"
  <1>1. /\ GoTo(x, l) /\ pc[x] = "wait"
        /\ IF x \in App THEN identityCopy = 0 ELSE signal[SignalOf(x)] = 1
        /\ UNCHANGED <<engine, signal, identityCopy, overlapped, copy, early, mem>>
        /\ UNCHANGED <<pointer, block>>
    BY DEF Wait, dataVars, trackVars, copyVars, ghostVars
  <1>2. /\ Operable(x) /\ PlaceInv(x) /\ (x \in App \/ x \in Copy)
        /\ x \in App => x \notin Copy
    BY <1>1, WorksOn
  <1>3. l \in {"back", "return"} /\ (l = "back" <=> Staged(x))
    OBVIOUS
  <1> HIDE DEF l
  <1>4. ~overlapped \/ x \in Copy => ~InEngine(x)
    <2>1. CASE x \in App
      BY <1>1, <1>2, <2>1 DEF CarefulInv, CopyInv, IdentityUsed
    <2>2. CASE x \in Copy
      <3>1. /\ signal[SignalOf(x)] = 1 /\ SignalOf(x) \in Signal
            /\ Cardinality(EngineShare(SignalOf(x))) + Cardinality(ThreadShare(SignalOf(x))) = 1
        BY <1>1, <2>2, Partition DEF CarefulInv, CopyInv, SharesCounted, SignalOf, Signal
      <3>2. x \in ThreadShare(SignalOf(x))
        BY <1>1, <2>2 DEF ThreadShare
      <3>3. \A s : IsFiniteSet(EngineShare(s)) /\ IsFiniteSet(ThreadShare(s))
        <4>1. \A s : EngineShare(s) \subseteq Copy /\ ThreadShare(s) \subseteq Copy
          BY DEF EngineShare, ThreadShare
        <4>2. QED
          BY <4>1, FS_Subset, DataAssumption
      <3>4. Cardinality(ThreadShare(SignalOf(x))) # 0
        BY <3>2, <3>3, FS_EmptySet
      <3>5. /\ Cardinality(EngineShare(SignalOf(x))) \in Nat
            /\ Cardinality(ThreadShare(SignalOf(x))) \in Nat
        BY <3>3, FS_CardinalityType
      <3>6. Cardinality(EngineShare(SignalOf(x))) = 0
        BY <3>1, <3>4, <3>5
      <3>7. EngineShare(SignalOf(x)) = {}
        BY <3>3, <3>6, FS_EmptySet
      <3>8. QED
        BY <2>2, <3>7 DEF EngineShare
    <2>3. QED
      BY <1>2, <2>1, <2>2
  <1>5. x \in Copy => Staged(x)
    BY <1>1, <1>2 DEF PlaceInv
  <1>6. /\ Operable(x)' /\ pc'[x] = l
        /\ To(x)' = To(x) /\ From(x)' = From(x)
        /\ D2H(x)' <=> D2H(x)
        /\ H2D(x)' <=> H2D(x)
        /\ Staged(x)' <=> Staged(x)
    BY <1>1, <1>2, <1>3, CopyGoesOn, GoesOnBase
  <1>7. PlaceInv(x)'
    <2>1. CASE Staged(x)
      <3>1. l = "back" /\ (x \in Copy => (l \in Staging <=> pc[x] \in Staging))
        BY <1>1, <1>3, <2>1 DEF Staging
      <3>2. QED
        BY <1>1, <1>2, <2>1, <3>1, PlaceGoesOn
    <2>2. CASE ~Staged(x)
      <3>1. x \in App /\ x \notin Copy /\ l = "return"
        BY <1>2, <1>3, <1>5, <2>2
      <3>2. QED
        BY <1>6, <3>1 DEF PlaceInv, Temporary, LifeLabels, InitLabels, FinalLabels, GroupLabels
    <2>3. QED
      BY <2>1, <2>2
  <1>8. ~overlapped /\ x \notin early => CarriedInv(x)'
    <2>1. SUFFICES ASSUME ~overlapped, x \notin early PROVE CarriedInv(x)'
      OBVIOUS
    <2>2. Moved(x)
      BY <1>1, <1>4, <2>1 DEF Moved
    <2>3. mem[IF D2H(x) THEN block[x] ELSE To(x)] = mem[From(x)]
      BY <1>1, <1>2, <2>1, <2>2, WorksOn
    <2>4. ~Filled(x)' /\ (Through(x)' => ~D2H(x))
      <3>1. l = "return" => ~D2H(x)
        BY <1>3 DEF Staged
      <3>2. ~(x \in Copy /\ Over(x)')
        BY <1>3, <1>6 DEF Over
      <3>3. QED
        BY <1>3, <1>6, <3>1, <3>2 DEF Filled, Through
    <2>5. QED
      BY <1>1, <1>6, <2>3, <2>4 DEF CarriedInv
  <1>9. CopyTypes' /\ Spares(x)
    BY <1>1, SparesSame DEF CarefulInv, CopyInv, CopyTypes
  <1>10. x \in Copy => (l \in Staging <=> pc[x] \in Staging) /\ pc[x] # "idle"
    BY <1>1, <1>3 DEF Staging
  <1>11. StepBase /\ \A y \in Thread \ {x} : Untouched(y)
    BY <1>1, GoesOnBase
  <1>12. NoCommand(x)
    <2>1. CASE x \in App
      BY <1>1, <2>1, NotWithEngine DEF CarefulInv, CopyInv
    <2>2. CASE x \in Copy
      BY <1>4, <2>2 DEF NoCommand, InEngine
    <2>3. QED
      BY <1>2, <2>1, <2>2
  <1>13. CopyInv'
    BY <1>1, <1>3, <1>6, <1>7, <1>8, <1>9, <1>10, <1>11, <1>12, ThreadMoves DEF CarefulInv
  <1>14. QED
    BY <1>11, <1>13, CarefulStays

LEMMA CompletedIsOver ==
  ASSUME PlacesKept, NEW u \in Copy, copy[u] = "completed"
  PROVE  Over(u)
  <1>1. PlaceInv(u) /\ \A c \in engine : CommandInv(c)
    BY Partition DEF PlacesKept
  <1>2. pc[u] = "idle"
    BY <1>1 DEF PlaceInv
  <1>3. ~InEngine(u)
    BY <1>1 DEF InEngine, CommandInv
  <1>4. QED
    BY <1>2, <1>3 DEF Over

\* A thread that moves data writes nothing of its own by mistake.
LEMMA OwnPlaces ==
  ASSUME CopyBase, NEW x \in Thread, Operable(x)
  PROVE  /\ To(x) \in Memory /\ From(x) \in Memory
         /\ block[x] # Junk => block[x] \in Memory /\ block[x] # From(x) /\ block[x] # To(x)
         /\ Staged(x) => To(x) # From(x)
  BY OperandsAreThere, TempsApart DEF AllThere, OperandsThere, Memory, Staged, H2D, D2H

LEMMA FillKeeps ==
  ASSUME CarefulInv, CallsInv', TrackInv', NEW x \in Thread, Fill(x)
  PROVE  CarefulInv'
  <1> DEFINE l == IF x \in App THEN "store" ELSE "submit"
  <1>1. /\ GoTo(x, l) /\ pc[x] = "fill"
        /\ UNCHANGED <<engine, signal, identityCopy, overlapped, copy, pointer, block>>
    BY DEF Fill, trackVars, copyVars
  <1>2. /\ Operable(x) /\ PlaceInv(x) /\ (x \in App \/ x \in Copy)
        /\ x \in App => x \notin Copy
    BY <1>1, WorksOn
  <1>3. Staged(x) /\ block[x] # Junk
    BY <1>1, <1>2 DEF PlaceInv, Operable, Temporary
  <1>4. /\ x \in App => l = "store"
        /\ x \in Copy => l = "submit" /\ l \in Staging /\ pc[x] \in Staging
        /\ l \in {"store", "submit"}
    BY <1>1, <1>2 DEF Staging
  <1>5. early' = IF x \in Copy /\ H2D(x) /\ \E t \in Requires[x] : copy[t] # "completed"
                 THEN early \cup {x} ELSE early
    BY DEF Fill
  <1>6. \/ H2D(x) /\ mem' = [mem EXCEPT ![block[x]] = mem[From(x)]]
        \/ ~H2D(x) /\ mem' = mem
    BY DEF Fill
  <1> HIDE DEF l
  <1>7. PlaceInv(x)' /\ pc'[x] = l
    BY <1>1, <1>2, <1>3, <1>4, PlaceGoesOn
  <1>8. /\ Operable(x)' /\ From(x)' = From(x)
        /\ H2D(x)' <=> H2D(x)
    BY <1>1, <1>2, <1>4, CopyGoesOn
  <1>9. CopyTypes /\ PlacesKept /\ ContentsInv /\ CopyBase /\ Careful(program)
    BY DEF CarefulInv, CopyInv
  <1>10. /\ To(x) \in Memory /\ From(x) \in Memory
         /\ block[x] \in Memory /\ block[x] # From(x)
    BY <1>2, <1>3, <1>9, OwnPlaces
  <1>11. CopyTypes'
    BY <1>1, <1>5, <1>6, <1>9, <1>10 DEF CopyTypes
  <1>12. Spares(x)
    <2>1. CASE mem' = mem
      BY <2>1, SparesSame
    <2>2. CASE mem' = [mem EXCEPT ![block[x]] = mem[From(x)]]
      <3>1. x \in Copy => ~Over(x)
        BY <1>1 DEF Over
      <3>2. QED
        BY <1>2, <1>3, <1>9, <2>2, <3>1, WriteSpares
    <2>3. QED
      BY <1>6, <2>1, <2>2
  <1>13. CarriedInv(x)'
    <2>1. H2D(x) => mem'[block[x]] = mem'[From(x)]
      BY <1>6, <1>9, <1>10 DEF CopyTypes
    <2>2. QED
      BY <1>1, <1>4, <1>7, <1>8, <2>1 DEF CarriedInv, Filled, Moved, Through, Over
  <1>14. x \in Copy => RequiredInv(x)'
    <2>1. SUFFICES ASSUME x \in Copy PROVE RequiredInv(x)'
      OBVIOUS
    <2>2. RequiredInv(x) /\ copy[x] = "staging" /\ program' = program
      BY <1>1, <1>2, <1>4, <1>9, <2>1 DEF ContentsInv, PlaceInv, GoTo
    <2>3. ASSUME NEW u \in Requires[x], HasRead(x)', x \notin early' PROVE Over(u)'
      <3>1. H2D(x)
        BY <1>1, <1>8, <2>2, <2>3 DEF HasRead
      <3>2. copy[u] = "completed" /\ u \in Copy
        BY <1>5, <2>1, <2>3, <3>1, DataAssumption
      <3>3. Over(u) /\ u # x
        BY <1>9, <2>2, <3>2, CompletedIsOver
      <3>4. pc'[u] = pc[u]
        BY <1>1, <3>2, <3>3, OthersUntouched, Partition DEF CopyBase, CallsInv, CarefulInv
      <3>5. QED
        BY <1>1, <3>3, <3>4 DEF Over, InEngine
    <2>4. QED
      BY <1>1, <2>2, <2>3 DEF RequiredInv
  <1>15. early \subseteq early'
    BY <1>5
  <1>16. QED
    BY <1>1, <1>2, <1>4, <1>7, <1>11, <1>12, <1>13, <1>14, <1>15, MovesOn

LEMMA BackKeeps ==
  ASSUME CarefulInv, CallsInv', TrackInv', NEW x \in Thread, Back(x)
  PROVE  CarefulInv'
  <1>1. /\ GoTo(x, "find") /\ pc[x] = "back"
        /\ UNCHANGED <<engine, signal, identityCopy, overlapped, copy, pointer, block, early>>
    BY DEF Back, trackVars, copyVars, ghostVars
  <1>2. /\ Operable(x) /\ PlaceInv(x) /\ (x \in App \/ x \in Copy)
        /\ x \in App => x \notin Copy
    BY <1>1, WorksOn
  <1>3. Staged(x) /\ block[x] # Junk
    BY <1>1, <1>2 DEF PlaceInv, Operable, Temporary
  <1>4. \/ D2H(x) /\ mem' = [mem EXCEPT ![To(x)] = mem[block[x]]]
        \/ ~D2H(x) /\ mem' = mem
    BY DEF Back
  <1>5. "find" \notin Staging /\ pc[x] \notin Staging
    BY <1>1 DEF Staging
  <1>6. PlaceInv(x)' /\ pc'[x] = "find"
    BY <1>1, <1>2, <1>3, <1>5, PlaceGoesOn
  <1>7. /\ Operable(x)' /\ From(x)' = From(x) /\ To(x)' = To(x)
    BY <1>1, <1>2, CopyGoesOn
  <1>8. CopyTypes /\ PlacesKept /\ ContentsInv /\ CopyBase /\ Careful(program)
    BY DEF CarefulInv, CopyInv
  <1>9. /\ To(x) \in Memory /\ From(x) \in Memory /\ To(x) # From(x)
        /\ block[x] \in Memory
    BY <1>2, <1>3, <1>8, OwnPlaces
  <1>10. CopyTypes'
    BY <1>1, <1>4, <1>8, <1>9 DEF CopyTypes
  <1>11. Spares(x)
    <2>1. CASE mem' = mem
      BY <2>1, SparesSame
    <2>2. CASE mem' = [mem EXCEPT ![To(x)] = mem[block[x]]]
      <3>1. x \in Copy => ~Over(x)
        BY <1>1 DEF Over
      <3>2. QED
        BY <1>2, <1>8, <2>2, <3>1, WriteSpares
    <2>3. QED
      BY <1>4, <2>1, <2>2
  <1>12. ~overlapped /\ x \notin early => CarriedInv(x)'
    <2>1. SUFFICES ASSUME ~overlapped, x \notin early PROVE CarriedInv(x)'
      OBVIOUS
    <2>2. mem[IF D2H(x) THEN block[x] ELSE To(x)] = mem[From(x)]
      BY <1>1, <1>2, <2>1, WorksOn DEF Moved
    <2>3. mem'[To(x)] = mem'[From(x)]
      BY <1>4, <1>8, <1>9, <2>2 DEF CopyTypes
    <2>4. QED
      BY <1>6, <1>7, <2>3 DEF CarriedInv, Filled, Moved
  <1>13. QED
    BY <1>1, <1>2, <1>5, <1>6, <1>10, <1>11, <1>12, MovesOn

LEMMA StoreKeeps ==
  ASSUME CarefulInv, CallsInv', TrackInv', NEW a \in App, Store(a)
  PROVE  CarefulInv'
  <1>1. /\ GoTo(a, "submit") /\ pc[a] = "store" /\ a \in Thread /\ a \notin Copy
        /\ UNCHANGED <<engine, signal, copy, pointer, block, early, mem>>
        /\ identityCopy' = 1
        /\ overlapped' = (overlapped \/ \E b \in App \ {a} : UsesIdentity(b))
    BY Partition DEF Store, trackVars
  <1>2. Operable(a) /\ PlaceInv(a)
    BY <1>1, WorksOn
  <1>3. /\ StepBase /\ pc'[a] = "submit" /\ \A y \in Thread \ {a} : Untouched(y)
        /\ Current(a)' = Current(a)
    BY <1>1, GoesOnBase
  <1>4. /\ Operable(a)'
        /\ To(a)' = To(a) /\ From(a)' = From(a)
        /\ H2D(a)' <=> H2D(a)
        /\ Staged(a)' <=> Staged(a)
    BY <1>1, <1>2, CopyGoesOn
  <1>5. PlaceInv(a)'
    BY <1>1, <1>2, <1>3, <1>4
       DEF PlaceInv, LifeLabels, InitLabels, FinalLabels, GroupLabels, Temporary, Operable
  <1>6. CopyTypes /\ PlacesKept /\ SharesCounted /\ IdentityUsed /\ ContentsInv
    BY DEF CarefulInv, CopyInv
  <1>7. overlapped \in BOOLEAN /\ overlapped' \in BOOLEAN /\ (overlapped => overlapped')
    BY <1>1, <1>6 DEF CopyTypes
  <1>8. CopyTypes'
    BY <1>1, <1>6, <1>7 DEF CopyTypes
  <1>9. \A y : InEngine(y)' <=> InEngine(y)
    BY <1>1 DEF InEngine
  <1>10. PlacesKept'
    <2>1. ASSUME NEW c \in engine, c.of = a PROVE CommandInv(c)'
      <3>1. CommandInv(c) /\ overlapped /\ c.of \notin Copy
        BY <1>1, <1>6, <2>1, NotWithEngine DEF PlacesKept, NoCommand
      <3>2. QED
        BY <1>7, <3>1 DEF CommandInv, Memory
    <2>2. \A c \in engine' : (c \in engine /\ c.of # a) \/ CommandInv(c)'
      BY <1>1, <2>1
    <2>3. QED
      BY <1>3, <1>5, <1>6, <1>7, <2>2, PlacesStep
  <1>11. SharesCounted'
    BY <1>1, <1>3, <1>6, <1>9, SharesStep
  <1>12. IdentityUsed'
    <2>1. SUFFICES ASSUME ~overlapped' PROVE IdentityUsed'
      BY DEF IdentityUsed
    <2>2. \A b \in App \ {a} : ~UsesIdentity(b)
      BY <1>1, <2>1
    <2>3. \A b \in App \ {a} : pc'[b] \notin {"submit", "wait"}
      BY <1>3, <2>2, Partition DEF UsesIdentity, Untouched
    <2>4. QED
      BY <1>1, <1>3, <2>3 DEF IdentityUsed, UsesIdentity
  <1>13. ContentsInv'
    <2>1. ~overlapped' /\ a \notin early' => CarriedInv(a)'
      <3>1. SUFFICES ASSUME ~overlapped, a \notin early PROVE CarriedInv(a)'
        BY <1>1, <1>7
      <3>2. H2D(a) => mem[block[a]] = mem[From(a)]
        BY <1>1, <1>2, <3>1, WorksOn DEF Filled
      <3>3. QED
        BY <1>1, <1>3, <1>4, <3>2 DEF CarriedInv, Filled, Moved, Through
    <2>2. Spares(a)
      BY <1>1, SparesSame
    <2>3. QED
      BY <1>1, <1>3, <1>6, <1>7, <1>9, <2>1, <2>2, ContentsStep
  <1>14. CopyInv'
    BY <1>8, <1>10, <1>11, <1>12, <1>13 DEF CopyInv
  <1>15. QED
    BY <1>3, <1>14, CarefulStays

-------------------------------------------------------------------------------
(* The steps that change the signals or what the engine has.                 *)
One(b) == IF b THEN 1 ELSE 0

LEMMA CountWithout ==
  ASSUME NEW S, IsFiniteSet(S), NEW t
  PROVE  Cardinality(S) = Cardinality(S \ {t}) + One(t \in S) /\ Cardinality(S \ {t}) \in Nat
         /\ IsFiniteSet(S \ {t})
  <1>1. IsFiniteSet(S \ {t}) /\ Cardinality(S \ {t}) \in Nat /\ Cardinality(S) \in Nat
    BY FS_Subset, FS_CardinalityType
  <1>2. CASE t \in S
    <2>1. Cardinality(S \ {t}) = Cardinality(S) - 1
      BY <1>2, FS_RemoveElement
    <2>2. QED
      BY <1>1, <1>2, <2>1 DEF One
  <1>3. CASE t \notin S
    <2>1. S \ {t} = S
      BY <1>3
    <2>2. QED
      BY <1>1, <1>3, <2>1 DEF One
  <1>4. QED
    BY <1>2, <1>3

LEMMA SharesFinite ==
  ASSUME NEW s
  PROVE  /\ IsFiniteSet(EngineShare(s)) /\ IsFiniteSet(ThreadShare(s))
         /\ IsFiniteSet(EngineShare(s)') /\ IsFiniteSet(ThreadShare(s)')
         /\ Cardinality(EngineShare(s)) \in Nat /\ Cardinality(ThreadShare(s)) \in Nat
  <1>1. /\ EngineShare(s) \subseteq Copy /\ ThreadShare(s) \subseteq Copy
        /\ EngineShare(s)' \subseteq Copy /\ ThreadShare(s)' \subseteq Copy
    BY DEF EngineShare, ThreadShare
  <1>2. QED
    BY <1>1, FS_Subset, FS_CardinalityType, DataAssumption

\* The copies that a signal of value 0 has are over.
LEMMA NothingLeft ==
  ASSUME SharesCounted, NEW t \in Copy, signal[SignalOf(t)] = 0
  PROVE  pc[t] = "idle" /\ ~InEngine(t)
  <1> DEFINE s == SignalOf(t)
  <1>1. s \in Signal
    BY DEF SignalOf, Signal
  <1>2. Cardinality(EngineShare(s)) + Cardinality(ThreadShare(s)) = 0
    BY <1>1 DEF SharesCounted
  <1>3. Cardinality(EngineShare(s)) = 0 /\ Cardinality(ThreadShare(s)) = 0
    BY <1>2, SharesFinite
  <1>4. EngineShare(s) = {} /\ ThreadShare(s) = {}
    BY <1>3, SharesFinite, FS_EmptySet
  <1>5. QED
    BY <1>4 DEF EngineShare, ThreadShare

\* A step that changes the share of copy t, and the signal with it.
LEMMA SharesChange ==
  ASSUME SharesCounted, signal \in [Signal -> Nat], NEW t \in Copy, NEW n \in Int,
         \A u \in Copy \ {t} : Untouched(u) /\ (InEngine(u)' <=> InEngine(u)),
         signal' = [signal EXCEPT ![SignalOf(t)] = signal[SignalOf(t)] + n],
         One(pc[t] \in Staging \/ InEngine(t)) + One(pc[t] # "idle") + n
           = One(pc'[t] \in Staging \/ InEngine(t)') + One(pc'[t] # "idle")
  PROVE  SharesCounted' /\ signal' \in [Signal -> Nat]
  <1> DEFINE g == SignalOf(t)
  <1>1. g \in Signal
    BY DEF SignalOf, Signal
  <1>2. ASSUME NEW s PROVE /\ EngineShare(s)' \ {t} = EngineShare(s) \ {t}
                           /\ ThreadShare(s)' \ {t} = ThreadShare(s) \ {t}
    BY DEF EngineShare, ThreadShare, Untouched, SignalOf
  <1>3. ASSUME NEW s, s = g
        PROVE  /\ t \in EngineShare(s) <=> pc[t] \in Staging \/ InEngine(t)
               /\ t \in ThreadShare(s) <=> pc[t] # "idle"
               /\ t \in EngineShare(s)' <=> pc'[t] \in Staging \/ InEngine(t)'
               /\ t \in ThreadShare(s)' <=> pc'[t] # "idle"
    BY <1>3 DEF EngineShare, ThreadShare, SignalOf
  <1>4. ASSUME NEW s \in Signal
        PROVE  signal'[s] = Cardinality(EngineShare(s)') + Cardinality(ThreadShare(s)')
               /\ signal'[s] \in Nat
    <2>1. CASE s = g
      <3> DEFINE E == Cardinality(EngineShare(s) \ {t})
                 T == Cardinality(ThreadShare(s) \ {t})
      <3>1. /\ Cardinality(EngineShare(s)) = E + One(t \in EngineShare(s)) /\ E \in Nat
            /\ Cardinality(ThreadShare(s)) = T + One(t \in ThreadShare(s)) /\ T \in Nat
        BY SharesFinite, CountWithout
      <3>2. /\ Cardinality(EngineShare(s)') = E + One(t \in EngineShare(s)')
            /\ Cardinality(ThreadShare(s)') = T + One(t \in ThreadShare(s)')
        <4>1. /\ IsFiniteSet(EngineShare(s)') /\ IsFiniteSet(ThreadShare(s)')
              /\ EngineShare(s)' \ {t} = EngineShare(s) \ {t}
              /\ ThreadShare(s)' \ {t} = ThreadShare(s) \ {t}
          BY <1>2, SharesFinite
        <4>2. QED
          BY <4>1, CountWithout
      <3>3. signal[s] = Cardinality(EngineShare(s)) + Cardinality(ThreadShare(s))
        BY DEF SharesCounted
      <3>4. signal'[s] = signal[s] + n
        BY <1>1, <2>1
      <3> HIDE DEF E, T, g
      <3>5. /\ One(t \in EngineShare(s)) + One(t \in ThreadShare(s)) + n
                 = One(t \in EngineShare(s)') + One(t \in ThreadShare(s)')
            /\ One(t \in EngineShare(s)) \in Nat /\ One(t \in ThreadShare(s)) \in Nat
            /\ One(t \in EngineShare(s)') \in Nat /\ One(t \in ThreadShare(s)') \in Nat
        <4>1. /\ One(t \in EngineShare(s)) = One(pc[t] \in Staging \/ InEngine(t))
              /\ One(t \in ThreadShare(s)) = One(pc[t] # "idle")
          BY <1>3, <2>1 DEF One
        <4>2. /\ One(t \in EngineShare(s)') = One(pc'[t] \in Staging \/ InEngine(t)')
              /\ One(t \in ThreadShare(s)') = One(pc'[t] # "idle")
          BY <1>3, <2>1 DEF One
        <4>3. QED
          BY <4>1, <4>2 DEF One
      <3>6. \A i, j, k, l \in Nat : (i + j) + n = k + l =>
              /\ ((E + i) + (T + j)) + n = (E + k) + (T + l)
              /\ (E + k) + (T + l) \in Nat
        <4>1. E \in Nat /\ T \in Nat
          BY <3>1
        <4>2. QED
          BY <4>1
      <3>7. /\ ((E + One(t \in EngineShare(s))) + (T + One(t \in ThreadShare(s)))) + n
                 = (E + One(t \in EngineShare(s)')) + (T + One(t \in ThreadShare(s)'))
            /\ (E + One(t \in EngineShare(s)')) + (T + One(t \in ThreadShare(s)')) \in Nat
        BY <3>5, <3>6, Zenon
      <3>8. QED
        BY <3>1, <3>2, <3>3, <3>4, <3>7, Zenon
    <2>2. CASE s # g
      <3>1. t \notin EngineShare(s) /\ t \notin ThreadShare(s)
            /\ t \notin EngineShare(s)' /\ t \notin ThreadShare(s)'
        BY <2>2 DEF EngineShare, ThreadShare, SignalOf
      <3>2. EngineShare(s)' = EngineShare(s) /\ ThreadShare(s)' = ThreadShare(s)
        BY <1>2, <3>1
      <3>3. signal'[s] = signal[s]
        BY <2>2
      <3>4. QED
        BY <3>2, <3>3 DEF SharesCounted
    <2>3. QED
      BY <2>1, <2>2
  <1>5. SharesCounted'
    BY <1>4 DEF SharesCounted
  <1>6. QED
    BY <1>4, <1>5

LEMMA CommandPlaces ==
  ASSUME CopyBase, NEW x \in Thread, Operable(x), Staged(x) => block[x] # Junk
  PROVE  Command(x).from \in Memory /\ Command(x).to \in Memory /\ Command(x).of = x
  BY OwnPlaces DEF Command, Staged

LEMMA SubmitKeeps ==
  ASSUME CarefulInv, CallsInv', TrackInv', NEW x \in Thread, Submit(x)
  PROVE  CarefulInv'
  <1>1. /\ GoTo(x, "wait") /\ pc[x] = "submit"
        /\ engine' = engine \cup {Command(x)}
        /\ copy' = IF x \in Copy THEN [copy EXCEPT ![x] = "dispatched"] ELSE copy
        /\ UNCHANGED <<pointer, block, identityCopy, overlapped, early, mem, signal>>
    BY DEF Submit, trackVars, ghostVars
  <1>2. /\ Operable(x) /\ PlaceInv(x) /\ (x \in App \/ x \in Copy)
        /\ x \in App => x \notin Copy
    BY <1>1, WorksOn
  <1>3. CopyTypes /\ PlacesKept /\ SharesCounted /\ IdentityUsed /\ ContentsInv /\ CopyBase
    BY DEF CarefulInv, CopyInv
  <1>4. /\ \A t \in Copy \ {x} : copy'[t] = copy[t]
        /\ x \in Copy => copy[x] = "staging" /\ copy'[x] = "dispatched" /\ Staged(x)
        /\ x \in App => copy' = copy
    BY <1>1, <1>2, <1>3 DEF CopyTypes, PlaceInv, Staging
  <1>5. StepBase
    BY <1>1, <1>4, StepStays DEF CarefulInv, GoTo
  <1>6. pc'[x] = "wait" /\ \A y \in Thread \ {x} : Untouched(y)
    BY <1>1, <1>4, OthersUntouched DEF GoTo, Untouched, CarefulInv, CopyBase, CallsInv
  <1>7. Operable(x)' /\ (x \in App => calls'[x] = calls[x] /\ Current(x)' = Current(x))
    BY <1>1, <1>2, <1>4, <1>6 DEF Operable, GoTo, Current
  <1>8. /\ To(x)' = To(x) /\ From(x)' = From(x)
        /\ H2D(x)' <=> H2D(x)
        /\ D2H(x)' <=> D2H(x)
        /\ Staged(x)' <=> Staged(x)
    BY <1>2, <1>5, <1>7, SameOperands
  <1>9. Command(x)' = Command(x)
    BY <1>1, <1>2, <1>5, <1>7, SameCommand
  <1>10. PlaceInv(x)'
    <2>1. Operable(x)' /\ Staged(x)' /\ pc'[x] \in Temporary => block'[x] # Junk
      BY <1>1, <1>2, <1>8 DEF PlaceInv, Temporary
    <2>2. CASE x \in App
      <3>1. Current(x)'.op = "memcpy" /\ x \notin Copy
        BY <1>2, <1>7, <2>2 DEF Operable
      <3>2. QED
        BY <1>6, <2>1, <2>2, <3>1 DEF PlaceInv, LifeLabels, InitLabels, FinalLabels, GroupLabels
    <2>3. CASE x \in Copy
      BY <1>4, <1>6, <1>8, <2>1, <2>3, Partition DEF PlaceInv, Staging, AfterStaging
    <2>4. QED
      BY <1>2, <2>2, <2>3
  <1>11. Command(x).from \in Memory /\ Command(x).to \in Memory /\ Command(x).of = x
    <2>1. Staged(x) => block[x] # Junk
      BY <1>1, <1>2 DEF PlaceInv, Temporary
    <2>2. QED
      BY <1>2, <1>3, <2>1, CommandPlaces
  <1>12. NoCommand(x)
    BY <1>1, <1>3, NotWithEngine
  <1>13. /\ InEngine(x)' /\ \A y \in Thread \ {x} : InEngine(y)' <=> InEngine(y)
    BY <1>1, <1>11 DEF InEngine
  <1>14. PlacesKept'
    <2>1. ASSUME NEW c \in engine', c.of = x PROVE CommandInv(c)'
      <3>1. CASE c = Command(x)
        <4>1. c = Command(c.of)' /\ c.of \in Thread /\ c.from \in Memory /\ c.to \in Memory
          BY <1>9, <1>11, <2>1, <3>1
        <4>2. QED
          BY <1>4, <1>6, <1>8, <2>1, <4>1 DEF CommandInv, Memory
      <3>2. CASE c \in engine
        <4>1. CommandInv(c) /\ c.of \in App /\ overlapped /\ c.of \notin Copy
          BY <1>2, <1>3, <1>12, <2>1, <3>2 DEF PlacesKept, NoCommand
        <4>2. QED
          BY <1>1, <4>1 DEF CommandInv, Memory
      <3>3. QED
        BY <1>1, <2>1, <3>1, <3>2
    <2>2. \A c \in engine' : (c \in engine /\ c.of # x) \/ CommandInv(c)'
      BY <1>1, <1>11, <2>1
    <2>3. QED
      BY <1>1, <1>3, <1>5, <1>6, <1>10, <2>2, PlacesStep
  <1>15. SharesCounted'
    <2>1. x \in Copy => /\ pc'[x] \in Staging \/ InEngine(x)' <=> pc[x] \in Staging \/ InEngine(x)
                        /\ pc'[x] = "idle" <=> pc[x] = "idle"
      BY <1>1, <1>6, <1>13 DEF Staging
    <2>2. QED
      BY <1>1, <1>3, <1>6, <1>13, <2>1, SharesStep
  <1>16. IdentityUsed'
    <2>1. SUFFICES ASSUME ~overlapped PROVE IdentityUsed'
      BY <1>1 DEF IdentityUsed
    <2>2. \A a \in App \ {x} : pc'[a] = pc[a] /\ (InEngine(a)' <=> InEngine(a))
      BY <1>6, <1>13, Partition DEF Untouched
    <2>3. CASE x \in App
      <3>1. identityCopy = 1 /\ \A a \in App \ {x} : ~UsesIdentity(a)
        BY <1>1, <1>3, <2>1, <2>3 DEF IdentityUsed, UsesIdentity
      <3>2. \A a \in App : UsesIdentity(a)' => a = x
        BY <2>2, <3>1 DEF UsesIdentity
      <3>3. QED
        BY <1>1, <1>6, <1>13, <3>1, <3>2 DEF IdentityUsed, UsesIdentity
    <2>4. CASE x \in Copy
      <3>1. \A y \in Thread \ {x} : Untouched(y) /\ (InEngine(y)' <=> InEngine(y))
        BY <1>6, <1>13
      <3>2. x \notin App
        BY <1>2, <2>4
      <3>3. QED
        BY <1>1, <1>3, <3>1, <3>2, IdentityStep
    <2>5. QED
      BY <1>2, <2>3, <2>4
  <1>17. x \in Copy => GoesOn(x) /\ RequiredInv(x)'
    <2>1. SUFFICES ASSUME x \in Copy PROVE GoesOn(x) /\ RequiredInv(x)'
      OBVIOUS
    <2>2. GoesOn(x)
      BY <1>1, <1>4, <2>1 DEF GoesOn, Over
    <2>3. \A u \in Copy : GoesOn(u)
      BY <1>6, <1>13, <2>2, UntouchedGoesOn, Partition
    <2>4. HasRead(x)' => HasRead(x)
      BY <1>1, <1>4, <1>8, <1>13, <2>1 DEF HasRead
    <2>5. RequiredInv(x) /\ program' = program
      BY <1>1, <1>3, <2>1 DEF ContentsInv, GoTo
    <2>6. RequiredInv(x)'
      BY <1>1, <1>4, <2>1, <2>3, <2>4, <2>5, RequiredKept, DataAssumption
    <2>7. QED
      BY <2>2, <2>6
  <1>18. ~overlapped' /\ x \notin early' => CarriedInv(x)'
    <2>1. SUFFICES ASSUME ~overlapped, x \notin early PROVE CarriedInv(x)'
      BY <1>1
    <2>2. H2D(x) => mem[block[x]] = mem[From(x)]
      BY <1>1, <1>2, <2>1, WorksOn DEF Filled
    <2>3. ~Moved(x)' /\ ~Through(x)'
      BY <1>6, <1>13 DEF Moved, Through, Over
    <2>4. QED
      BY <1>1, <1>8, <2>2, <2>3 DEF CarriedInv, Filled
  <1>19. Spares(x)
    BY <1>1, SparesSame
  <1>20. ContentsInv'
    BY <1>1, <1>3, <1>5, <1>6, <1>13, <1>17, <1>18, <1>19, ContentsStep
  <1>21. CopyTypes'
    BY <1>1, <1>3 DEF CopyTypes
  <1>22. CopyInv'
    BY <1>14, <1>15, <1>16, <1>20, <1>21 DEF CopyInv
  <1>23. QED
    BY <1>5, <1>22, CarefulStays

\* What the engine does for x.
LEMMA EngineCarries ==
  ASSUME CarefulInv, NEW c \in engine, EngineCopy(c), NEW x \in Thread, x = c.of,
         x \in Copy \/ ~overlapped
  PROVE  /\ c = Command(x) /\ Operable(x) /\ InEngine(x) /\ ~InEngine(x)'
         /\ pc[x] = IF x \in App \/ Staged(x) THEN "wait" ELSE "idle"
         /\ x \in Copy => copy[x] = "dispatched"
         /\ Staged(x) => block[x] # Junk
         /\ Command(x).to = To(x) \/ (Command(x).to = block[x] /\ D2H(x))
  <1>1. CopyTypes /\ PlacesKept /\ CopyBase
    BY DEF CarefulInv, CopyInv
  <1>2. Operable(x) /\ PlaceInv(x)
    BY <1>1, CommandIsOperable DEF PlacesKept
  <1>3. \A d \in engine : CommandInv(d)
    BY <1>1 DEF PlacesKept
  <1>4. \A d \in engine : d.of = x => d = Command(x)
    BY <1>3, Partition DEF CommandInv
  <1>5. /\ pc[x] = IF x \in App \/ Staged(x) THEN "wait" ELSE "idle"
        /\ x \in Copy => copy[x] = "dispatched"
    BY <1>3, Partition DEF CommandInv
  <1>6. InEngine(x) /\ ~InEngine(x)'
    <2>1. engine' = engine \ {c} /\ c = Command(x)
      BY <1>4 DEF EngineCopy
    <2>2. QED
      BY <1>4, <2>1 DEF InEngine
  <1>7. Staged(x) => block[x] # Junk
    BY <1>2, <1>5 DEF PlaceInv, Temporary
  <1>8. QED
    BY <1>2, <1>4, <1>5, <1>6, <1>7 DEF Command

LEMMA EngineKeeps ==
  ASSUME CarefulInv, CallsInv', TrackInv', NEW c \in engine, EngineCopy(c)
  PROVE  CarefulInv'
  <1> DEFINE x == c.of
  <1>1. /\ mem' = [mem EXCEPT ![c.to] = mem[c.from]]
        /\ engine' = engine \ {c}
        /\ UNCHANGED <<pointer, block, overlapped, early, copy, program, calls, pc>>
        /\ \A s \in c.after : signal[s] = 0
    BY DEF EngineCopy, trackVars, ghostVars, appVars
  <1>2. CopyTypes /\ PlacesKept /\ SharesCounted /\ IdentityUsed /\ ContentsInv /\ CopyBase
    BY DEF CarefulInv, CopyInv
  <1>3. CommandInv(c) /\ x \in Thread /\ PlaceInv(x) /\ c.from \in Memory /\ c.to \in Memory
    BY <1>2 DEF PlacesKept, CommandInv
  <1> HIDE DEF x
  <1>4. StepBase
    BY <1>1, StepStays DEF CarefulInv
  <1>5. \A y \in Thread : Untouched(y)
    BY <1>1 DEF Untouched
  <1>6. \A y \in Thread \ {x} : InEngine(y)' <=> InEngine(y)
    BY <1>1 DEF InEngine, x
  <1>7. PlacesKept'
    <2>1. ASSUME NEW d \in engine' PROVE CommandInv(d)'
      <3>1. d \in engine /\ Untouched(d.of)
        BY <1>1, <1>2, <1>5 DEF PlacesKept, CommandInv
      <3>2. QED
        BY <1>1, <1>2, <1>4, <3>1, UntouchedCommand
    <2>2. \A y \in Thread : PlaceInv(y)'
      BY <1>2, <1>4, <1>5, UntouchedPlace DEF PlacesKept
    <2>3. QED
      BY <2>1, <2>2 DEF PlacesKept
  <1>8. SharesCounted' /\ signal' \in [Signal -> Nat] /\ identityCopy' \in Int
    <2>1. CASE x \in App
      <3>1. signal' = signal /\ identityCopy' = identityCopy - 1 /\ x \notin Copy
        BY <2>1, Partition DEF EngineCopy, x
      <3>2. QED
        BY <1>2, <1>5, <1>6, <3>1, SharesStep DEF CopyTypes
    <2>2. CASE x \in Copy
      <3>1. /\ signal' = [signal EXCEPT ![SignalOf(x)] = signal[SignalOf(x)] - 1]
            /\ identityCopy' = identityCopy
        BY <2>2, Partition DEF EngineCopy, x
      <3>2. /\ InEngine(x) /\ ~InEngine(x)'
            /\ pc[x] \in {"wait", "idle"} /\ pc'[x] = pc[x]
        BY <1>1, <1>3, <2>2, EngineCarries DEF x
      <3>3. SignalOf(x) \in Signal
        BY <2>2 DEF SignalOf, Signal
      <3>4. signal[SignalOf(x)] - 1 = signal[SignalOf(x)] + (0 - 1)
        BY <1>2, <3>3 DEF CopyTypes
      <3>5. One(pc[x] \in Staging \/ InEngine(x)) + One(pc[x] # "idle") + (0 - 1)
              = One(pc'[x] \in Staging \/ InEngine(x)') + One(pc'[x] # "idle")
        BY <3>2 DEF One, Staging
      <3>6. /\ signal' = [signal EXCEPT ![SignalOf(x)] = signal[SignalOf(x)] + (0 - 1)]
            /\ 0 - 1 \in Int
        <4>1. 0 - 1 \in Int
          OBVIOUS
        <4>2. QED
          BY <3>1, <3>4, <4>1, Zenon
      <3>7. \A u \in Copy \ {x} : Untouched(u) /\ (InEngine(u)' <=> InEngine(u))
        BY <1>5, <1>6, Partition
      <3>8. SharesCounted' /\ signal' \in [Signal -> Nat]
        BY <1>2, <2>2, <3>5, <3>6, <3>7, SharesChange DEF CopyTypes
      <3>9. QED
        BY <1>2, <3>1, <3>8 DEF CopyTypes
    <2>3. QED
      BY <1>3, <2>1, <2>2, Partition
  <1>9. IdentityUsed'
    <2>1. SUFFICES ASSUME ~overlapped PROVE IdentityUsed'
      BY <1>1 DEF IdentityUsed
    <2>2. CASE x \in App
      <3>1. InEngine(x) /\ ~InEngine(x)' /\ pc[x] = "wait" /\ identityCopy' = identityCopy - 1
        BY <1>3, <2>1, <2>2, EngineCarries DEF EngineCopy, x
      <3>2. identityCopy = 1 /\ \A a \in App \ {x} : ~UsesIdentity(a)
        BY <1>2, <2>1, <2>2, <3>1 DEF IdentityUsed, UsesIdentity
      <3>3. identityCopy' = 0
        BY <3>1, <3>2
      <3>4. \A a \in App \ {x} : pc'[a] \notin {"submit", "wait"}
        BY <1>1, <3>2 DEF UsesIdentity
      <3>5. pc'[x] = "wait"
        BY <1>1, <3>1
      <3>6. QED
        BY <3>1, <3>3, <3>4, <3>5 DEF IdentityUsed, UsesIdentity
    <2>3. CASE x \in Copy
      <3>1. x \notin App /\ UNCHANGED <<identityCopy, overlapped>>
        BY <1>1, <2>3, Partition DEF EngineCopy, x
      <3>2. QED
        BY <1>2, <1>5, <1>6, <3>1, IdentityStep
    <2>4. QED
      BY <1>3, <2>2, <2>3, Partition
  <1>10. x \in Copy => GoesOn(x) /\ RequiredInv(x)'
    <2>1. SUFFICES ASSUME x \in Copy PROVE GoesOn(x) /\ RequiredInv(x)'
      OBVIOUS
    <2>2. /\ c = Command(x) /\ Operable(x) /\ InEngine(x)
          /\ copy[x] = "dispatched"
      BY <1>3, <2>1, EngineCarries DEF x
    <2>3. GoesOn(x)
      BY <1>1, <2>2 DEF GoesOn, Over
    <2>4. \A u \in Copy : GoesOn(u)
      BY <1>5, <1>6, <2>3, UntouchedGoesOn, Partition
    <2>5. RequiredInv(x)
      BY <1>2, <2>1 DEF ContentsInv
    <2>6. ASSUME NEW u \in Requires[x] PROVE Over(u)
      <3>1. u \in Copy
        BY <2>1, DataAssumption
      <3>2. \/ copy[u] = "completed"
            \/ program.depSync = "barrier" /\ copy[u] = "dispatched"
        BY <2>2, <2>5 DEF RequiredInv
      <3>3. CASE copy[u] = "completed"
        BY <1>2, <3>1, <3>3, CompletedIsOver
      <3>4. CASE program.depSync = "barrier" /\ copy[u] = "dispatched"
        <4>1. SignalOf(u) \in c.after
          BY <2>1, <2>2, <3>4 DEF Command
        <4>2. QED
          BY <1>1, <1>2, <3>1, <3>4, <4>1, NothingLeft DEF Over
      <3>5. QED
        BY <3>2, <3>3, <3>4
    <2>7. RequiredInv(x)'
      <3>1. ASSUME NEW u \in Requires[x]
            PROVE  /\ copy'[u] = "completed"
                      \/ (program'.depSync = "barrier" /\ copy'[u] = "dispatched")
                   /\ Over(u)'
        <4>1. Over(u)'
          BY <2>1, <2>4, <2>6, DataAssumption DEF GoesOn
        <4>2. \/ copy[u] = "completed"
              \/ program.depSync = "barrier" /\ copy[u] = "dispatched"
          BY <2>2, <2>5 DEF RequiredInv
        <4>3. QED
          BY <1>1, <4>1, <4>2
      <3>2. QED
        BY <3>1 DEF RequiredInv
    <2>8. QED
      BY <2>3, <2>7
  <1>11. overlapped \/ Spares(x)
    <2>1. SUFFICES ASSUME ~overlapped PROVE Spares(x)
      OBVIOUS
    <2>2. /\ c = Command(x) /\ Operable(x) /\ InEngine(x)
          /\ Staged(x) => block[x] # Junk
          /\ Command(x).to = To(x) \/ (Command(x).to = block[x] /\ D2H(x))
      BY <1>3, <2>1, EngineCarries DEF x
    <2>3. x \in Copy => ~Over(x)
      BY <2>2 DEF Over
    <2>4. c.to = To(x) \/ (c.to = block[x] /\ c.to # Junk)
      BY <2>2 DEF Staged
    <2>5. QED
      BY <1>1, <1>2, <1>3, <2>2, <2>3, <2>4, WriteSpares DEF CarefulInv
  <1>12. ~overlapped' /\ x \notin early' => CarriedInv(x)'
    <2>1. SUFFICES ASSUME ~overlapped, x \notin early PROVE CarriedInv(x)'
      BY <1>1
    <2>2. /\ c = Command(x) /\ Operable(x) /\ ~InEngine(x)'
          /\ pc[x] = IF x \in App \/ Staged(x) THEN "wait" ELSE "idle"
          /\ Staged(x) => block[x] # Junk
      BY <1>3, <2>1, EngineCarries DEF x
    <2>3. /\ Operable(x)' /\ (x \in App => calls'[x] = calls[x])
      BY <1>1, <2>2 DEF Operable, Current
    <2>4. /\ To(x)' = To(x) /\ From(x)' = From(x)
          /\ H2D(x)' <=> H2D(x)
          /\ D2H(x)' <=> D2H(x)
      BY <1>3, <1>4, <2>2, <2>3, SameOperands
    <2>5. /\ To(x) \in Memory /\ From(x) \in Memory
          /\ Staged(x) => To(x) # From(x) /\ block[x] # From(x) /\ block[x] # To(x)
                          /\ block[x] \in Memory
      BY <1>2, <1>3, <2>2, OwnPlaces
    <2>6. CASE H2D(x)
      <3>1. ~D2H(x) /\ Staged(x) /\ c.from = block[x] /\ c.to = To(x) /\ pc[x] = "wait"
        BY <2>2, <2>6 DEF Command, Staged, H2D, D2H
      <3>2. mem[block[x]] = mem[From(x)]
        BY <1>3, <2>1, <2>2, <2>6, <3>1, WorksOn DEF Filled
      <3>3. mem'[To(x)] = mem'[From(x)] /\ mem'[block[x]] = mem'[From(x)]
        BY <1>1, <1>2, <2>5, <3>1, <3>2 DEF CopyTypes
      <3>4. QED
        BY <1>1, <2>4, <3>1, <3>3 DEF CarriedInv
    <2>7. CASE D2H(x)
      <3>1. ~H2D(x) /\ Staged(x) /\ c.from = From(x) /\ c.to = block[x] /\ pc[x] = "wait"
        BY <2>2, <2>7 DEF Command, Staged, H2D, D2H
      <3>2. mem'[block[x]] = mem'[From(x)]
        BY <1>1, <1>2, <2>5, <3>1 DEF CopyTypes
      <3>3. ~Through(x)'
        BY <1>1, <3>1 DEF Through, Over
      <3>4. QED
        BY <1>1, <2>4, <2>7, <3>1, <3>2, <3>3 DEF CarriedInv, Filled
    <2>8. CASE ~H2D(x) /\ ~D2H(x)
      <3>1. c.from = From(x) /\ c.to = To(x)
        BY <2>2, <2>8 DEF Command
      <3>2. mem'[To(x)] = mem'[From(x)]
        BY <1>1, <1>2, <2>5, <3>1 DEF CopyTypes
      <3>3. QED
        BY <1>1, <2>4, <2>8, <3>2 DEF CarriedInv, Filled
    <2>9. QED
      BY <2>6, <2>7, <2>8
  <1>13. ContentsInv'
    BY <1>1, <1>2, <1>4, <1>5, <1>6, <1>10, <1>11, <1>12, ContentsStep
  <1>14. CopyTypes'
    BY <1>1, <1>2, <1>3, <1>8 DEF CopyTypes
  <1>15. CopyInv'
    BY <1>7, <1>8, <1>9, <1>13, <1>14 DEF CopyInv
  <1>16. QED
    BY <1>4, <1>15, CarefulStays

\* A step of a copy task by which it takes or gives back its shares of the signal,
\* or passes from one state to the next.
LEMMA CopyTaskMoves ==
  ASSUME StepBase, CopyInv, NEW t \in Copy, \A y \in Thread \ {t} : Untouched(y),
         UNCHANGED <<identityCopy, overlapped, mem, early>>,
         \A y \in Thread \ {t} : InEngine(y)' <=> InEngine(y),
         copy' \in [Copy -> {"none", "ready", "staging", "dispatched", "completed"}],
         signal' \in [Signal -> Nat], SharesCounted', PlaceInv(t)',
         \A c \in engine' : (c \in engine /\ c.of # t) \/ CommandInv(c)',
         GoesOn(t), RequiredInv(t)', ~overlapped /\ t \notin early => CarriedInv(t)'
  PROVE  CopyInv'
  <1>1. CopyTypes /\ PlacesKept /\ IdentityUsed /\ ContentsInv
    BY DEF CopyInv
  <1>2. t \in Thread /\ t \notin App
    BY Partition
  <1>3. CopyTypes'
    BY <1>1 DEF CopyTypes
  <1>4. PlacesKept'
    BY <1>1, PlacesStep
  <1>5. IdentityUsed'
    BY <1>1, <1>2, IdentityStep
  <1>6. Spares(t)
    BY SparesSame
  <1>7. ContentsInv'
    BY <1>1, <1>6, ContentsStep
  <1>8. QED
    BY <1>3, <1>4, <1>5, <1>7 DEF CopyInv

LEMMA SubtractKeeps ==
  ASSUME CarefulInv, CallsInv', TrackInv', NEW t \in Copy, Subtract(t)
  PROVE  CarefulInv'
  <1>1. /\ pc[t] = "subtract" /\ GoTo(t, "idle") /\ t \in Thread /\ t \notin App
        /\ signal' = [signal EXCEPT ![SignalOf(t)] = signal[SignalOf(t)] - 1]
        /\ UNCHANGED <<pointer, block, identityCopy, overlapped, engine, copy, early, mem>>
    BY Partition DEF Subtract, trackVars, ghostVars
  <1>2. CopyTypes /\ PlacesKept /\ SharesCounted /\ ContentsInv
    BY DEF CarefulInv, CopyInv
  <1>3. PlaceInv(t) /\ Operable(t) /\ copy[t] = "dispatched" /\ Staged(t)
    BY <1>1, <1>2 DEF PlacesKept, PlaceInv, AfterStaging, Operable
  <1>4. StepBase /\ pc'[t] = "idle" /\ \A y \in Thread \ {t} : Untouched(y)
    BY <1>1, GoesOnBase
  <1>5. Operable(t)'
    BY <1>1, <1>3 DEF Operable
  <1>6. /\ To(t)' = To(t) /\ From(t)' = From(t)
        /\ H2D(t)' <=> H2D(t)
    BY <1>1, <1>3, <1>4, <1>5, SameOperands
  <1>7. \A y : InEngine(y)' <=> InEngine(y)
    BY <1>1 DEF InEngine
  <1>8. ~InEngine(t)
    BY <1>1, <1>2, <1>3 DEF PlacesKept, CommandInv, InEngine
  <1>9. SharesCounted' /\ signal' \in [Signal -> Nat]
    <2>1. SignalOf(t) \in Signal
      BY DEF SignalOf, Signal
    <2>2. signal[SignalOf(t)] - 1 = signal[SignalOf(t)] + (0 - 1)
      BY <1>2, <2>1 DEF CopyTypes
    <2>3. 0 - 1 \in Int
      OBVIOUS
    <2>4. signal' = [signal EXCEPT ![SignalOf(t)] = signal[SignalOf(t)] + (0 - 1)]
      BY <1>1, <2>2, Zenon
    <2>5. One(pc[t] \in Staging \/ InEngine(t)) + One(pc[t] # "idle") + (0 - 1)
            = One(pc'[t] \in Staging \/ InEngine(t)') + One(pc'[t] # "idle")
      BY <1>1, <1>4, <1>7, <1>8 DEF One, Staging
    <2>6. \A u \in Copy \ {t} : Untouched(u) /\ (InEngine(u)' <=> InEngine(u))
      BY <1>4, <1>7, Partition
    <2>7. QED
      BY <1>2, <2>3, <2>4, <2>5, <2>6, SharesChange DEF CopyTypes
  <1>10. PlaceInv(t)'
    BY <1>1, <1>3, <1>4 DEF PlaceInv, Staging, AfterStaging, Temporary
  <1>11. \A c \in engine' : (c \in engine /\ c.of # t) \/ CommandInv(c)'
    BY <1>1, <1>8 DEF InEngine
  <1>12. GoesOn(t)
    BY <1>1, <1>3 DEF GoesOn, Over
  <1>13. RequiredInv(t)'
    <2>1. HasRead(t)' => HasRead(t)
      BY <1>1, <1>3, <1>6, <1>7 DEF HasRead
    <2>2. \A u \in Copy : GoesOn(u)
      BY <1>4, <1>7, <1>12, UntouchedGoesOn, Partition
    <2>3. RequiredInv(t) /\ program' = program
      BY <1>1, <1>2 DEF ContentsInv, GoTo
    <2>4. QED
      BY <1>1, <2>1, <2>2, <2>3, RequiredKept, DataAssumption
  <1>14. ~overlapped /\ t \notin early => CarriedInv(t)'
    <2>1. Through(t) /\ (~overlapped /\ t \notin early => CarriedInv(t))
      BY <1>1, <1>2 DEF Through, ContentsInv
    <2>2. ~overlapped /\ t \notin early => mem[To(t)] = mem[From(t)]
      BY <1>3, <2>1 DEF CarriedInv
    <2>3. QED
      BY <1>1, <1>4, <1>6, <2>2 DEF CarriedInv, Filled, Moved
  <1>15. CopyInv'
    BY <1>1, <1>2, <1>4, <1>7, <1>9, <1>10, <1>11, <1>12, <1>13, <1>14, CopyTaskMoves
       DEF CopyTypes, CarefulInv
  <1>16. QED
    BY <1>4, <1>15, CarefulStays

LEMMA CompleteKeeps ==
  ASSUME CarefulInv, CallsInv', TrackInv', NEW t \in Copy, CompleteCopy(t)
  PROVE  CarefulInv'
  <1>1. /\ copy[t] = "dispatched" /\ signal[SignalOf(t)] = 0 /\ t \in Thread /\ t \notin App
        /\ copy' = [copy EXCEPT ![t] = "completed"]
        /\ UNCHANGED <<pointer, block, identityCopy, overlapped, engine, signal, early, mem>>
        /\ UNCHANGED <<program, calls, pc>>
    BY Partition DEF CompleteCopy, trackVars, ghostVars, appVars
  <1>2. CopyTypes /\ PlacesKept /\ SharesCounted /\ ContentsInv
    BY DEF CarefulInv, CopyInv
  <1>3. PlaceInv(t) /\ Operable(t) /\ pc[t] = "idle" /\ ~InEngine(t)
    BY <1>1, <1>2, NothingLeft DEF PlacesKept, Operable
  <1>4. copy'[t] = "completed" /\ \A u \in Copy \ {t} : copy'[u] = copy[u]
    BY <1>1, <1>2 DEF CopyTypes
  <1>5. StepBase
    BY <1>1, <1>4, StepStays DEF CarefulInv
  <1>6. \A y \in Thread \ {t} : Untouched(y)
    BY <1>1, <1>4 DEF Untouched
  <1>7. Operable(t)'
    BY <1>1, <1>4 DEF Operable
  <1>8. /\ To(t)' = To(t) /\ From(t)' = From(t)
        /\ H2D(t)' <=> H2D(t)
    BY <1>1, <1>3, <1>5, <1>7, SameOperands
  <1>9. \A y : InEngine(y)' <=> InEngine(y)
    BY <1>1 DEF InEngine
  <1>10. SharesCounted'
    BY <1>1, <1>2, <1>6, <1>9, SharesStep
  <1>11. PlaceInv(t)'
    BY <1>1, <1>3, <1>4 DEF PlaceInv, Staging, AfterStaging, Temporary
  <1>12. \A c \in engine' : (c \in engine /\ c.of # t) \/ CommandInv(c)'
    BY <1>1, <1>3 DEF InEngine
  <1>13. GoesOn(t)
    BY <1>1, <1>3, <1>4, <1>9 DEF GoesOn, Over
  <1>14. RequiredInv(t)'
    <2>1. HasRead(t)' => HasRead(t)
      BY <1>1, <1>3, <1>8, <1>9 DEF HasRead
    <2>2. \A u \in Copy : GoesOn(u)
      BY <1>6, <1>9, <1>13, UntouchedGoesOn, Partition
    <2>3. RequiredInv(t) /\ program' = program
      BY <1>1, <1>2 DEF ContentsInv
    <2>4. QED
      BY <1>1, <2>1, <2>2, <2>3, RequiredKept, DataAssumption
  <1>15. ~overlapped /\ t \notin early => CarriedInv(t)'
    <2>1. Through(t) /\ (~overlapped /\ t \notin early => CarriedInv(t))
      BY <1>1, <1>2, <1>3 DEF Through, Over, ContentsInv
    <2>2. ~overlapped /\ t \notin early => mem[To(t)] = mem[From(t)]
      BY <1>3, <2>1 DEF CarriedInv
    <2>3. QED
      BY <1>1, <1>3, <1>8, <2>2 DEF CarriedInv, Filled, Moved
  <1>16. copy' \in [Copy -> {"none", "ready", "staging", "dispatched", "completed"}]
    BY <1>1, <1>2 DEF CopyTypes
  <1>17. CopyInv'
    BY <1>1, <1>2, <1>5, <1>6, <1>9, <1>10, <1>11, <1>12, <1>13, <1>14, <1>15, <1>16,
       CopyTaskMoves DEF CopyTypes, CarefulInv
  <1>18. QED
    BY <1>5, <1>17, CarefulStays

LEMMA DispatchKeeps ==
  ASSUME CarefulInv, CallsInv', TrackInv', NEW t \in Copy, DispatchCopy(t)
  PROVE  CarefulInv'
  <1>1. /\ copy[t] = "ready" /\ t \in Thread /\ t \notin App
        /\ signal' = [signal EXCEPT ![SignalOf(t)] = signal[SignalOf(t)] + Share(t)]
        /\ UNCHANGED <<pointer, block, identityCopy, overlapped, early, mem>>
        /\ UNCHANGED <<program, calls>>
    BY Partition DEF DispatchCopy, trackVars, ghostVars, GoTo, appVars
  <1>2. CopyTypes /\ PlacesKept /\ SharesCounted /\ ContentsInv /\ CopyBase
    BY DEF CarefulInv, CopyInv
  <1>3. PlaceInv(t) /\ Operable(t) /\ pc[t] = "idle" /\ ~InEngine(t)
    <2>1. PlaceInv(t) /\ \A c \in engine : CommandInv(c)
      BY <1>1, <1>2 DEF PlacesKept
    <2>2. QED
      BY <1>1, <2>1 DEF PlaceInv, CommandInv, InEngine, Operable
  <1>4. /\ Staged(t) => /\ GoTo(t, "allocate") /\ copy' = [copy EXCEPT ![t] = "staging"]
                        /\ engine' = engine
        /\ ~Staged(t) => /\ copy' = [copy EXCEPT ![t] = "dispatched"] /\ pc' = pc
                         /\ engine' = engine \cup {Command(t)}
    BY DEF DispatchCopy, appVars
  <1>5. /\ copy'[t] = IF Staged(t) THEN "staging" ELSE "dispatched"
        /\ \A u \in Copy \ {t} : copy'[u] = copy[u]
        /\ copy' \in [Copy -> {"none", "ready", "staging", "dispatched", "completed"}]
    BY <1>2, <1>4 DEF CopyTypes
  <1>6. /\ pc'[t] = IF Staged(t) THEN "allocate" ELSE "idle"
        /\ \A y \in Thread \ {t} : pc'[y] = pc[y]
    BY <1>1, <1>3, <1>4 DEF GoTo, CarefulInv, CopyBase, CallsInv
  <1>7. StepBase
    BY <1>1, <1>5, StepStays DEF CarefulInv
  <1>8. \A y \in Thread \ {t} : Untouched(y)
    BY <1>1, <1>5, <1>6 DEF Untouched
  <1>9. Operable(t)'
    BY <1>1, <1>5 DEF Operable
  <1>10. /\ To(t)' = To(t) /\ From(t)' = From(t)
         /\ H2D(t)' <=> H2D(t)
         /\ Staged(t)' <=> Staged(t)
         /\ Command(t)' = Command(t)
    BY <1>1, <1>3, <1>7, <1>9, SameOperands, SameCommand
  <1>11. ~Staged(t) => Command(t).from \in Memory /\ Command(t).to \in Memory
    BY <1>1, <1>2, <1>3, CommandPlaces
  <1>12. Command(t).of = t
    BY DEF Command
  <1>13. /\ \A y \in Thread \ {t} : InEngine(y)' <=> InEngine(y)
         /\ InEngine(t)' <=> ~Staged(t)
    BY <1>3, <1>4, <1>12 DEF InEngine
  <1>14. SharesCounted' /\ signal' \in [Signal -> Nat]
    <2>1. Share(t) \in Int
      BY DEF Share
    <2>2. One(pc[t] \in Staging \/ InEngine(t)) + One(pc[t] # "idle") + Share(t)
            = One(pc'[t] \in Staging \/ InEngine(t)') + One(pc'[t] # "idle")
      BY <1>3, <1>6, <1>13 DEF One, Staging, Share
    <2>3. \A u \in Copy \ {t} : Untouched(u) /\ (InEngine(u)' <=> InEngine(u))
      BY <1>8, <1>13, Partition
    <2>4. QED
      BY <1>1, <1>2, <2>1, <2>2, <2>3, SharesChange DEF CopyTypes
  <1>15. PlaceInv(t)'
    BY <1>1, <1>5, <1>6, <1>10 DEF PlaceInv, Staging, AfterStaging, Temporary
  <1>16. \A c \in engine' : (c \in engine /\ c.of # t) \/ CommandInv(c)'
    <2>1. \A c \in engine : c.of # t
      BY <1>3 DEF InEngine
    <2>2. ASSUME NEW c, c = Command(t), ~Staged(t) PROVE CommandInv(c)'
      <3>1. c.of = t /\ c = Command(c.of)' /\ c.from \in Memory /\ c.to \in Memory
        BY <1>10, <1>11, <1>12, <2>2
      <3>2. QED
        BY <1>1, <1>5, <1>6, <1>10, <2>2, <3>1 DEF CommandInv, Memory
    <2>3. QED
      BY <1>4, <2>1, <2>2
  <1>17. GoesOn(t)
    BY <1>1 DEF GoesOn, Over
  <1>18. RequiredInv(t)'
    <2>1. ~HasRead(t)'
      BY <1>5, <1>6, <1>10, <1>13 DEF HasRead, Staged
    <2>2. ASSUME NEW u \in Requires[t]
          PROVE  \/ copy'[u] = "completed"
                 \/ program'.depSync = "barrier" /\ copy'[u] = "dispatched"
      <3>1. copy[u] \in IF program.depSync = "callback" THEN {"completed"}
                        ELSE {"dispatched", "completed"}
        BY DEF DispatchCopy, Dispatchable
      <3>2. program.depSync \in {"callback", "barrier"}
        BY ApplicationAssumption DEF CarefulInv, CopyBase, CallsInv
      <3>3. u \in Copy \ {t} /\ copy'[u] = copy[u]
        BY <1>1, <1>5, <3>1, DataAssumption
      <3>4. QED
        BY <1>1, <3>1, <3>2, <3>3
    <2>3. QED
      BY <2>1, <2>2 DEF RequiredInv
  <1>19. CarriedInv(t)'
    BY <1>1, <1>5, <1>6, <1>13 DEF CarriedInv, Filled, Moved, Through, Over
  <1>20. CopyInv'
    BY <1>1, <1>5, <1>7, <1>8, <1>13, <1>14, <1>15, <1>16, <1>17, <1>18, <1>19,
       CopyTaskMoves DEF CarefulInv
  <1>21. QED
    BY <1>7, <1>20, CarefulStays

LEMMA CallAsyncKeeps ==
  ASSUME CarefulInv, CallsInv', TrackInv', NEW a \in App, CallMemcpyAsync(a)
  PROVE  CarefulInv'
  <1>0. PICK t \in Copy : t = Current(a).copy
    BY CurrentIsCall, DataAssumption DEF CarefulInv, CopyBase, CallsInv, CallMemcpyAsync, Calling
  <1>1. /\ Return(a) /\ pc[a] = "idle" /\ calls[a] # <<>> /\ Current(a).op = "memcpyAsync"
        /\ copy' = [copy EXCEPT ![t] = "ready"]
        /\ UNCHANGED <<pointer, block, identityCopy, overlapped, early, mem, engine, signal>>
    BY <1>0 DEF CallMemcpyAsync, Calling, trackVars, ghostVars
  <1>2. CopyTypes /\ PlacesKept /\ SharesCounted /\ ContentsInv /\ CopyBase
    BY DEF CarefulInv, CopyInv
  <1>3. t \in Copy /\ IsAsync(Current(a))
    BY <1>1 DEF IsAsync
  <1>4. copy[t] = "none"
    <2>1. SUFFICES ASSUME copy[t] # "none" PROVE FALSE
      OBVIOUS
    <2>2. PICK b \in App : \E m \in 1 .. MadeBy(b) :
            IsAsync(program.calls[b][m]) /\ program.calls[b][m].copy = t
      BY <1>2, <1>3, <2>1 DEF CopyBase, OperandsInv, CopiesMade
    <2>3. PICK m \in 1 .. MadeBy(b) :
            IsAsync(program.calls[b][m]) /\ program.calls[b][m].copy = t
      BY <2>2
    <2>4. /\ 1 \in DOMAIN calls[a] /\ Current(a) = calls[a][1]
          /\ MadeBy(a) + 1 \in DOMAIN program.calls[a]
          /\ program.calls[a][MadeBy(a) + 1] = Current(a)
          /\ MadeBy(a) \in Nat
      <3>1. /\ 1 \in DOMAIN calls[a] /\ Current(a) = calls[a][1] /\ MadeBy(a) \in Nat
        BY <1>1, <1>2, CallAt DEF CopyBase, OperandsInv
      <3>2. QED
        BY <1>2, <3>1, CallAt DEF CopyBase, OperandsInv
    <2>5. m \in DOMAIN program.calls[b]
      <3>1. /\ MadeBy(b) \in Nat /\ Len(calls[b]) \in Nat /\ Len(program.calls[b]) \in Nat
            /\ DOMAIN program.calls[b] = 1 .. Len(program.calls[b])
        BY <1>2, CallAt DEF CopyBase, OperandsInv
      <3>2. QED
        BY <3>1 DEF MadeBy
    <2>6. a = b /\ m = MadeBy(a) + 1
      BY <1>0, <1>3, <2>3, <2>4, <2>5 DEF CarefulInv, Careful, CopiesOnce
    <2>7. QED
      BY <2>4, <2>6
  <1>5. /\ copy'[t] = "ready" /\ \A u \in Copy \ {t} : copy'[u] = copy[u]
        /\ copy' \in [Copy -> {"none", "ready", "staging", "dispatched", "completed"}]
    BY <1>1, <1>2, <1>3 DEF CopyTypes
  <1>6. StepBase
    <2>1. \A u \in Copy : copy'[u] # "none" =>
            copy[u] # "none" \/ (IsAsync(Current(a)) /\ Current(a).copy = u)
      BY <1>0, <1>3, <1>5
    <2>2. QED
      BY <1>1, <2>1, StepReturns DEF CarefulInv
  <1>7. PlaceInv(t) /\ pc[t] = "idle" /\ ~InEngine(t) /\ t \in Thread /\ t \notin App /\ t # a
    <2>1. PlaceInv(t) /\ (\A c \in engine : CommandInv(c)) /\ t \in Thread /\ t \notin App
      BY <1>2, <1>3, Partition DEF PlacesKept
    <2>2. QED
      BY <1>3, <1>4, <2>1 DEF PlaceInv, CommandInv, InEngine
  <1>8. \A y \in Thread : pc'[y] = pc[y]
    BY <1>1 DEF Return, CarefulInv, CopyBase, CallsInv
  <1>9. \A y \in Thread \ {t} : Untouched(y)
    BY <1>1, <1>5, <1>8 DEF Untouched, Return, CarefulInv, CopyBase, CallsInv
  <1>10. \A y : InEngine(y)' <=> InEngine(y)
    BY <1>1 DEF InEngine
  <1>11. SharesCounted'
    BY <1>1, <1>2, <1>7, <1>8, <1>9, <1>10, SharesStep
  <1>12. PlaceInv(t)'
    BY <1>3, <1>5, <1>7, <1>8 DEF PlaceInv, Staging, AfterStaging, Temporary
  <1>13. \A c \in engine' : (c \in engine /\ c.of # t) \/ CommandInv(c)'
    BY <1>1, <1>7 DEF InEngine
  <1>14. GoesOn(t)
    BY <1>4 DEF GoesOn, Over
  <1>15. RequiredInv(t)' /\ CarriedInv(t)'
    BY <1>5, <1>7, <1>8
       DEF RequiredInv, HasRead, CarriedInv, Filled, Moved, Through, Over
  <1>16. CopyInv'
    BY <1>1, <1>2, <1>3, <1>5, <1>6, <1>9, <1>10, <1>11, <1>12, <1>13, <1>14, <1>15,
       CopyTaskMoves DEF CopyTypes, CarefulInv
  <1>17. QED
    BY <1>6, <1>16, CarefulStays

LEMMA DataKeepsCopies ==
  ASSUME CarefulInv, CallsInv', TrackInv', NEW x \in Thread, Data(x)
  PROVE  CarefulInv'
  <1>1. CASE x \in App /\ DataCall(x)
    BY <1>1, CallsKeepCopies, CallFreeKeeps, CallMemcpyKeeps, StoreKeeps, CallAsyncKeeps
       DEF DataCall
  <1>2. CASE DataStep(x)
    BY <1>2, AllocateKeeps, RegisterKeeps, FindKeeps, RemoveKeeps, ReleaseKeeps, FillKeeps,
       SubmitKeeps, WaitKeeps, BackKeeps DEF DataStep
  <1>3. CASE x \in Copy /\ CopyStep(x)
    BY <1>3, DispatchKeeps, SubtractKeeps, CompleteKeeps DEF CopyStep
  <1>4. QED
    BY <1>1, <1>2, <1>3 DEF Data

LEMMA CarefulSteps ==
  ASSUME CarefulInv, [Next]_serviceVars
  PROVE  CarefulInv'
  <1>1. CallsInv' /\ TrackInv'
    BY CallsSteps, TrackSteps DEF CarefulInv, CopyBase
  <1>2. ASSUME NEW a \in App, AppStep(a) PROVE CarefulInv'
    BY <1>1, <1>2, DataKeepsCopies, LifeKeepsCopies, DeviceKeepsCopies, Partition DEF AppStep
  <1>3. ASSUME NEW t \in Copy, Data(t) PROVE CarefulInv'
    BY <1>1, <1>3, DataKeepsCopies, Partition
  <1>4. CASE Engine
    BY <1>1, <1>4, EngineKeeps DEF Engine, EngineStep
  <1>5. ASSUME UNCHANGED <<appVars, dataVars>> PROVE CarefulInv'
    BY <1>1, <1>5, ExitKeeps DEF appVars
  <1>6. ASSUME NEW i \in Instance, GPU(i) PROVE CarefulInv'
    BY <1>5, <1>6 DEF GPU
  <1>7. CASE Packets \/ Arguments \/ Hardware \/ UNCHANGED serviceVars
    BY <1>5, <1>7 DEF Packets, Arguments, Hardware, serviceVars
  <1>8. QED
    BY <1>2, <1>3, <1>4, <1>6, <1>7 DEF Next

LEMMA CarefulInit ==
  ASSUME Init, Careful(program)
  PROVE  CarefulInv
  <1>1. CallsInv /\ TrackInv
    BY CallsInit, TrackInit DEF Init
  <1>2. /\ calls = program.calls /\ \A x \in Thread : pc[x] = "idle"
        /\ \A t \in Copy : copy[t] = "none"
        /\ engine = {} /\ signal = [s \in Signal |-> 0] /\ identityCopy = 0
        /\ copy = [t \in Copy |-> "none"] /\ early = {} /\ overlapped = FALSE
        /\ mem = [m \in Memory |-> IF m \in Plain THEN m ELSE Junk]
    BY DEF Init, AppInit, DataInit
  <1>3. OperandsInv
    <2>1. \A a \in App : MadeBy(a) = 0 /\ \A n \in DOMAIN calls[a] : MadeBy(a) + n = n
      <3>1. \A a \in App : calls[a] \in Seq(AllCalls(program))
        BY <1>1 DEF CallsInv
      <3>2. \A a \in App : Len(calls[a]) \in Nat /\ DOMAIN calls[a] \subseteq Nat
        BY <3>1
      <3>3. \A a \in App : MadeBy(a) = 0
        BY <1>2, <3>2 DEF MadeBy
      <3>4. QED
        BY <3>2, <3>3
    <2>2. CallsLeft
      <3>1. \A a \in App : Len(calls[a]) <= Len(program.calls[a])
        <4>1. \A a \in App : Len(calls[a]) \in Nat
          BY <1>1 DEF CallsInv
        <4>2. QED
          BY <1>2, <4>1
      <3>2. QED
        BY <1>2, <2>1, <3>1 DEF CallsLeft
    <2>3. PointersReady
      BY <1>2 DEF PointersReady, Careful, OperandsAllocated
    <2>4. CopiesMade
      BY <1>2 DEF CopiesMade
    <2>5. QED
      BY <2>2, <2>3, <2>4 DEF OperandsInv
  <1>4. CopyTypes
    <2>1. copy \in [Copy -> {"none", "ready", "staging", "dispatched", "completed"}]
      BY <1>2
    <2>2. mem \in [Memory -> Plain \cup {Junk}]
      BY <1>2
    <2>3. signal \in [Signal -> Nat]
      BY <1>2
    <2>4. identityCopy \in Int /\ early \subseteq Copy
      BY <1>2
    <2>5. overlapped \in BOOLEAN
      <3>1. overlapped = FALSE
        BY <1>2
      <3>2. QED
        BY <3>1
    <2>6. QED
      BY <2>1, <2>2, <2>3, <2>4, <2>5 DEF CopyTypes
  <1>5. PlacesKept
    <2>1. ASSUME NEW x \in Thread PROVE PlaceInv(x)
      BY <1>2, Partition DEF PlaceInv, LifeLabels, InitLabels, FinalLabels, GroupLabels, Staging,
         AfterStaging, Temporary
    <2>2. QED
      BY <1>2, <2>1 DEF PlacesKept
  <1>6. SharesCounted
    <2>1. ASSUME NEW s \in Signal
          PROVE  signal[s] = Cardinality(EngineShare(s)) + Cardinality(ThreadShare(s))
      <3>1. EngineShare(s) = {} /\ ThreadShare(s) = {}
        BY <1>2, Partition DEF EngineShare, ThreadShare, InEngine, Staging
      <3>2. Cardinality(EngineShare(s)) = 0 /\ Cardinality(ThreadShare(s)) = 0
        BY <3>1, FS_EmptySet
      <3>3. signal[s] = 0
        BY <1>2
      <3>4. QED
        BY <3>2, <3>3
    <2>2. QED
      BY <2>1 DEF SharesCounted
  <1>7. IdentityUsed
    BY <1>2, Partition DEF IdentityUsed, UsesIdentity
  <1>8. ContentsInv
    <2>1. ASSUME NEW t \in Copy PROVE RequiredInv(t)
      BY <1>2, Partition DEF RequiredInv, HasRead
    <2>2. ASSUME NEW x \in Thread PROVE CarriedInv(x)
      BY <1>2 DEF CarriedInv, Operable, Filled, Moved, Through, Over
    <2>3. QED
      BY <2>1, <2>2 DEF ContentsInv
  <1>9. QED
    BY <1>1, <1>3, <1>4, <1>5, <1>6, <1>7, <1>8 DEF CarefulInv, CopyBase, CopyInv

LEMMA CarefulDelivers ==
  ASSUME CarefulInv
  PROVE  CopiesDelivered
  <1>1. PlacesKept /\ ContentsInv
    BY DEF CarefulInv, CopyInv
  <1>2. SUFFICES ASSUME ~overlapped
                 PROVE  /\ \A a \in App : Inside(a, "memcpy", "return") => mem[To(a)] = mem[From(a)]
                        /\ \A t \in Copy \ early :
                             copy[t] = "completed" => mem[Address(Dest[t])] = mem[Address(Src[t])]
    BY DEF CopiesDelivered
  <1>3. early \subseteq Copy
    BY DEF CarefulInv, CopyInv, CopyTypes
  <1>4. ASSUME NEW a \in App, Inside(a, "memcpy", "return") PROVE mem[To(a)] = mem[From(a)]
    <2>1. a \in Thread \ early /\ Operable(a) /\ Through(a)
      BY <1>3, <1>4, Partition DEF Inside, Operable, Through
    <2>2. CarriedInv(a)
      BY <1>1, <1>2, <2>1 DEF ContentsInv
    <2>3. QED
      BY <2>1, <2>2 DEF CarriedInv
  <1>5. ASSUME NEW t \in Copy \ early, copy[t] = "completed"
        PROVE  mem[Address(Dest[t])] = mem[Address(Src[t])]
    <2>1. t \in Thread \ early /\ t \notin App
      BY <1>5, Partition
    <2>2. Operable(t) /\ Through(t)
      BY <1>1, <1>5, <2>1, CompletedIsOver DEF Operable, Through
    <2>3. CarriedInv(t)
      BY <1>1, <1>2, <2>1 DEF ContentsInv
    <2>4. mem[To(t)] = mem[From(t)]
      BY <2>2, <2>3 DEF CarriedInv
    <2>5. QED
      BY <2>1, <2>4 DEF To, From
  <1>6. QED
    BY <1>4, <1>5

\* A copy that is over has been made: when memcpy returns, and when a copy task
\* is COMPLETED, the destination holds what the source holds, whatever the staging
\* threads, the engine and the temporary blocks of the other copies do in between
\* (data.cpp:645-776, 850-905). Claimed of careful programs, up to the first two calls
\* that use IdentityCopySignal at once, and not of the copies that were staged early.
THEOREM CopiesAreDelivered ==
  (\A p \in Programs : Careful(p)) => (Spec => []CopiesDelivered)
  <1> SUFFICES ASSUME \A p \in Programs : Careful(p)
               PROVE  Spec => []CopiesDelivered
    OBVIOUS
  <1>1. Init => CarefulInv
    BY CarefulInit DEF Init, AppInit
  <1>2. CarefulInv /\ [Next]_serviceVars => CarefulInv'
    BY CarefulSteps
  <1>3. CarefulInv => CopiesDelivered
    BY CarefulDelivers
  <1>4. QED
    BY <1>1, <1>2, <1>3, PTL DEF Spec

-------------------------------------------------------------------------------
(***************************************************************************)
(* What the threads, the tables and the launches hold.                     *)
(***************************************************************************)
\* HSA is held once by the application if it uses HSA, and once by ATMI from the first
\* context to the end of atmi_finalize, which succeeds once: the templates that it
\* frees are not made again.
HeldByProgram == IF program.holdsHSA THEN 1 ELSE 0
HeldByContext == IF "hsa" \in context THEN 1 ELSE 0
GivenBack == IF finalized /\ pc[Master] \notin FinalLabels THEN 1 ELSE 0

RefsInv ==
  /\ hsa = (HeldByProgram + HeldByContext) - GivenBack
  /\ context \subseteq {"hsa", "gpu", "cpu", "tasks"}
  /\ templates # "none" \/ finalized => devrt
  /\ templates = "live" => ~finalized
  /\ kernelCounter \in 0 .. MaxKernelTypes - 1

LaunchTypes ==
  launch \in [KernelLaunch ->
    [stage : {"none", "saved", "acquired", "running", "finished"},
     place : Place, segment : Segment]]

RefsVars == <<hsa, context, templates, devrt, finalized>>

\* A step that has nothing to do with HSA.
LEMMA RefsPass ==
  ASSUME RefsInv, Master' = Master, program' = program, UNCHANGED RefsVars,
         pc'[Master] \in FinalLabels <=> pc[Master] \in FinalLabels,
         kernelCounter' \in 0 .. MaxKernelTypes - 1
  PROVE  RefsInv'
  <1>1. HeldByProgram' = HeldByProgram /\ HeldByContext' = HeldByContext
    BY DEF RefsVars, HeldByProgram, HeldByContext
  <1>2. GivenBack' = GivenBack
    BY DEF RefsVars, GivenBack
  <1>3. QED
    BY <1>1, <1>2 DEF RefsInv, RefsVars

LEMMA QuietKeepsRefs ==
  ASSUME CallsInv, RefsInv, Master \in App, Master' = Master, program' = program,
         NEW x \in Thread, QuietMove(x), UNCHANGED lifeVars
  PROVE  RefsInv'
  <1>1. UNCHANGED RefsVars /\ kernelCounter' = kernelCounter
    BY DEF RefsVars, lifeVars, hsaVars, flagVars, kernelVars
  <1>2. pc'[Master] \in FinalLabels <=> pc[Master] \in FinalLabels
    <2>1. Master \in Thread
      BY DEF Thread
    <2>2. CASE Exit \/ UNCHANGED appVars
      BY <2>2 DEF Exit, appVars
    <2>3. CASE ~(Exit \/ UNCHANGED appVars)
      <3>1. /\ x \in App => pc[x] \notin LifeLabels
            /\ \/ \E l \in Label \ LifeLabels : GoTo(x, l)
               \/ Return(x)
        BY <2>3 DEF QuietMove
      <3>2. \A y \in Thread : y # x => pc'[y] = pc[y]
        BY <3>1 DEF GoTo, Return, CallsInv
      <3>3. pc'[x] \notin LifeLabels
        BY <3>1 DEF GoTo, Return, CallsInv, LifeLabels, InitLabels, FinalLabels, GroupLabels
      <3>4. QED
        BY <2>1, <3>1, <3>2, <3>3 DEF LifeLabels
    <2>4. QED
      BY <2>2, <2>3
  <1>3. QED
    BY <1>1, <1>2, RefsPass DEF RefsInv

LEMMA LifeKeepsRefs ==
  ASSUME CallsInv, LifeInv, RefsInv, Master \in App, NEW a \in App, LifeCall(a)
  PROVE  RefsInv'
  <1> USE DEF LifeInv
  <1>1. /\ Master' = Master /\ program' = program
        /\ \A b \in App \ {a} : pc'[b] = pc[b]
        /\ a \in Thread
    BY LifeKeepsMaster DEF Thread
  <1>a. Exit /\ UNCHANGED lifeVars => RefsInv'
    <2>1. SUFFICES ASSUME Exit, UNCHANGED lifeVars PROVE RefsInv'
      OBVIOUS
    <2>2. UNCHANGED RefsVars /\ kernelCounter' = kernelCounter /\ pc' = pc
      BY <2>1 DEF RefsVars, lifeVars, hsaVars, flagVars, kernelVars, Exit
    <2>3. QED
      BY <1>1, <2>2, RefsPass DEF RefsInv
  \* A step of thread a outside atmi_finalize.
  <1>b. ASSUME pc[a] \notin FinalLabels, pc'[a] \notin FinalLabels, UNCHANGED RefsVars,
               kernelCounter' \in 0 .. MaxKernelTypes - 1
        PROVE  RefsInv'
    <2>1. pc'[Master] \in FinalLabels <=> pc[Master] \in FinalLabels
      BY <1>1, <1>b
    <2>2. QED
      BY <1>1, <1>b, <2>1, RefsPass
  <1>2. CASE CallInitialize(a)
    <2>1. UNCHANGED lifeVars /\ pc[a] = "idle"
          /\ pc' = [pc EXCEPT ![a] = IF initialized THEN "keInit" ELSE "gpu"]
      BY <1>2 DEF CallInitialize, Calling, GoTo
    <2>2. pc'[a] \in {"keInit", "gpu"}
      BY <1>1, <2>1 DEF CallsInv
    <2>3. UNCHANGED RefsVars /\ kernelCounter' = kernelCounter
      BY <2>1 DEF RefsVars, lifeVars, hsaVars, flagVars, kernelVars
    <2>4. QED
      BY <1>b, <2>1, <2>2, <2>3 DEF FinalLabels, RefsInv
  <1>3. ASSUME NEW d \in {"gpu", "cpu"}, NEW next \in {"cpu", "construct"}, Context(a, d, next)
        PROVE  RefsInv'
    <2>1. pc[a] = d
      BY <1>3 DEF Context
    <2>2. CASE ~Wanted(a, d) \/ d \in context
      <3>1. UNCHANGED lifeVars /\ pc' = [pc EXCEPT ![a] = next]
        BY <1>3, <2>2 DEF Context, GoTo
      <3>2. pc'[a] \in {"cpu", "construct"}
        BY <1>1, <3>1 DEF CallsInv
      <3>3. UNCHANGED RefsVars /\ kernelCounter' = kernelCounter
        BY <3>1 DEF RefsVars, lifeVars, hsaVars, flagVars, kernelVars
      <3>4. QED
        BY <1>b, <2>1, <3>2, <3>3 DEF FinalLabels, RefsInv
    <2>3. CASE ~(~Wanted(a, d) \/ d \in context) /\ ~(Exit /\ UNCHANGED lifeVars)
      <3>1. /\ hsa' = IF "hsa" \in context THEN hsa ELSE hsa + 1
            /\ context' = context \cup {"hsa", d, "tasks"} /\ finalized' = finalized
            /\ templates' = templates /\ devrt' = devrt /\ kernelCounter' = kernelCounter
            /\ pc' = [pc EXCEPT ![a] = next]
        BY <1>3, <2>3 DEF Context, flagVars, kernelVars, GoTo
      <3>2. pc'[a] \in {"cpu", "construct"}
        BY <1>1, <3>1 DEF CallsInv
      <3>3. pc'[Master] \in FinalLabels <=> pc[Master] \in FinalLabels
        BY <1>1, <2>1, <3>2 DEF FinalLabels
      <3>4. HeldByProgram' = HeldByProgram /\ GivenBack' = GivenBack
        BY <1>1, <3>1, <3>3 DEF HeldByProgram, GivenBack
      <3>5. hsa = (HeldByProgram + HeldByContext) - GivenBack /\ HeldByContext' = 1
        BY <3>1 DEF RefsInv, HeldByContext
      <3>6. hsa' = (HeldByProgram + HeldByContext') - GivenBack
        <4>1. CASE "hsa" \in context
          BY <3>1, <3>5, <4>1 DEF HeldByContext
        <4>2. CASE "hsa" \notin context
          <5>1. HeldByContext = 0 /\ hsa' = hsa + 1
            BY <3>1, <4>2 DEF HeldByContext
          <5>2. HeldByProgram \in Int /\ GivenBack \in Int
            BY DEF HeldByProgram, GivenBack
          <5>3. hsa' = (HeldByProgram + 1) - GivenBack
            BY <3>5, <5>1, <5>2
          <5>4. QED
            BY <3>5, <5>3
        <4>3. QED
          BY <4>1, <4>2
      <3>7. context' \subseteq {"hsa", "gpu", "cpu", "tasks"}
        BY <3>1 DEF RefsInv
      <3>8. QED
        BY <3>1, <3>4, <3>6, <3>7 DEF RefsInv
    <2>4. QED
      BY <1>3, <1>a, <2>2, <2>3
  <1>4. CASE SetInitialized(a)
    <2>1. pc[a] = "setInitialized" /\ pc' = [pc EXCEPT ![a] = "keInit"]
          /\ UNCHANGED RefsVars /\ kernelCounter' = kernelCounter
      BY <1>4 DEF SetInitialized, GoTo, RefsVars, hsaVars, kernelVars
    <2>2. pc'[a] = "keInit"
      BY <1>1, <2>1 DEF CallsInv
    <2>3. QED
      BY <1>b, <2>1, <2>2 DEF FinalLabels, RefsInv
  <1>5. CASE InitDeviceRuntime(a)
    <2>1. /\ pc[a] = "keInit" /\ pc' = [pc EXCEPT ![a] = "idle"]
          /\ hsa' = hsa /\ context' = context /\ finalized' = finalized
      BY <1>5 DEF InitDeviceRuntime, Return, hsaVars
    <2>2. pc'[a] = "idle"
      BY <1>1, <2>1 DEF CallsInv
    <2>3. pc'[Master] \in FinalLabels <=> pc[Master] \in FinalLabels
      BY <1>1, <2>1, <2>2 DEF FinalLabels
    <2>4. HeldByProgram' = HeldByProgram /\ HeldByContext' = HeldByContext
          /\ GivenBack' = GivenBack
      BY <1>1, <2>1, <2>3 DEF HeldByProgram, HeldByContext, GivenBack
    <2>5. CASE devrt
      BY <1>5, <2>1, <2>4, <2>5 DEF InitDeviceRuntime, RefsInv
    <2>6. CASE ~devrt
      <3>1. devrt' /\ templates' = "live" /\ kernelCounter' = 0
        BY <1>5, <2>6 DEF InitDeviceRuntime
      <3>2. ~finalized
        BY <1>5, <2>6 DEF RefsInv
      <3>3. kernelCounter' \in 0 .. MaxKernelTypes - 1
        BY <3>1, LifeAssumption
      <3>4. QED
        BY <2>1, <2>4, <3>1, <3>2, <3>3 DEF RefsInv
    <2>7. QED
      BY <2>5, <2>6
  <1>6. CASE CallFinalize(a) /\ ~(Exit /\ UNCHANGED lifeVars)
    <2>1. a = Master /\ pc[a] = "idle"
      BY <1>6, OnlyMaster DEF CallFinalize, Calling, MasterCalls
    <2>2. /\ templates = "live" /\ templates' = "freed" /\ finalized' /\ hsa' = hsa
          /\ context' = context /\ devrt' = devrt /\ kernelCounter' = kernelCounter
          /\ pc' = [pc EXCEPT ![a] = "destroyQueues"]
      BY <1>6 DEF CallFinalize, GoTo, hsaVars
    <2>3. pc'[Master] = "destroyQueues"
      BY <1>1, <2>1, <2>2 DEF CallsInv
    <2>4. ~finalized
      BY <2>2 DEF RefsInv
    <2>5. HeldByProgram' = HeldByProgram /\ HeldByContext' = HeldByContext
          /\ GivenBack' = GivenBack
      BY <1>1, <2>2, <2>3, <2>4 DEF HeldByProgram, HeldByContext, GivenBack, FinalLabels
    <2>6. QED
      BY <2>2, <2>5 DEF RefsInv
  <1>7. CASE DestroyQueues(a) \/ ClearTables(a) \/ ResetInitialized(a) \/ ShutDown(a)
    <2>1. a = Master /\ finalized /\ pc[Master] \in FinalLabels
      BY <1>7, OnlyMaster DEF DestroyQueues, ClearTables, ResetInitialized, ShutDown,
                              FinalLabels, UpInv
    <2>2. HeldByProgram' = HeldByProgram
      BY <1>1 DEF HeldByProgram
    <2>3. CASE DestroyQueues(a)
      <3>1. /\ pc' = [pc EXCEPT ![Master] = "clearTables"] /\ hsa' = hsa
            /\ context' = context \ {"cpu"} /\ finalized' = finalized
            /\ templates' = templates /\ devrt' = devrt /\ kernelCounter' = kernelCounter
        BY <2>1, <2>3 DEF DestroyQueues, GoTo, flagVars, kernelVars
      <3>2. pc'[Master] = "clearTables"
        BY <1>1, <2>1, <3>1 DEF CallsInv
      <3>3. HeldByContext' = HeldByContext /\ GivenBack' = GivenBack
        BY <1>1, <2>1, <3>1, <3>2 DEF HeldByContext, GivenBack, FinalLabels
      <3>4. QED
        BY <2>2, <3>1, <3>3 DEF RefsInv
    <2>4. CASE ClearTables(a) \/ ResetInitialized(a)
      <3>1. /\ \E l \in {"reset", "shutDown"} : pc' = [pc EXCEPT ![Master] = l]
            /\ UNCHANGED RefsVars /\ kernelCounter' = kernelCounter
        BY <2>1, <2>4 DEF ClearTables, ResetInitialized, GoTo, flagVars, kernelVars,
                          hsaVars, RefsVars
      <3>2. pc'[Master] \in {"reset", "shutDown"}
        BY <1>1, <2>1, <3>1 DEF CallsInv
      <3>3. QED
        BY <1>1, <2>1, <3>1, <3>2, RefsPass DEF FinalLabels, RefsInv
    <2>5. CASE ShutDown(a)
      <3>1. /\ pc' = [pc EXCEPT ![Master] = "idle"] /\ hsa' = hsa - 1
            /\ context' = context /\ finalized' = finalized
            /\ templates' = templates /\ devrt' = devrt /\ kernelCounter' = kernelCounter
        BY <2>1, <2>5 DEF ShutDown, Return, flagVars, kernelVars
      <3>2. pc'[Master] = "idle"
        BY <1>1, <2>1, <3>1 DEF CallsInv
      <3>3. HeldByContext' = HeldByContext /\ GivenBack = 0 /\ GivenBack' = 1
        BY <1>1, <2>1, <3>1, <3>2 DEF HeldByContext, GivenBack, FinalLabels
      <3>4. hsa' = (HeldByProgram + HeldByContext) - 1
        <4>1. hsa = (HeldByProgram + HeldByContext) - 0
          BY <3>3 DEF RefsInv
        <4>2. HeldByProgram \in Int /\ HeldByContext \in Int
          BY DEF HeldByProgram, HeldByContext
        <4>3. QED
          BY <3>1, <4>1, <4>2
      <3>5. QED
        BY <2>2, <3>1, <3>3, <3>4 DEF RefsInv
    <2>6. QED
      BY <1>7, <2>3, <2>4, <2>5
  <1>8. CASE \/ ConstructGroup(a) \/ PushGroup(a) \/ CallGroupRelease(a)
             \/ CallRegisterModule(a) \/ CallCreateKernel(a) \/ AddGPUKernelImpl(a)
             \/ FillTemplate(a) \/ CallReleaseKernel(a) \/ WaitTasks(a)
             \/ CallGroupCreate(a)
    <2>1. pc[a] \notin FinalLabels
      BY <1>8 DEF ConstructGroup, PushGroup, CallGroupRelease, CallRegisterModule,
         CallCreateKernel, AddGPUKernelImpl, FillTemplate, CallReleaseKernel, WaitTasks,
         CallGroupCreate, Calling, FinalLabels
    <2>2. \/ Exit \/ Return(a)
          \/ \E l \in Label \ FinalLabels : GoTo(a, l)
      BY <1>8 DEF ConstructGroup, PushGroup, CallGroupRelease, CallRegisterModule,
         CallCreateKernel, AddGPUKernelImpl, FillTemplate, CallReleaseKernel, WaitTasks,
         CallGroupCreate, FinalLabels, Label, Others
    <2>3. pc'[a] \notin FinalLabels
      BY <1>1, <2>1, <2>2 DEF Exit, Return, GoTo, CallsInv, FinalLabels
    <2>4. UNCHANGED <<hsa, context, devrt, finalized, templates>>
      BY <1>8 DEF ConstructGroup, PushGroup, CallGroupRelease, CallRegisterModule,
         CallCreateKernel, AddGPUKernelImpl, FillTemplate, CallReleaseKernel, WaitTasks,
         CallGroupCreate, lifeVars, hsaVars, flagVars, kernelVars
    <2>5. kernelCounter' \in 0 .. MaxKernelTypes - 1
      <3>1. CASE FillTemplate(a)
        <4>1. \/ kernelCounter' = kernelCounter
              \/ ~(kernelCounter + 1 >= MaxKernelTypes) /\ kernelCounter' = kernelCounter + 1
          BY <3>1 DEF FillTemplate, lifeVars, kernelVars
        <4>2. QED
          BY <4>1, LifeAssumption DEF RefsInv
      <3>2. CASE ~FillTemplate(a)
        <4>1. kernelCounter' = kernelCounter
          BY <1>8, <3>2 DEF ConstructGroup, PushGroup, CallGroupRelease, CallRegisterModule,
             CallCreateKernel, AddGPUKernelImpl, CallReleaseKernel, WaitTasks,
             CallGroupCreate, lifeVars, kernelVars
        <4>2. QED
          BY <4>1 DEF RefsInv
      <3>3. QED
        BY <3>1, <3>2
    <2>6. QED
      BY <1>b, <2>1, <2>3, <2>4, <2>5 DEF RefsVars
  <1>9. CASE InitGPU(a) \/ InitCPU(a)
    BY <1>3, <1>9 DEF InitGPU, InitCPU
  <1>10. QED
    BY <1>a, <1>2, <1>4, <1>5, <1>6, <1>7, <1>8, <1>9 DEF LifeCall

LEMMA RefsSteps ==
  ASSUME CallsInv, LifeInv, RefsInv, Master \in App, [Next]_serviceVars
  PROVE  RefsInv'
  <1>1. program' = program
    BY StepProceeds DEF Proceeds, GoTo, Return, Exit, appVars
  <1>2. Master' = Master
    BY <1>1, MasterStays
  <1>3. ASSUME NEW a \in App, Life(a) PROVE RefsInv'
    BY <1>3, LifeKeepsRefs DEF Life
  <1>4. ASSUME NEW x \in Thread, Data(x) PROVE RefsInv'
    <2>1. QuietMove(x) /\ UNCHANGED lifeVars
      BY <1>4, CallIsQuiet, DataIsQuiet, CopyIsQuiet DEF Data
    <2>2. QED
      BY <1>1, <1>2, <2>1, QuietKeepsRefs
  <1>5. ASSUME NEW a \in App, Await(a) \/ Device(a) PROVE RefsInv'
    <2>1. a \in Thread /\ QuietMove(a) /\ UNCHANGED lifeVars
      BY <1>5, AwaitIsQuiet DEF Thread, Await, Device
    <2>2. QED
      BY <1>1, <1>2, <2>1, QuietKeepsRefs
  <1>6. CASE UNCHANGED appVars /\ UNCHANGED lifeVars
    <2>1. Master \in Thread /\ QuietMove(Master)
      BY <1>6 DEF Thread, QuietMove
    <2>2. QED
      BY <1>1, <1>2, <1>6, <2>1, QuietKeepsRefs
  <1>7. CASE Engine \/ Packets \/ Arguments \/ Hardware \/ UNCHANGED serviceVars
             \/ \E i \in Instance : GPU(i)
    BY <1>6, <1>7 DEF Engine, EngineStep, EngineCopy, GPU, Packets, Arguments, Hardware,
                      serviceVars
  <1>8. QED
    BY <1>3, <1>4, <1>5, <1>7 DEF Next, AppStep, Thread

LEMMA RefsStart ==
  ASSUME Init
  PROVE  RefsInv
  <1>1. /\ hsa = IF program.holdsHSA THEN 1 ELSE 0
        /\ context = {} /\ templates = "none" /\ finalized = FALSE /\ kernelCounter = 0
    BY DEF Init, LifeInit
  <1>2. 0 \in 0 .. MaxKernelTypes - 1
    BY LifeAssumption
  <1>3. HeldByContext = 0 /\ GivenBack = 0 /\ hsa = HeldByProgram /\ HeldByProgram \in Int
    BY <1>1 DEF HeldByContext, GivenBack, HeldByProgram
  <1>4. hsa = (HeldByProgram + HeldByContext) - GivenBack
    BY <1>3
  <1>5. QED
    BY <1>1, <1>2, <1>4 DEF RefsInv

\* How often HSA is held.
LEMMA RefsBounded ==
  ASSUME RefsInv, DownInv, program.holdsHSA \in BOOLEAN
  PROVE  hsa \in 0 .. 2
  <1>1. hsa = (HeldByProgram + HeldByContext) - GivenBack
    BY DEF RefsInv
  <1>2. HeldByContext \in {0, 1} /\ GivenBack \in {0, 1}
    BY DEF HeldByContext, GivenBack
  <1>3. CASE program.holdsHSA
    <2>1. HeldByProgram = 1
      BY <1>3 DEF HeldByProgram
    <2>2. QED
      BY <1>1, <1>2, <2>1
  <1>4. CASE ~program.holdsHSA
    <2>1. hsa \in {0, 1}
      BY <1>4 DEF DownInv
    <2>2. QED
      BY <2>1
  <1>5. QED
    BY <1>3, <1>4

LEMMA LaunchTypesStep ==
  ASSUME LaunchTypes, [Next]_serviceVars
  PROVE  LaunchTypes'
  <1>1. CASE launch' = launch
    BY <1>1 DEF LaunchTypes
  <1>2. ASSUME NEW l \in KernelLaunch, NEW place \in Place, SaveArguments(l, place)
        PROVE  LaunchTypes'
    <2>1. launch' = [launch EXCEPT ![l].stage = "saved", ![l].place = place]
      BY <1>2 DEF SaveArguments
    <2>2. QED
      BY <2>1 DEF LaunchTypes
  <1>3. ASSUME NEW l \in KernelLaunch, NEW s \in Segment, AcquireSegment(l, s)
        PROVE  LaunchTypes'
    <2>1. launch' = [launch EXCEPT ![l].stage = "acquired", ![l].segment = s]
      BY <1>3 DEF AcquireSegment
    <2>2. QED
      BY <2>1 DEF LaunchTypes
  <1>4. ASSUME NEW l \in KernelLaunch, Dispatch(l) \/ Finish(l)
        PROVE  LaunchTypes'
    <2>1. \E s \in {"running", "finished"} : launch' = [launch EXCEPT ![l].stage = s]
      BY <1>4 DEF Dispatch, Finish
    <2>2. QED
      BY <2>1 DEF LaunchTypes
  <1>5. ASSUME NEW l \in KernelLaunch, DeviceLaunch(l)
        PROVE  LaunchTypes'
    <2>1. /\ deviceIndex \in Segment
          /\ launch' = [launch EXCEPT ![l] =
               [stage |-> "running", place |-> [type |-> "device", id |-> 1],
                segment |-> deviceIndex]]
      BY <1>5 DEF DeviceLaunch
    <2>2. [type |-> "device", id |-> 1] \in Place
      BY KernelArgumentsAssumption DEF Place
    <2>3. QED
      BY <2>1, <2>2 DEF LaunchTypes
  <1>6. CASE Arguments
    BY <1>1, <1>2, <1>3, <1>4, <1>5, <1>6 DEF Arguments, ArgumentStep, CreateRegions
  <1>7. CASE ~Arguments
    BY <1>1, <1>7 DEF Next, AppStep, Await, Data, Life, Device, Engine, GPU, Packets,
                      Hardware, argumentVars, serviceVars
  <1>8. QED
    BY <1>6, <1>7

LEMMA LaunchTypesInit ==
  ASSUME ArgumentInit
  PROVE  LaunchTypes
  <1>1. CPUPlace \in Place /\ 0 \in Segment
    BY DeviceEnqueueAssumption DEF Place, Segment
  <1>2. QED
    BY <1>1 DEF ArgumentInit, LaunchTypes

\* The joint invariant of disciplined and careful programs.
TypesInv ==
  /\ LaunchInv /\ LifeInv /\ CarefulInv /\ RefsInv /\ LaunchTypes
  /\ Master \in App /\ exited \in BOOLEAN

LEMMA ExitedTyped ==
  ASSUME CallsInv, exited \in BOOLEAN, [Next]_serviceVars
  PROVE  exited' \in BOOLEAN
  BY StepProceeds DEF Proceeds, GoTo, Return, Exit, appVars

LEMMA TypesSteps ==
  ASSUME TypesInv, [Next]_serviceVars
  PROVE  TypesInv'
  <1>1. CallsInv
    BY DEF TypesInv, CarefulInv, CopyBase
  <1>2. LaunchInv' /\ LifeInv' /\ CarefulInv' /\ RefsInv' /\ LaunchTypes'
    BY <1>1, LaunchSteps, LifeSteps, CarefulSteps, RefsSteps, LaunchTypesStep DEF TypesInv
  <1>3. program' = program
    BY <1>1, StepProceeds DEF Proceeds, GoTo, Return, Exit, appVars
  <1>4. Master' = Master
    BY <1>3, MasterStays
  <1>5. exited' \in BOOLEAN
    BY <1>1, ExitedTyped DEF TypesInv
  <1>6. QED
    BY <1>2, <1>4, <1>5 DEF TypesInv

LEMMA TypesHold ==
  ASSUME TypesInv
  PROVE  TypeOK
  <1> USE DEF TypesInv
  <1>1. CallsInv /\ TrackInv /\ CopyTypes /\ SharesCounted
    BY DEF CarefulInv, CopyBase, CopyInv
  <1>2. pc \in [Thread -> Label]
    BY <1>1 DEF CallsInv
  <1>3. /\ pointer \in [Pointer -> Block \cup {Junk}]
        /\ allocated \subseteq Block /\ tracked \subseteq Block
        /\ block \in [Thread -> Block \cup {Junk}]
    BY <1>1 DEF TrackInv, TrackTypes
  <1>4. ASSUME NEW s \in Signal
        PROVE  signal[s] \in 0 .. 2 * Cardinality(Copy)
    <2>1. EngineShare(s) \subseteq Copy /\ ThreadShare(s) \subseteq Copy
      BY DEF EngineShare, ThreadShare
    <2>2. /\ Cardinality(EngineShare(s)) <= Cardinality(Copy)
          /\ Cardinality(ThreadShare(s)) <= Cardinality(Copy)
          /\ Cardinality(Copy) \in Nat
      BY <2>1, DataAssumption, FS_Subset, FS_CardinalityType
    <2>3. Cardinality(EngineShare(s)) \in Nat /\ Cardinality(ThreadShare(s)) \in Nat
      BY SharesFinite
    <2>4. signal[s] = Cardinality(EngineShare(s)) + Cardinality(ThreadShare(s))
      BY <1>1 DEF SharesCounted
    <2>5. QED
      BY <2>2, <2>3, <2>4
  <1>5. ASSUME NEW r \in Task
        PROVE  taskSignal[r] \in 0 .. Cardinality(Instance)
    <2>1. Outstanding(r) \subseteq Instance
      BY DEF Outstanding
    <2>2. /\ Cardinality(Outstanding(r)) <= Cardinality(Instance)
          /\ Cardinality(Instance) \in Nat
      BY <2>1, DeviceEnqueueAssumption, FS_Subset, FS_CardinalityType
    <2>3. Cardinality(Outstanding(r)) \in Nat
      BY OutstandingFinite
    <2>4. taskSignal[r] = Cardinality(Outstanding(r))
      BY DEF LaunchInv, SignalsCount
    <2>5. QED
      BY <2>2, <2>3, <2>4
  <1>6. /\ stage \in [Instance -> {"none", "segment", "slot", "counted", "queued",
                                   "running", "ended"}]
        /\ queue \in [0 .. QueueSize - 1 -> Instance \cup {Host}]
    BY DEF LaunchInv, DeviceTypes, StageName
  <1>7. /\ kernel \in [Kernel -> {"none", "empty", "live", "freed"}]
        /\ nextGroup \in Nat
    BY DEF LifeInv, KernelsKept, GroupsInv
  <1>8. hsa \in 0 .. 2
    <2>1. program.holdsHSA \in BOOLEAN
      BY <1>1, ApplicationAssumption DEF CallsInv
    <2>2. QED
      BY <2>1, RefsBounded DEF LifeInv
  <1>9. /\ kernelCounter \in 0 .. MaxKernelTypes - 1
        /\ context \subseteq {"hsa", "gpu", "cpu", "tasks"}
    BY DEF RefsInv
  <1>10. \A l \in KernelLaunch :
           /\ launch[l].stage \in {"none", "saved", "acquired", "running", "finished"}
           /\ launch[l].place \in Place /\ launch[l].segment \in Segment
    BY DEF LaunchTypes
  <1>11. /\ copy \in [Copy -> {"none", "ready", "staging", "dispatched", "completed"}]
         /\ mem \in [Memory -> Plain \cup {Junk}] /\ early \subseteq Copy
    BY <1>1 DEF CopyTypes
  <1>12. QED
    BY <1>2, <1>3, <1>4, <1>5, <1>6, <1>7, <1>8, <1>9, <1>10, <1>11 DEF TypeOK

\* What the services hold is bounded, for any threads, blocks, copies and launches of
\* disciplined and careful programs: HSA is held at most twice and given back no more
\* often than taken, although the flags that guard its initialisation outlive
\* atmi_finalize; the signal of a group of copies stays within two for each copy, that
\* of a task within one for each launch; the count of kernels stays below its limit.
THEOREM TypesAreCorrect ==
  (\A p \in Programs : Disciplined(p) /\ Careful(p)) => (Spec => []TypeOK)
  <1> SUFFICES ASSUME \A p \in Programs : Disciplined(p) /\ Careful(p)
               PROVE  Spec => []TypeOK
    OBVIOUS
  <1>1. Init => TypesInv
    <2>1. SUFFICES ASSUME Init PROVE TypesInv
      OBVIOUS
    <2>2. Disciplined(program) /\ Careful(program) /\ exited \in BOOLEAN
      BY <2>1 DEF Init, AppInit
    <2>3. LaunchInv /\ LifeInv /\ Master \in App
      BY <2>1, <2>2, LaunchInit, LifeStarts, MasterIs DEF Init
    <2>4. CarefulInv /\ RefsInv /\ LaunchTypes
      BY <2>1, <2>2, CarefulInit, RefsStart, LaunchTypesInit DEF Init
    <2>5. QED
      BY <2>2, <2>3, <2>4 DEF TypesInv
  <1>2. TypesInv /\ [Next]_serviceVars => TypesInv'
    BY TypesSteps
  <1>3. TypesInv => TypeOK
    BY TypesHold
  <1>4. QED
    BY <1>1, <1>2, <1>3, PTL DEF Spec
===============================================================================

# A TLA+ development of the ATMI runtime

ATMI (Asynchronous Task and Memory Interface) is a host runtime over HSA: a
program makes tasks (kernels on GPUs and CPUs, memory copies) with dependencies
between them, and the runtime gives each to a device when what it requires has
finished. This directory specifies that runtime in TLA+: both schedulers, groups,
CPU workers, and the services they rest on. It model-checks the modules with TLC
and proves with TLAPS the safety invariants of both schedulers, of groups and of
the CPU workers, and the safety part of the default scheduler's refinement of an
abstract task graph.

Paths below are relative to the repository's root; `task.cpp`, `data.cpp`,
`cputask.cpp`, ... are the files of `src/runtime/core/`.

## 1. The system

| component | state | operations | interacts through |
|---|---|---|---|
| Task scheduler, callback mode (`task.cpp`, `data.cpp`) | per task `state_`, `num_predecessors_`, `and_successors_`, `prev_ordered_task_`, `signal_`, kernarg segment; `ReadyTaskQueue`, `FreeSignalPool` | `LaunchTask`, `CreateTask`, `ActivateTask`, `MemcpyAsync`, `tryDispatch`, `dispatch`, `handle_signal`, `doProgress`, `wait` | locks of tasks, groups, kernels and `mutex_readyq_`, taken as a set; HSA signals and their async handlers |
| Task scheduler, barrier-packet mode (`task.cpp`) | `created_tasks_`, `dispatched_tasks_`, barrier signals | `tryDispatchBarrierPacket`, `enqueue_barrier`, `handle_signal_barrier_pkt` | the same, and AQL barrier packets |
| Group signals and synchronisation (`task.cpp`, `taskgroup.cpp`) | `group_signal_`, `task_count_`, `running_groupable_tasks_`, `running_default_tasks_`, `last_task_`, callback flags | groupable dispatch, `handle_group_signal`, required groups, `sync` | `group_mutex_`, the group signal |
| Task-group table (`taskgroup.cpp`) | `AllTaskgroups`, the id counter | `TaskGroupCreate`, `TaskGroupRelease` | `mutex_all_tasks_` |
| CPU agent (`cputask.cpp`, `machine.cpp`, `task.cpp`) | soft queues (write/read index, slots), doorbells, `worker_sig`, the task packet map | `acquireAqlPacket`, `dispatch`, `agent_worker`, `process_packet`, `agent_fini`, `get_global_id` | doorbell and worker signals, packet headers |
| Data movement (`data.cpp`) | the pointer tracker, `IdentityCopySignal` | `Memcpy`, `Malloc`, `Memfree` | a global signal, the tracker's lock |
| Kernels and kernarg pools (`kernel.cpp`) | kernels by id, `free_kernarg_segments_` | `CreateKernel`, `AddGPUKernelImpl`, `ReleaseKernel` | the kernel's mutex |
| Runtime life cycle (`system.cpp`) | initialisation flags and tables | `Initialize`, `Finalize`, module registration | everything |
| Device-side enqueue (`src/device_runtime`) | kernel templates, kernarg index | template registration, device launch | memory shared with devices |
| Machine and queues (`machine.cpp`, `queue.cpp`, `system.cpp`) | processors, their pools and queues, `g_atmi_machine`, the masks of compute units | discovery, `atmi_machine_get_info`, `chooseQueueFromPlace`, `acquireAqlPacket` | HSA's agents and pools, `ATMI_DEVICE_GPU_WORKERS` |
| Utilities, HSA interop (`utils.cpp`, `atmi_interop_hsa.cpp`) | none of their own | `lock_set`, environment, look-ups | the locks and tables of the others |
| Compiler plugin (`src/compiler`) | none at run time | prints C text | does not build at this commit |

`PROJECT.json` lists each with its status, and under `hazards` what is hard to
test in each, at its line.

### What is hard, and what makes each part correct

* Scheduler. Application threads, one handler thread and the devices advance a
  task's `state_` with different locks or none. Correct: a task starts after
  all it requires (also when links are made while a predecessor finishes);
  each predecessor is counted once; signals and kernarg segments have one owner;
  a task is dispatched once and its state never goes back; a task that found no
  resource is tried again; an ordered group's tasks run in their order; what was
  submitted completes.
* Barrier mode and groups. One signal for many tasks: its count, the handler
  that waits for it with a lock held, the callback flag. Correct: no task is
  missed by `sync`, no completion is overwritten, nobody waits for a lock whose
  holder waits for him.
* CPU agent. Indices are reserved under a lock and packets written outside it.
  Correct: each packet runs once, no slot is overwritten, no wake-up is lost,
  a completion signal means that all threads ran, workers can be ended.
* Tables, tracker, kernels, life cycle. Look-ups and releases in separate
  steps. Correct: nothing is used after its release, ids stay unique, a second
  initialisation finds what the first one found.
* Copies. A temporary block, a signal shared with the engine, one signal for all
  synchronous copies. Correct: the destination holds the source's contents when
  the copy is reported done, and the tracker knows exactly the live blocks.
* Device-side enqueue and arguments. The host lays out segments, the device
  computes the same places from other numbers. Correct: each kernel reads its
  own arguments; a task completes after all it launched below it.
* Machine. Pools offered by some processors to others, then a table, then queues.
  Correct: rows and ids mean what their readers take them for, packets go to a
  queue of the device that was asked for.

## 2. Modules

| module | what it is |
|---|---|
| `TaskGraph` | abstract specification: what the API promises of a graph of tasks, without a scheduler |
| `HostCallback` | the scheduler in its default mode (`ATL_SYNC_CALLBACK`): state, actions, properties, and its refinement of `TaskGraph` |
| `HostCallbackInvariant` | the inductive invariants of `HostCallback`: ownership, dependencies, and ordered groups |
| `HostCallback_proofs` | theorems on ownership and states |
| `HostCallback_refinement` | theorems on dependencies and on the refinement of `TaskGraph` (extends the former) |
| `HostCallback_progress` | theorems on what keeps the scheduler going, and on the lists and the enqueue order of ordered groups (extends the former) |
| `MCHostCallback` | small programs for TLC (`MCHostCallback_*.cfg`) |
| `CpuAgent`, `MCCpuAgent` | the CPU queues and workers, and values for TLC |
| `CpuAgent_proofs` | theorems on the queues' slots, on what workers pass over, and on completion signals |
| `GroupSignal`, `MCGroupSignal` | groupable tasks, `handle_group_signal`, required groups, `sync()`, and two programs |
| `GroupSignal_proofs` | theorems on the flag that registers the handler, on kernarg segments and on the group signal |
| `GroupSignal_sync` | theorems on what `sync()` has waited for and on the group's task counter (extends the former) |
| `BarrierScheduler`, `MCBarrierScheduler` | the scheduler with barrier packets (`ATL_SYNC_BARRIER_PKT`), and a program |
| `BarrierScheduler_proofs` | theorems on its lists, its signals, the end of a batch and dependences |
| `Application` | application threads and the API calls they make, for the modules below |
| `DataMovement` | blocks, the pointer tracker, synchronous and asynchronous copies |
| `DeviceEnqueue` | launches by kernels on a device |
| `RuntimeLifecycle` | `atmi_init`, `atmi_finalize`, task groups, kernels and their templates |
| `KernelArguments` | metadata, layout and contents of kernarg segments, thread ids of a CPU task |
| `Machine` | discovery, the table, queues and their masks, the queue of a task |
| `Services`, `MCServices` | the composition of these six with its properties, and programs |
| `Services_proofs` | theorems on the tracker, on launches by the device, on the life of the runtime, on what copies deliver and on the types |

The two schedulers never meet in a process: `g_dep_sync_type` (`task.cpp:58`) is set
once, from `ATMI_DEPENDENCY_SYNC_TYPE`. `GroupSignal` shows the parts of the default mode that only groupable tasks
reach. `HostCallback` treats CPU workers as devices, which `CpuAgent` opens, and
takes kernels, copies and queues from the services for granted.

### HostCallback

A program is given by constants: the tasks, their kinds (`gpu`, `cpu`, `data`
for a device copy, `staged` for a copy through host memory with its detached
thread), groups, kernels, requirements, which tasks are made by `CreateTask` and
later activated, which are synchronous, and which threads make the calls.

An action is a critical section (what runs between `lock_set` and
`unlock_set`), or a step between two of them that another thread can see:

| code | actions |
|---|---|
| constructors, `setParams` | `Construct` (links an ordered task into its group's list) |
| `LaunchTask` | `Construct`, `SaveArgs`, then the actions of `tryDispatch` |
| `CreateTask`, `ActivateTask` | `CreateTask`, `ActivateTask`, `TakeFront` |
| `tryDispatchHostCallback` | one of `TryTaken`, `TryWaitsForRequired`, `TryWaitsForPrevious`, `TryLacksResources`, `TryAcquires` |
| `dispatch`, rest of `tryDispatch` | `MarkDispatched`, `Publish`, `SpawnCopier`, `RegisterHandler`, `WaitCompleted` |
| staged copies (`DataTaskImpl::dispatch`) | `CopierIssue`, `CopierMark`, `CopierFinish` |
| `handle_signal_callback` | `HandleSignal`, `VisitSuccessor`, `ReleaseResources`, `MarkCompleted` |
| `doProgress` | `DoProgress`, `PopReady`, `TakeFront` and the actions of `tryDispatch` |
| devices (external) | `CompletePacket`, with `Earlier` for the barrier bit of an ordered group's queue |

`thread[h]` is a thread's program counter: where it is, on which task, and which
loop or call `tryDispatch` returns to. Abstractions: the FIFO order of
`FreeSignalPool` and of the kernarg free list is dropped (any free element may
be taken, so what holds here holds for FIFO); `and_successors_` is a set, and the
handler visits it in any order; AQL queues of devices have room. `signal_` and
`kernarg_region_index_` are never reset, as in the code. The handler thread is
one: `handle_signal` runs on the HSA runtime's single async-event thread, which
`task.cpp:504-507` relies on. `dispatches` is a history variable: how often
`acquireAqlPacket` was called for each task. No guard reads it; `TasksRunOnce` is
stated on it, so that it speaks of the whole run and not of the state a task has
when it is tried.

### CpuAgent

`HostCallback` treats a CPU worker as a device. `CpuAgent` opens it: dispatchers
reserve indices under `mutex_readyq_` (`AcquireAqlPacket`, `ReserveIndex`,
`FindRoom`, with the spin on a full queue), then outside the lock clear, fill
and publish each packet (`ClearPacket`, `FillPacket`, `StoreHeader`), and ring
(`LoadIndex`, `RingDoorbell`, `SignalWorker`: each a separate access). A worker
sleeps on `worker_sig` (`WakeUp`, `AcceptWork`), waits at the doorbell
(`SeeDoorbell`), and takes a slot (`ReadHeader`, `RunPacket` or `PassOver`,
`SignalCompletion`). `LeaveLoop` is the end of `process_packet`, which ends the
thread. `AgentFini`, `StoreIntMax`, `StoreFinish`, `JoinWorker` are
`agent_fini`. A header is a packet, `Invalid`, or `Cleared` (VENDOR_SPECIFIC,
which the memset leaves). `disturbed` is a history variable: the queues on which
two dispatches have overlapped. The properties of the queues are claimed for
the others, since on these they fail (run `overlap`).

The spin for a free slot (`FindRoom`, `task.cpp:1218`) has no bound and keeps
`mutex_readyq_`. `DispatchReturns` says that it ends, except in three states,
`SpinsForEver`, which nothing leaves: `Exhausted` (the worker has ended after
`queue->size` packets, `cputask.cpp:148`, and the queue is full again), `Overfull`
(the slots waited for are the task's own, which are published only after all its
places are found), `DoorbellBack` (overlapping dispatches left a doorbell too low,
and nobody is there to ring it). `DispatchedRun` excepts the packets of a task
whose dispatcher is in such a state.

### GroupSignal

All tasks are groupable and launched; a group is ordered or not. The attempt has
the same five outcomes as in `HostCallback` (`TryTaken`, `TryWaitsForGroup`,
`TryWaitsForPrevious`, `TryLacksResources`, `TryAcquires`), but waits for required
groups, tested by `task_count_` without their locks. After it come `JoinRunning`
(the push to `running_groupable_tasks_`), `MarkDispatched`, `Publish`, `TestAndSet`
(`callback_started_`) and `RegisterHandler`. `handle_group_signal` is one action per
critical section or observable step: `HandleGroupSignal`, `LockGroup`,
`TakeRunning`, `ReleaseTasks`, the loops of `doProgress`, `DiscountTasks`,
`LoadCount`, `ClearSuccessors`, and the loop over what the list then holds,
`BeginVisits`, `VisitSuccessor` and `PushReady` (`toVisit` is the rest of the loop's
range, `tempList` its `temp_list`). Its wait for the signal holds
`group_mutex_`: at label "drain" the group is locked (`Unlocked`). `sync()` is
`CallSync` to `SyncClears`. `taskCount` is an Int: -1 stands for the wrapped
unsigned value, and only its difference from 0 is ever tested.

The handler pops the list of an ordered group once for each task it took
(`task.cpp:696-705`), although each popped itself when it was dispatched, and so may
drop a task that is not dispatched yet. If its launcher then dispatches it, the
`pop_front` of `task.cpp:1649`, which has no test, meets an empty list. From there the
program's behaviour is undefined: `PopFront` records the group in `underflowed`,
`doProgress` may then see any task of the group at the front, or none (`Fronts`),
and the fairness holds no longer. The safety properties are checked and proved
beyond this state too.

`SyncReturns` has six exceptions, `Hung`. It excuses them only where they last: a
`sync()` that has not returned must be in one of them for ever. Each is a
finding or a hazard of its own: `HandlerBlocked` (the handler waits with the lock
that the dispatcher who raised the signal needs), `SetBack` (a CPU task completed
and then stored DISPATCHED), `Stranded` (a task linked to a group whose list was
cleared before the loop over it), `Dropped` (a task that the handler popped and whose
launcher found that it had to wait), `underflowed`, and `Starved` (a kernel that
lacked the segment of a kernel of a group of the other sort, whose list the
`doProgress` of that one does not serve, `task.cpp:829`). Run `group` reaches all six.

### BarrierScheduler

A task may be dispatched as soon as those it requires are: `TryAcquires` puts a
barrier packet before it (`AndPredecessors`). A thread that cannot dispatch or
that waits ends a batch: `CompareAndSet` on `first_created_tasks_dispatched_`,
`TakeSinks`, `StoreIdentity`, `EnqueueBarrier`, `RegisterHandler`; the handler
returns the signals of the batch (`HandleSignal`, `MarkExecuted`, `ReleaseSignal`,
`DoProgress`). `Device` runs queues: nothing behind a barrier packet starts
(`Started`), a kernel of an ordered group only at the front (`RunnableAt`), and a
barrier packet passes at the front (`PassBarrier`). What it waits for has been seen
at 0 once: `awaited[t]` is what the device of t has still to see (`SeePredecessor`),
and the packet behind a batch holds its sinks until they are seen (`SeeSink`). So
one packet stands for the chain that more than five dependences or sinks take, of
which only the last waits for the kernels in front of it (`task.cpp:203-206`).
`overlapped` is a history variable: a batch was started with another in flight,
which the shared `IdentityANDSignal` does not survive (`task.cpp:1848`); what
follows is excepted and, since `overlapped` stays true, cut by the constraint
`BeforeOverlap`. `WaitReturns` has four more exceptions, which name where the code
can hang: `Stuck`, `Forgotten` (a wake-up lost between `wait()` and the callback
thread's reset of the flag, `task.cpp:883`), `Untried`, and `[]Entangled` (a device
waits for a signal that has since been given to another task).

### Services

Each application thread runs a list of calls; each call is served by the actions
of its module, one per lock, HSA call or access that another thread can see.
`MCServices!AllPrograms` is the set of initial states: the composition is one
run, and each program reaches the parts it is for.

* `DataMovement`. `Malloc`, `Memfree` with its four separate steps (`FindAndFree`,
  `Find`, `RemoveRange`, `Release`), `Memcpy` with its staging block and the one
  `IdentityCopySignal`, and the staging threads of asynchronous copies; the copy
  engine is external. HSA may give a freed address out again. Memory contents
  are names of what was first written there, so a wrong direction or a reused
  temporary block shows.
* `DeviceEnqueue`. The steps of `kernel_dispatch` on the device: an index of the
  region, a place in the queue, the addition to the task's signal, the packet,
  the header. The packet processor is external.
* `RuntimeLifecycle`. `Initialize` and `Finalize` context by context with the flags
  they test, `TaskGroupCreate` in its three steps (id outside the lock, push and
  assertion under it), kernels with their implementations and templates.
* `KernelArguments`. Words of four bytes. What the compiler declares (alignment to
  size, hidden arguments), what code objects of version 2 and 3 say of it, the
  offsets and sizes the runtime computes from that, what host and device launches
  write, and what the kernels read.
* `Machine`. Discovery in HSA's order, the sharing of pools between kinds of
  processors, the table, the queues with the masks of `ATMI_DEVICE_GPU_WORKERS`,
  and the queue each task of a group gets.

`KernelArguments` and `Machine` are sequential algorithms: their inputs are the
initial states (layouts, machines), and the properties compare their results
with definitions of what the reader of each result expects.

## 3. Runs

| run | configuration | shows |
|---|---|---|
| `join` | 4 tasks, 2 application threads, 2 signals, one kernarg segment per kernel: t3 (CPU, 2 packets) joins a synchronous created GPU task and a staged copy, t4 requires t1 and shares t3's segment | in unordered groups: ownership of tasks and resources, exact predecessor counts, no forgotten task, a waker for the ready queue, completion of what was submitted, refinement of `TaskGraph` |
| `ordered` | one ordered group: created GPU task, GPU task, device copy; 2 application threads, 2 signals, 1 segment | exclusive resources, the group's list, enqueue order, states that only advance, one dispatch per task over the whole run, completion |
| `agents` | 2 dispatchers, 2 queues of 2 slots, 3 tasks with 4, 1 and 5 packets, `agent_fini` | slots kept, completion means run, wake-ups, a dispatch returns unless it is in one of three named states, `agent_fini` returns |
| `group` | a copy, a CPU task of 2 threads and a GPU task in g1; a GPU task and a copy that requires g1 in the ordered group g2; one segment for the three kernels; `sync()` anywhere | segments exclusive, the `callback_started_` protocol registers a handler for every running task, `task_count_` exact, what `sync` waited for is finished, `sync` returns unless one of six named states lasts |
| `barrier` | 5 tasks in an unordered and an ordered group, one created, one copy each, 2 queues, 2 signals | a batch's tasks have run when its handler says so, the pop is of the task dispatched, signals exclusive, dependences kept by the devices, `atmi_task_wait` returns |
| `services` | the programs of `MCServices`: 2 threads, 3 blocks, 5 copies, 6 launches with a queue of 2 and regions of 2 segments, 2 lives of the runtime, 24 kernels in code objects of both versions, machines with every subset of two access relations | copies delivered, tracker exact, tasks cover what they launched, arguments arrive, the runtime usable while it says so, packets, masks and table right, every call returns |
| `required`, `stranded`, `synchronous`, `assert`, `overlap`, `blocked` | the smallest program each | expected counterexamples, see below |

Bounds. Every set is finite by its constants and no counter needs a bound of its
own: a task is made once. The join has two tasks more than signals and two
tasks on one segment, so `TryLacksResources` and the drain of the ready queue
happen with a queue of up to two entries, and predecessors finish before,
during and after the links to them are made. Two application threads suffice for
each pair of critical sections to be interleaved, with the handler as the third.
In the ordered group the two rules on the previous task (same kind, other kind)
both apply, a resource is missing, and three loops take the front of the list. In
`agents` (50,175 states), t1 and t2 bring three packets to the second queue of two
slots, t3 brings as many to the first, and together they bring five to either: one
more than the two that the worker takes and the two that then fit. So indices
wrap, the spin on a full queue happens and ends, the worker's loop ends, and the
three states of `SpinsForEver` are reached.

`group` (30,355 states) has one application thread beside the handler; a
second one multiplies the states by ten, and what two threads add is the subject
of `blocked`. Its five tasks make the handler run several times, with tasks joining
at each of its steps, a segment missing, a group required and an ordered list,
from which the handler drops the task that its launcher has not dispatched.
`barrier` (107,812 states) has more tasks than signals, so batches end both for
want of a signal and by `wait`, and dependences within and across queues and
groups. In `services` (100,845 states) a device queue and a region are one entry
short of what is launched, so that both limits are met; three blocks serve five
copies, so temporary blocks are reused; `CHECK_DEADLOCK` is off there and in
`group` and `barrier` because the programs end, and in `agents` because a spin may
have no end. Two constraints, both named
`BeforeOverlap`, cut what follows an overlap that every property excepts.

Fairness. `HostCallback!Fairness`: weak fairness of each application thread's
steps within a call (the operating system schedules it; spinning in `wait` is
not a step until the wait can end), of the handler thread, and of each device
and copier for what it has been given. No fairness on making calls: a program
may stop. So `SubmittedComplete` has the calls as its premise. `CpuAgent!Fairness`
is the same for dispatchers inside a dispatch, workers, and `agent_fini` once
called. Mutexes need no strong fairness: critical sections are single actions in
`HostCallback`; in `CpuAgent` a dispatcher only holds the lock on the way to
releasing it, and its acquisition is the call, on which there is no fairness.
`GroupSignal`, `BarrierScheduler` and `Services` have the same: threads within a
call, the handler thread, devices and the copy engine, but in `Services` the
programs are fixed, so making the next call is a step of its thread. `GroupSignal`
assumes fairness only as long as no list was popped when empty.

### Disagreements between the code and what it says

* `required` (`DependenciesRespected`): a task of an ordered group that also
  requires a task outside the group is dispatched too early by the group's loop,
  because requirements are tested on the first attempt only.
* `stranded` (`SubmittedComplete`): `doProgress` serves the ordered list of one
  group or the ready queue; a task that waited for the last signal is not tried
  again when a task of the other sort releases it.
* `synchronous` (`SubmittedComplete`): a synchronous task with an unfinished
  predecessor is dispatched on the handler thread, which then waits for itself.
* `assert` (`KernargsAvailable`): an ordered task is visible to other threads
  before its arguments are saved.
* `overlap` (`NoPacketPassedOver`): a CPU worker passes over an index that is
  reserved but not written, and the packet never runs.
* `blocked` (`SyncAlwaysReturns`): `handle_group_signal` waits for the group's signal
  with `group_mutex_` held; a dispatcher that has raised the signal needs that
  mutex before its packet is published.

Others met while modelling, with no run of their own. The properties of the
passing runs except or bound them where a module reaches them:

* All calls of `atmi_memcpy` share `IdentityCopySignal` (`data.cpp:736`): two at once
  may return early or wait for ever.
* In barrier mode a host-to-device copy is staged, and its source read, before its
  predecessors have completed (`data.cpp:594`).
* Two groupable staged copies of a group each wait for the group's signal to be
  exactly 1, with the other's share in it (`data.cpp:616`).
* `TaskGroupCreate` before `atmi_init` takes handle 0, the default group's; two at
  once can fail the assertion that follows the push (`taskgroup.cpp:36-39`).
* A second `atmi_init` for another type of device returns at the flag
  (`system.cpp:299`), though `atmi_runtime.h:45-47` has calls per device type. After
  `atmi_finalize`, `atmi_init` exits, unless the application holds HSA itself: then
  it succeeds with destroyed queues and stale templates. `g_atmi_initialized` is
  set before `atmi_ke_init`.
* `~GPUKernelImpl` frees the region before `~KernelImpl` waits for the tasks
  (`kernel.cpp:251`). `arg_offsets_` and `kernel_objects_` are written past their size
  after a `reserve` (`kernel.cpp:168`, `178`). Segments are not aligned to 16 bytes
  as `hsa.h:3191` asks.
* `kernel_counter + 1 >= max_kernel_types` refuses the last kernel
  (`device_rt.cpp:192`). The kernarg index of device launches and the write index of
  their queue have no bound.
* `get_global_id` divides by zero in a grid with a dimension of 0
  (`cputask.cpp:674`).
* An ordered group keeps one queue per type of device, not per device
  (`taskgroup.h:45`); a CPU task for another device then looks for it past the end
  of its own (`task.cpp:1204-1210`).
* The masks of compute units reach the first GPU only (`machine.cpp:97`), against
  "uniform for all devices" (`utils.cpp:180-191`). `devices_by_type` of both GPU types
  point at the first GPU of either (`system.cpp:683-684`). A memory place's "-1 for
  any" (`atmi.h:228`) is an index (`data.cpp:96`). The table calls GPUs iGPU or dGPU,
  which the switch on places does not know (`data.cpp:80-102`).
* A created task whose requirements have all finished when `CreateTask` looks is
  never dispatched: `ActivateTask` tests `predecessors_`, not what is left of them
  (`task.cpp:2198`).

The properties of the passing runs say where they hold: the dependency
property for unordered groups, the completion property in programs with groups of
one sort, without a synchronous task that has predecessors, and in which no
unordered task with requirements is made by `CreateTask`.

## 4. Proofs

The proof modules prove, for all values of the constants that satisfy the named
assumptions of the module they are about (`TaskAssumption`, `ThreadAssumption`,
`PoolAssumption`, `FiniteAssumption` of `HostCallback`; `GroupTaskAssumption`;
`BarrierAssumption`; those of `CpuAgent`, `Application`, `DataMovement`, `DeviceEnqueue` and
`RuntimeLifecycle`), the following. The first twelve are about `HostCallback`.

| theorem | statement |
|---|---|
| `TypeCorrect` | `Spec => []TypeOK` |
| `OwnershipCorrect` | `CreatedUnordered => (Spec => []OwnershipInv)` |
| `ResourcesStayExclusive` | `CreatedUnordered => (Spec => []ResourcesExclusive)` |
| `StatesOnlyAdvance` | `CreatedUnordered => (Spec => StatesAdvance)` |
| `TasksDispatchedOnce` | `CreatedUnordered => (Spec => []TasksRunOnce)` |
| `PredecessorsCounted` | `Unordered => (Spec => []PredecessorCountExact)` |
| `DependenciesAreRespected` | `Unordered => (Spec => []DependenciesRespected)` |
| `StepsOfTaskGraph` | `Unordered => (Spec => Graph!Init /\ [][Graph!Next]_(Graph!vars))` |
| `ReadyTasksAreQueued` | `Unordered /\ CreatedRequireNothing => (Spec => []ReadyTasksQueued)` |
| `QueueIsWoken` | `Unordered /\ Signal # {} => (Spec => []QueueHasWaker)` |
| `OrderedListsAreExact` | `CreatedUnordered => (Spec => []OrderedListExact)` |
| `EnqueueOrderKept` | `CreatedUnordered /\ CopiesApart => (Spec => []EnqueueOrder)` |
| `HandlerAlwaysComes` (`GroupSignal`) | `Spec => []HandlerComes` |
| `SegmentsAreExclusive` (`GroupSignal`) | `Spec => []SegmentsExclusive` |
| `GroupTypesCorrect` (`GroupSignal`) | `Spec => []TypeOK` |
| `SyncedTasksAreFinished` (`GroupSignal`) | `OrderedAlone => (Spec => []SyncedFinished)` |
| `TaskCountIsExact` (`GroupSignal`) | `OrderedAlone /\ AllOwn => (Spec => []TaskCountExact)` |
| `AgentTypeCorrect` (`CpuAgent`) | `Spec => []TypeOK` |
| `PacketsAreKept` (`CpuAgent`) | `Spec => []PacketsKept` |
| `UndisturbedAreNotPassedOver` (`CpuAgent`) | `Spec => []UndisturbedNotPassedOver` |
| `CompletedTasksHaveRun` (`CpuAgent`) | `Spec => []CompletedHaveRun` |
| `CreatedListsAreExact` (`BarrierScheduler`) | `Spec => []CreatedExact` |
| `BarrierTypeCorrect` (`BarrierScheduler`) | `Spec => []TypeOK` |
| `SignalsHaveOneOwner` (`BarrierScheduler`) | `Spec => []SignalsExclusive` |
| `BatchesAreFinished` (`BarrierScheduler`) | `Spec => []BatchesFinished` |
| `DependenciesAreKept` (`BarrierScheduler`) | `Spec => []DependenciesRespected` |
| `TrackerIsExact` (`Services`) | `Spec => []TrackerExact` |
| `LaunchesAreCovered` (`Services`) | `Spec => []LaunchesCovered` |
| `RuntimeIsUsable` (`Services`) | `(\A p \in Programs : Disciplined(p)) => (Spec => []RuntimeUsable)` |
| `CopiesAreDelivered` (`Services`) | `(\A p \in Programs : Careful(p)) => (Spec => []CopiesDelivered)` |
| `TypesAreCorrect` (`Services`) | `(\A p \in Programs : Disciplined(p) /\ Careful(p)) => (Spec => []TypeOK)` |

So every invariant of run `join` is proved for programs of unordered groups of
any size, with any number of threads, signals and segments, and so is the safety
part of `ImplementsTaskGraph`; every invariant of runs `agents` and `barrier` for
all programs, queues, threads and signals; every invariant of run `group`, two of
them under premises; and all but two of those of run `services`, three of them under
premises, and without the run's constraint.

The premises are needed. `CreatedUnordered` says that no task of an ordered group
is made by `CreateTask`: `CreateTask` stores INITIALIZED without looking at the
state (`task.cpp:2161`), and an ordered task is in its group's list, where another
thread finds it, since its constructor. `Unordered` says that no task is in an
ordered group: of those `DependenciesRespected` is false (run `required`).
`CreatedRequireNothing` excludes created tasks with requirements, which
`ActivateTask` may abandon (`task.cpp:2198`). `CopiesApart` says that no ordered group
has two copies: nothing orders those (`data.cpp:645`). `OrderedAlone` says that the
tasks of an ordered group are no CPU tasks, which may be set back to DISPATCHED
after the handler completed them (`task.cpp:1117`) and before `sync()` looks, and
that the thread that waits for an ordered group is the one that launches into it;
unordered groups may have tasks of any kind and any thread. `AllOwn` says that every
task is launched by the thread that waits for its group: `sync()` empties
`running_groupable_tasks_` and with it forgets a task that another thread has
counted and the handler has not taken, whose count is then not subtracted.
`Disciplined` asks of a program what `atmi_runtime.h` does and what a program needs:
one thread calls `atmi_init` and `atmi_finalize`, launches and releases kernels;
a thread makes groups when it has, or knows that the first has, initialised ATMI; a
kernel is made while ATMI is initialised, before its launches, and released after
them (what happens otherwise is in section 3). `MCServices` asserts it of each of
its programs, several lives of the runtime and second threads that make groups among
them. `Careful` asks of a program's copies what keeps any copy meaningful: an
asynchronous copy is made by one call (`CopiesOnce`); the device blocks that a call
copies were allocated by its thread before and not freed since (`OperandsAllocated`);
no other thread allocates or frees them, nor its own after an asynchronous copy of them
(`OperandsKept`); and of two copies that may be under way together none writes what the
other reads or writes, but for one that writes what a copy that requires it reads
(`OperandsApart`). Nothing in `data.cpp` checks any of it. `MCServices` asserts it of
its programs too: chains of copies through device blocks, staged and not, copies of two
threads, and blocks that are freed and allocated again are among them. `Signal # {}`: without any signal a
task is queued with nobody to wake it. The runs `join` and `ordered` evaluate the
same properties on programs with created, synchronous, copied and staged tasks;
the program of `ordered` has a created task in its ordered group, which is outside
`CreatedUnordered`, so there TLC says something that the theorem does not.

Ownership. `TypeInv` adds to `TypeOK` that threads name tasks and that a task
being dispatched or handled has a signal; it is inductive by itself. That a
signal has one owner is not inductive: it needs to know who may touch a task in
each of its states. `OwnershipInv` says so. `CreationPrivate`: a task between its
constructor and the end of `CreateTask` is in no list, no successor set and no
other thread's hands. `OneOwner`: from READY on, one thread dispatches the task,
then its handler is registered, then the handler runs, and each hands the task
over to the next. `PacketsInFlight`: packets exist only between READY and
EXECUTED, so when the handler returns the signal it is zero. `SignalsExclusive` and
`SegmentsExclusive` follow step by step. The proof of each conjunct is by the
actions, grouped as in `Next` (calls, tries, dispatch steps, devices, handler).
`StatesAdvance` follows from the owner of a task being the only writer of its
state. `TasksRunOnce` follows from it in turn, through `DispatchedWhenReady`: the
count of dispatches is 1 for a task that is READY or beyond, 0 for any other.
Without the premise that fails: an ordered task that a loop has dispatched is set
back by `CreateTask` and dispatched a second time.

Dependencies. Requirements are tested by the first attempt on a task and never
again, so that they hold at dispatch needs to be carried by the count of
predecessors. `DependencyInv` does: the first attempt is made by one thread
(`FirstAttemptAlone`); it links the task to all that is unfinished
(`LinksComplete`); the count is the number of links not yet visited
(`PredecessorCountExact`, with `VisitsSuccessors` for the handler at work); so
whatever is tried again, queued or on the handler's list has nothing left to wait
for (`AttemptsCleared`). A step that makes a task READY then maps to `Begin` of
`TaskGraph`, the end of its last packet to `Finish`, and the rest to stuttering.

Progress. `NobodyForgotten` says that a task that waits for nobody is in a queue or
in a thread's hands; it is inductive beside the two invariants. For the waker,
`SignalsConserved` and `SegmentsConserved`: what is not in a pool is held by a
task, so a task that finds none missing finds a holder (`LackMeansHeld`), whose
handler will look at the queue; `DrainVia` ties the handler's place to its loop,
and the loop's budget covers what is queued when the last holder is gone.

Order. `OrderInv` says that a group's list is the end of the chain of
`prev_ordered_task_` that starts at `last_task_`, that it has each task made and not
READY, and no other (`ListsChained`). A task whose previous one does not block it is
therefore the front of the list, and the unconditional `pop_front` of whoever
dispatches removes the right task. That packets respect the order then depends on
the two rules of `tryDispatch` (`PreviousFirst`): the previous task of another kind
has EXECUTED; one of the same kind is before it in the queue of the group, whose
packets have the barrier bit.

Groups. A dispatcher adds its task to `running_groupable_tasks_`, publishes it, and
registers the handler only if `callback_started_` was clear; the handler clears the
flag and takes the running tasks in one critical section. `HandlerComes` is not
inductive: that a dispatcher may leave its task to a flag already set needs
`FlagStandsForHandler`: a flag that is set stands for a thread about to register
the handler, a handler registered, or one that has not reached the list yet. With
it, the steps of the protocol are looked at one by one, and every other step is
`Quiet`: it moves no thread in the protocol and touches neither flag. No premise.

Segments and the group signal. `OwnersInv`: two dispatchers never have one task in
hand (`DispatchersApart`), a task is among the running ones or taken by the handler,
not both (`TakenApart`), and a running task is READY or DISPATCHED. So the handler
returns the segment of a task once, and `SegmentsExclusive` is preserved, though a
CPU task may be set back after that. `PacketsInv`: the signal is the number of
packets between the attempt that raised it and their device (`SignalCounts`, a
cardinality over pairs of a task and a packet), so the handler that finds it at 0
takes only tasks without packets (`DoneEmpty`), and a dispatcher that has not
published is never overtaken (`UnseenKept`).

`sync()`. That all tasks of the group are COMPLETED when only the last one, or a list
that `sync()` itself empties, has been looked at needs the whole way of a task.
`LaunchInv`: a thread launches in the order of its program, and the handler tries
only what was launched. `SyncLists`: in an unordered group each launched task is in
`running_default_tasks_`, or in what `sync()` has still to wait for, or settled; in
an ordered one the chain of `prev_ordered_task_` goes from `last_task_` back to the
last settled task. Settled means COMPLETED with no dispatcher left to set it back,
which lasts (`SettledKept`). `ReadyInOrder` and `DoneInOrder` say that the tasks of an
ordered group become READY and are completed in their order: the handler takes all
that run, and when it does so, with the signal at 0, all that are READY do run
(`AcquiredRun`). So the last one COMPLETED means that all are. TLC checked
`LaunchInv` and `SyncInv` on the program of run `group`, and on one with an ordered
group of a GPU task and two copies beside a CPU task of another thread (1,051,229
states), before they were proved.

Barrier packets. `BarrierInv` is built in layers, each proved with those below it.
`BaseInv` holds whether or not batches have overlapped: the types, where a thread may
be and what it has in hand, `CreatedExact`, `PlacesInv` (a task that is READY or
DISPATCHED is in one place: the group's list, the batch of a thread, a batch that
waits for its handler, or what the handler treats) and `SignalInv` (a signal's
value is the number of unfinished tasks that have had it, a cardinality). The rest
holds until batches overlap. `FlightInv`: one batch at a time is between the store
on `IdentityANDSignal` and its handler, the signal is 1 until that batch's barrier
packet has passed, and there is one such packet. `MarkInv` is why a signal is not
returned too early: `TryAcquires` puts a task in the group's lists before
`MarkDispatched`, in other critical sections, and another thread may take it into
a batch in between; but it is then a sink of that batch, or one that the batch's
packet waits for, its signal is above 0, and the handler cannot have been called;
from which `SignalsExclusive`. `PacketInv`: an unfinished kernel that has its
resources has one packet, in its own queue. `CoverInv` is why it is enough to wait for
sinks: an unfinished task of a batch is a sink, or a later one of the batch waits
for it, through its awaited predecessors or from behind it in an ordered group's
queue. A sink that is replaced is followed by what replaces it, and a task that
finishes had nothing unfinished to follow. So when the packet has seen all its
sinks at 0 the batch is finished: its last unfinished task would be a sink
(`ExecutedInv`). Then a required task that is EXECUTED, for which no barrier packet
is made, is finished too (`DependencyInv`). `CopiesAdjacent` excepts, per group,
two copies in a row in an ordered group: the second replaces the first as a sink
and nothing makes it wait for the first (`data.cpp:645`). TLC checked the
conjuncts on the program of run `barrier` without its constraint (370,600 states),
and, not to the end (some 4,000,000 states each), on two programs with two
application threads, one of them with adjacent copies, before they were proved;
`CoverInv` is there quantified over the lists that `Listed` names.

Task counter. The handler takes the running tasks, subtracts at the end the length of
the list it took, and dispatches more tasks in between, which may complete before
their launchers have counted them. `CountInv` says that the list has no task twice
and is of the handler's group (`TasksHeld`, from `OwnersInv`), and that all its tasks
are COMPLETED when the handler reaches the subtraction (`HeldOver`): so the length
subtracted is the number of tasks that become discounted, and the counter does not
drift, though in an ordered group it may be 0 early or -1 for a while.

Tracker. `Memfree` looks a range up, removes it, and gives the block back in separate
steps, and HSA may give the address out in between. `TrackInv` says who holds each
allocated block: one variable of the program or one thread that is between HSA's
call and the tracker's, never two (`BlocksApart`), so that the tracker lacks exactly
the blocks in such hands (`BlocksHeld`).

Launches. `LaunchInv`: the signal of a task is the number of its launches that are counted
and have not ended (`SignalsCount`, a cardinality); a kernel ends after its
launches were counted (`LaunchesNested`), so at 0, by the well-foundedness of the
tree of launches (`DeviceEnqueueAssumption`), none is left at any depth (`DoneEnded`).
Segments are taken from a counter, so two launches of a kernel share one only past
the size of the region (`SegmentsApart`).

Life of the runtime. The argument goes from the calls that a thread has still to make
(`CallsAhead`: what the discipline says of a program stays true of the calls left)
and the label it is at (`LabelsCall`) to the rest: `UpInv` relates the flags, the
contexts and the queues to what `atmi_init` was asked for, at each step of it;
`DownInv` counts the references to HSA where only ATMI holds it; `GroupsInv` relates
handles to the table of groups; `KernelsKept` says that the kernels of tasks under
way have their records. TLC checked `LifeInv` on the programs of `services` before
it was proved.

Copies. What a copy reads and writes must not change under it, though its blocks are
other variables' blocks before and after. `OperandsInv` relates a thread to its program:
the calls left are the program's end (`CallsLeft`), so `Careful` speaks of them and of
those made; their device operands are allocated or will be (`PointersReady`), and those
of the asynchronous copies made still are (`CopiesMade`). With `TrackInv`, which keeps
the blocks of variables and the temporary blocks of copies apart, no step moves an
operand of a copy under way. `PlacesKept` says what a thread at each label has in hand
and what the engine was given for it. The copies of a group share one signal, which is
the engine's and each staging thread's at once: it is the sum of their shares
(`SharesCounted`, two cardinalities), so that it is 0, or one for the thread that waits,
only when the engine is done with the copy. `IdentityUsed` says the same of the signal
of `atmi_memcpy` (`data.cpp:736`), up to the first overlap. `RequiredInv`: a copy that
has read its source has none before it that may still write there, except for the
copies of `early`. Then the contents can be followed through the blocks: the temporary
block, or the destination, has what the source has from the step that filled it
(`CarriedInv`), because whatever another copy writes is neither. TLC checked these on
the programs of `services` and on eight more settings before they were proved.

Types of the services. Most of `TypeOK` is in the invariants above; the signal of copies and
that of a task are bounded because they are cardinalities. That HSA is held at most
twice and not given back too often is `RefsInv`: by the application if it uses HSA, and
by ATMI from its first context to the end of `atmi_finalize`, whose decrement in
`ShutDown` has no guard of its own. It happens once because the templates are freed
before and are not made again, `g_atmi_devrt_initialized` staying set.

CPU workers. A queue's live indices are in a window of `QueueSize` that ends at the
worker's (`PlacesDistinct`, from the spin for room under the mutex), so two of them
never share a slot, and what a slot holds was put there for the index that the
worker will read (`HeadersPlaced`). On a queue without overlapping dispatches all
that a doorbell lets the worker reach has been stored (`Undisturbed`), so it runs
what it passes. The signal of a task is at least the number of its packets that
are not behind their worker (`SignalCovers`): at 0 all have been read, and on such
queues have run.

Only model-checked: liveness and the fairness part of the refinement, which TLAPS
does not reach; what the theorems' premises exclude; and two invariants of
`Services`. `ArgumentsArrive` and `MachineUsable` say what `KernelArguments` and
`Machine` compute with folds and recursive functions over lists of arguments,
processors and pools, for which the proof would be an induction over data.

## 5. What is not modelled, and the plan

* Scheduler, default mode: full AQL queues of GPUs, profiling (`updateMetrics`),
  task templates, ordered groups with CPU tasks of several threads (their packets
  go to several queues) and the order of several copies in one ordered group:
  nothing in callback mode provides it.
* Groups: groups that mix groupable and other tasks, staged groupable copies with
  the scheduler around them (`DataMovement` has their signals), created groupable
  tasks, groups in barrier mode.
* Barrier mode: groupable, synchronous and CPU tasks, staged copies, room in the
  queues, and the data race on `created_tasks_` (pushed under `group_mutex_`, popped
  under `mutex_readyq_`).
* Services: two threads creating kernels at once, a block or kernel released
  twice, `atmi_init` and `atmi_finalize` racing, tasks in flight at
  `atmi_finalize`, copies of parts of a block, the search for kernarg regions,
  `ATMI_DEVICE_CPU_WORKERS`, the read-only tables of symbols and kernel sizes.
* Locks: `lock_set` takes sets of locks; the actions take the set at once.
* The compiler plugin: neither it nor its output builds at this commit
  (`atl_synckernel.c` includes `atl_internal.h`, which is missing; the output uses
  `atl_kl_init` and `atmi_klist_t`, defined nowhere).

What the map cannot reach: `hsa.h` and `hsa_cl.h` are vendored interfaces of HSA,
`atmi.h` and `atmi_runtime.h` declarations and comments, the plugin is dead, and
much of `system.cpp` parses metadata and reports errors. These are about half of
the implementation's lines.

Next, most useful first: full queues in `HostCallback`, with `mutex_readyq_` held
during the spin; `BarrierScheduler` as a refinement of `TaskGraph`
up to an overlap (its invariant is there); a module for `lock_set`.

## 6. Running

    tlc -workers 2 -config MCHostCallback_join.cfg MCHostCallback
    tlc -workers 2 -config MCGroupSignal_group.cfg MCGroupSignal
    tlc -workers 2 -config MCBarrierScheduler_barrier.cfg MCBarrierScheduler
    tlc -workers 2 -config MCServices_services.cfg MCServices
    tlapm HostCallback_proofs.tla
    tlapm HostCallback_refinement.tla
    tlapm HostCallback_progress.tla
    tlapm GroupSignal_proofs.tla
    tlapm GroupSignal_sync.tla
    tlapm CpuAgent_proofs.tla
    tlapm BarrierScheduler_proofs.tla
    tlapm Services_proofs.tla

The other configurations are run in the same way; the longest, `services`, takes
about a minute.

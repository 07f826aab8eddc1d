---------------------------- MODULE DeviceEnqueue ----------------------------
(* Tasks whose kernels launch kernels: a running kernel takes an argument  *)
(* segment and a slot of GPU queue 0 with two fetch-and-adds, counts the   *)
(* launch on the completion signal of its own packet, and sets the header. *)
(* A task completes when its signal, which all launches below it share, is *)
(* back at 0.  Launches on CPU queues (agent_dispatch) take the same steps. *)
EXTENDS Application

CONSTANTS
  Instance,     \* the launches, by the host or by a running kernel
  Host,
  Parent,       \* Instance -> Instance \cup {Host}: who makes the launch
  TaskOf,       \* Instance -> Instance: the launch by the host it is below
  Kernel,
  KernelOf,     \* Instance -> Kernel
  QueueSize,    \* slots of the queue
  MaxSegments   \* MAX_NUM_KERNELS

Task == {i \in Instance : Parent[i] = Host}

\* Every launch is below one by the host, and a call of the program is one launch.
ASSUME DeviceEnqueueAssumption ==
  /\ QueueSize \in Nat \ {0} /\ MaxSegments \in Nat \ {0}
  /\ IsFiniteSet(Instance) /\ Host \notin Instance
  /\ Parent \in [Instance -> Instance \cup {Host}]
  /\ KernelOf \in [Instance -> Kernel]
  /\ \A i \in Instance : TaskOf[i] = IF Parent[i] = Host THEN i ELSE TaskOf[Parent[i]]
  /\ \A S \in (SUBSET Instance) \ {{}} : \E i \in S : Parent[i] \notin S

IsLaunch(call) == call.op = "launch"
ASSUME LaunchAssumption ==
  \A p \in Programs : \A a, b \in App :
    \A m \in DOMAIN p.calls[a], n \in DOMAIN p.calls[b] :
      IsLaunch(p.calls[a][m]) =>
        /\ p.calls[a][m].task \in Task
        /\ IsLaunch(p.calls[b][n]) /\ p.calls[b][n].task = p.calls[a][m].task
             => a = b /\ m = n

VARIABLES
  stage,        \* how far each launch is
  slot,         \* the index its packet goes to
  segment,      \* the argument segment it took
  region,       \* kernarg_regions: the launch whose arguments a segment holds
  kernargIndex, \* the counter at the start of each kernel's region
  queue,        \* the packets of the queue; Host is an INVALID header
  writeIndex, readIndex,
  taskSignal,   \* the completion signal of each task
  done,         \* tasks marked COMPLETED
  overran       \* a slot was taken that had not been read

segmentVars == <<segment, region, kernargIndex>>
queueVars == <<slot, queue, writeIndex, readIndex, overran>>
deviceVars == <<segmentVars, queueVars, stage, taskSignal, done>>

Segment == 0 .. MaxSegments - 1

DeviceInit ==
  /\ stage = [i \in Instance |-> "none"]
  /\ slot = [i \in Instance |-> 0]
  /\ segment = [i \in Instance |-> 0]
  /\ region = [k \in Kernel |-> [s \in Segment |-> Host]]
  /\ kernargIndex = [k \in Kernel |-> 0]
  /\ queue = [n \in 0 .. QueueSize - 1 |-> Host]
  /\ writeIndex = 0 /\ readIndex = 0
  /\ taskSignal = [r \in Task |-> 0]
  /\ done = {}
  /\ overran = FALSE

Advance(i, s) == stage' = [stage EXCEPT ![i] = s]

\* LaunchTask and dispatch, as modelled in detail by HostCallback: the host
\* waits for a free slot.
CallLaunch(a) ==
  LET r == Current(a).task IN
  /\ Calling(a, "launch")
  /\ writeIndex - readIndex < QueueSize
  /\ slot' = [slot EXCEPT ![r] = writeIndex]
  /\ writeIndex' = writeIndex + 1
  /\ queue' = [queue EXCEPT ![writeIndex % QueueSize] = r]
  /\ taskSignal' = [taskSignal EXCEPT ![r] = @ + 1]
  /\ Advance(r, "queued")
  /\ Return(a)
  /\ UNCHANGED <<segmentVars, readIndex, done, overran>>

\* atmid_task_launch takes the next segment of the kernel's region, whether or
\* not it is in the region, and copies the arguments to it.
TakeSegment(i) ==
  LET k == KernelOf[i] IN
  /\ stage[i] = "none" /\ Parent[i] # Host /\ stage[Parent[i]] = "running"
  /\ segment' = [segment EXCEPT ![i] = kernargIndex[k]]
  /\ kernargIndex' = [kernargIndex EXCEPT ![k] = @ + 1]
  /\ region' = IF kernargIndex[k] \in Segment
               THEN [region EXCEPT ![k][kernargIndex[k]] = i] ELSE region
  /\ Advance(i, "segment")
  /\ UNCHANGED <<queueVars, taskSignal, done>>

\* __ockl_hsa_queue_add_write_index: nothing waits for the slot to be free.
TakeSlot(i) ==
  /\ stage[i] = "segment"
  /\ slot' = [slot EXCEPT ![i] = writeIndex]
  /\ writeIndex' = writeIndex + 1
  /\ overran' = (overran \/ writeIndex - readIndex >= QueueSize)
  /\ Advance(i, "slot")
  /\ UNCHANGED <<segmentVars, queue, readIndex, taskSignal, done>>

\* Mutant: the launch is not counted.
CountNothing(i) ==
  /\ stage[i] = "slot"
  /\ Advance(i, "counted")
  /\ UNCHANGED <<segmentVars, queueVars, taskSignal, done>>

\* __ockl_hsa_signal_add on the signal of the packet of the running kernel.
CountLaunch(i) ==
  /\ stage[i] = "slot"
  /\ taskSignal' = [taskSignal EXCEPT ![TaskOf[i]] = @ + 1]
  /\ Advance(i, "counted")
  /\ UNCHANGED <<segmentVars, queueVars, done>>

\* The header makes the packet valid.
SetHeader(i) ==
  /\ stage[i] = "counted"
  /\ queue' = [queue EXCEPT ![slot[i] % QueueSize] = i]
  /\ Advance(i, "queued")
  /\ UNCHANGED <<segmentVars, slot, writeIndex, readIndex, taskSignal, done,
                 overran>>

\* The packet processor takes valid packets in order, without the barrier bit,
\* and makes their headers INVALID.
ProcessPacket ==
  LET n == readIndex % QueueSize IN
  /\ readIndex < writeIndex /\ queue[n] # Host
  /\ Advance(queue[n], "running")
  /\ queue' = [queue EXCEPT ![n] = Host]
  /\ readIndex' = readIndex + 1
  /\ UNCHANGED <<segmentVars, slot, writeIndex, taskSignal, done, overran>>

\* A kernel ends when its code, which makes its launches, has run.
Launched(i) == stage[i] \in {"queued", "running", "ended"}

EndInstance(i) ==
  /\ stage[i] = "running"
  /\ \A c \in Instance : Parent[c] = i => Launched(c)
  /\ taskSignal' = [taskSignal EXCEPT ![TaskOf[i]] = @ - 1]
  /\ Advance(i, "ended")
  /\ UNCHANGED <<segmentVars, queueVars, done>>

\* The completion handler of the task.
CompleteTask(r) ==
  /\ stage[r] # "none" /\ r \notin done /\ taskSignal[r] = 0
  /\ done' = done \cup {r}
  /\ UNCHANGED <<segmentVars, queueVars, stage, taskSignal>>

WaitTask(a) ==
  /\ Calling(a, "waitTask")
  /\ Current(a).task \in done
  /\ Return(a)
  /\ UNCHANGED deviceVars

DeviceCall(a) == CallLaunch(a) \/ WaitTask(a)

DeviceStep(i) ==
  \/ TakeSegment(i) \/ TakeSlot(i) \/ CountLaunch(i) \/ SetHeader(i)
  \/ EndInstance(i)

\* More launches of a kernel than its region has segments.
Beyond(k) == kernargIndex[k] > MaxSegments
=============================================================================

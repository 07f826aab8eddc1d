------------------------------- MODULE Machine -------------------------------
(* The machine as the runtime sees it: the processors and memory pools that *)
(* it discovers through HSA, the table that atmi_machine_get_info shows, the *)
(* queues of each processor with their masks of compute units, and the queue *)
(* that a task of a group gets.                                              *)
EXTENDS Application, SequencesExt

CONSTANT NoMachine   \* the program does not use this module

\* A machine has agents in HSA's order with their pools, the set access of the
\* pairs of an agent and a pool that HSA does not answer NEVER to, and the values
\* of ATMI_DEVICE_GPU_WORKERS, a count and masks.  The tasks belong to one group.
ASSUME MachineAssumption ==
  \A p \in Programs : p.machine # NoMachine =>
    /\ \A n \in DOMAIN p.machine.agents :
         p.machine.agents[n].type \in {"CPU", "iGPU", "dGPU", "DSP"}
    /\ p.machine.gpuWorkers \in Int /\ p.machine.group \in Nat
    /\ \A t \in DOMAIN p.machine.tasks : p.machine.tasks[t].type \in {"CPU", "GPU"}

VARIABLES
  phase,        \* the next step of init_hsa and of the contexts
  memories,     \* memories_ of each processor, pool by memory id
  inventory,    \* g_atmi_machine
  workers,      \* the masks still in the environment's string
  masks,        \* queues_ of each processor: the mask of each queue
  nextBest,     \* next_best_queue_id_ of the group
  groupQueue,   \* its cpu_queue_ and gpu_queue_
  sent          \* packets_ of each task

machineVars ==
  <<phase, memories, inventory, workers, masks, nextBest, groupQueue, sent>>

Agents == DOMAIN program.machine.agents
Agent(a) == program.machine.agents[a]
Accessible(a, pool) == <<a, pool>> \in program.machine.access
Kind(a) == IF Agent(a).type \in {"iGPU", "dGPU"} THEN "GPU" ELSE Agent(a).type
AnyDevice == 0 - 1
NoQueue == [of |-> 0, number |-> 0]
AllUnits == {}

\* A vector of g_atl_machine, and get_processor.
Processors(kind) == SelectSeq([a \in Agents |-> a], LAMBDA a : Kind(a) = kind)
GetProcessor(kind, device) ==
  Processors(kind)[IF device = AnyDevice THEN 1 ELSE device + 1]

NoTable == [count |-> <<>>]

MachineInit ==
  /\ phase = "agents"
  /\ memories = <<>>
  /\ inventory = NoTable
  /\ workers = IF program.machine = NoMachine THEN <<>> ELSE program.machine.masks
  /\ masks = <<>>
  /\ nextBest = 0
  /\ groupQueue = [kind \in {"CPU", "GPU"} |-> NoQueue]
  /\ sent = <<>>

-----------------------------------------------------------------------------
(* init_comute_and_memory.                                                   *)
\* Mutant: a pool that is reached in two ways is kept twice.
AddAlways(list, pool) == Append(list, pool)

AddMemory(list, pool) == IF Contains(list, pool) THEN list ELSE Append(list, pool)

OwnPools(a) ==
  SelectSeq(Agent(a).pools, LAMBDA pool : pool \notin program.machine.groupMemory)

GetAgentInfo ==
  LET a == Len(memories) + 1
  IN /\ phase = "agents"
     /\ memories' = Append(memories, FoldLeft(AddMemory, <<>>, OwnPools(a)))
     /\ phase' = IF a = Len(program.machine.agents) THEN "CPU" ELSE "agents"
     /\ UNCHANGED <<inventory, workers, masks, nextBest, groupQueue, sent>>

\* The pools of the processors of one kind are offered to those of the others.
\* A pool that a processor got from another is among its own by then.
Offer(kind, others, next) ==
  LET offered == FoldLeft(LAMBDA list, a : list \o memories[a], <<>>, Processors(kind))
  IN /\ phase = kind
     /\ memories' =
          [a \in Agents |->
            IF Kind(a) \notin others THEN memories[a]
            ELSE FoldLeft(AddMemory, memories[a],
                          SelectSeq(offered, LAMBDA pool : Accessible(a, pool)))]
     /\ phase' = next
     /\ UNCHANGED <<inventory, workers, masks, nextBest, groupQueue, sent>>

ShareCPU == Offer("CPU", {"GPU", "DSP"}, "GPU")
ShareGPU == Offer("GPU", {"DSP", "CPU"}, "DSP")
ShareDSP == Offer("DSP", {"GPU", "CPU"}, "table")

\* The rows of DSPs are allocated and not filled; the GPUs of both types have one
\* first row.
FillTable ==
  LET Count(types) == Cardinality({a \in Agents : Agent(a).type \in types})
      Row(a) == [type |-> Agent(a).type, cores |-> Agent(a).units,
                 memories |-> Len(memories[a])]
      shown == Processors("CPU") \o Processors("GPU")
      gpus == Count({"CPU"})
  IN /\ phase = "table"
     /\ inventory' =
          [count |-> [CPU |-> Count({"CPU"}), GPU |-> Count({"iGPU", "dGPU"}),
                      iGPU |-> Count({"iGPU"}), dGPU |-> Count({"dGPU"}),
                      DSP |-> Count({"DSP"})],
           first |-> [CPU |-> 0, GPU |-> gpus, iGPU |-> gpus, dGPU |-> gpus],
           devices |-> [n \in DOMAIN shown |-> Row(shown[n])]]
     /\ masks' = [a \in Agents |-> <<>>]
     /\ phase' = "queues"
     /\ UNCHANGED <<memories, workers, nextBest, groupQueue, sent>>

-----------------------------------------------------------------------------
(* The contexts: the queues of the GPUs, then of the CPUs, whose variable      *)
(* ATMI_DEVICE_CPU_WORKERS is not set.                                       *)
QueueCount(a) ==
  LET asked == IF Kind(a) = "GPU" THEN program.machine.gpuWorkers ELSE AnyDevice
  IN IF asked = AnyDevice THEN Min({Agent(a).units, 8}) ELSE asked

\* strtok_r cuts the environment's own string: it is read once.
CreateQueues ==
  LET order == Processors("GPU") \o Processors("CPU")
      n == Min({m \in DOMAIN order : masks[order[m]] = <<>>})
      a == order[n]
      given == IF Kind(a) = "GPU" THEN workers ELSE <<>>
  IN /\ phase = "queues"
     /\ masks' = [masks EXCEPT ![a] =
          [q \in 1 .. QueueCount(a) |-> IF q <= Len(given) THEN given[q] ELSE AllUnits]]
     /\ workers' = IF Kind(a) = "GPU" THEN <<>> ELSE workers
     /\ phase' = IF n = Len(order) THEN "ready" ELSE "queues"
     /\ UNCHANGED <<memories, inventory, nextBest, groupQueue, sent>>

-----------------------------------------------------------------------------
(* acquireAqlPacket.                                                         *)
Placed(t) == program.machine.tasks[t]
ProcessorOf(t) == GetProcessor(Placed(t).type, Placed(t).device)

GetQueueAt(a, index) == [of |-> a, number |-> index % Len(masks[a])]

ChooseQueue(t) ==
  LET cached == groupQueue[Placed(t).type]
  IN CASE ~program.machine.ordered -> GetQueueAt(ProcessorOf(t), nextBest)
       [] program.machine.ordered /\ cached # NoQueue -> cached
       [] OTHER -> GetQueueAt(ProcessorOf(t), program.machine.group)

\* A CPU task of one thread looks for its queue among those of its processor, and
\* past their end if it is not there.
PacketsOf(t, chosen) ==
  LET a == ProcessorOf(t)
  IN CASE Placed(t).type = "GPU" -> <<chosen>>
       [] Placed(t).type = "CPU" /\ Placed(t).threads > 1 ->
            [n \in 1 .. Placed(t).threads |-> GetQueueAt(a, n - 1)]
       [] OTHER -> <<IF chosen.of = a THEN chosen ELSE NoQueue>>

AcquireAqlPacket(t) ==
  LET chosen == ChooseQueue(t)
  IN /\ phase = "ready" /\ t \notin DOMAIN sent
     /\ sent' = [u \in DOMAIN sent \cup {t} |->
                  IF u = t THEN PacketsOf(t, chosen) ELSE sent[u]]
     /\ IF program.machine.ordered
        THEN /\ groupQueue' = [groupQueue EXCEPT ![Placed(t).type] = chosen]
             /\ UNCHANGED nextBest
        ELSE nextBest' = nextBest + 1 /\ UNCHANGED groupQueue
     /\ UNCHANGED <<phase, memories, inventory, workers, masks>>

\* get_memory_pool_by_mem_place, where -1 stands for nothing.
GetMemoryPool(kind, device, id) == memories[Processors(kind)[device + 1]][id + 1]

MachineStep ==
  /\ program.machine # NoMachine
  /\ \/ GetAgentInfo \/ ShareCPU \/ ShareGPU \/ ShareDSP \/ FillTable
     \/ CreateQueues
     \/ \E t \in DOMAIN program.machine.tasks : AcquireAqlPacket(t)
=============================================================================

------------------------------ MODULE Services ------------------------------
(* The services that the task schedulers rest on, used by the threads of one *)
(* program: memory and copies, the runtime's life, kernels, task groups, and *)
(* launches from the device, the layout of a kernel's arguments, and the      *)
(* machine with its queues.                                                  *)
EXTENDS DataMovement, RuntimeLifecycle, KernelArguments, Machine

serviceVars ==
  <<appVars, dataVars, deviceVars, lifeVars, argumentVars, machineVars>>

Init ==
  AppInit /\ DataInit /\ DeviceInit /\ LifeInit /\ ArgumentInit /\ MachineInit

\* The application's own synchronisation: what a thread does after the first
\* return of atmi_init.
Await(a) ==
  /\ Calling(a, "await")
  /\ asked # <<>>
  /\ Return(a)
  /\ UNCHANGED <<dataVars, deviceVars, lifeVars, argumentVars, machineVars>>

Data(x) ==
  /\ ~exited
  /\ \/ x \in App /\ DataCall(x)
     \/ DataStep(x)
     \/ x \in Copy /\ CopyStep(x)
  /\ UNCHANGED <<deviceVars, lifeVars, argumentVars, machineVars>>

Engine ==
  /\ ~exited
  /\ EngineStep
  /\ UNCHANGED <<deviceVars, lifeVars, argumentVars, machineVars>>

Life(a) ==
  /\ ~exited
  /\ LifeCall(a)
  /\ UNCHANGED <<dataVars, deviceVars, argumentVars, machineVars>>

Device(a) ==
  /\ ~exited
  /\ DeviceCall(a)
  /\ UNCHANGED <<dataVars, lifeVars, argumentVars, machineVars>>

GPU(i) ==
  /\ ~exited
  /\ DeviceStep(i) \/ (i \in Task /\ CompleteTask(i))
  /\ UNCHANGED <<dataVars, lifeVars, appVars, argumentVars, machineVars>>

Packets ==
  /\ ~exited
  /\ ProcessPacket
  /\ UNCHANGED <<dataVars, lifeVars, appVars, argumentVars, machineVars>>

Arguments ==
  ArgumentStep /\ UNCHANGED <<appVars, dataVars, deviceVars, lifeVars, machineVars>>

Hardware ==
  MachineStep /\ UNCHANGED <<appVars, dataVars, deviceVars, lifeVars, argumentVars>>

AppStep(a) == Await(a) \/ Data(a) \/ Life(a) \/ Device(a)

Next ==
  \/ \E a \in App : AppStep(a)
  \/ \E t \in Copy : Data(t)
  \/ Engine
  \/ \E i \in Instance : GPU(i)
  \/ Packets
  \/ Arguments
  \/ Hardware

Spec ==
  /\ Init /\ [][Next]_serviceVars
  /\ \A a \in App : WF_serviceVars(AppStep(a))
  /\ \A t \in Copy : WF_serviceVars(Data(t))
  /\ WF_serviceVars(Engine)
  /\ \A i \in Instance : WF_serviceVars(GPU(i))
  /\ WF_serviceVars(Packets)

-----------------------------------------------------------------------------
(* Type correctness of what the threads, the tracker and the tables hold.    *)
\* The labels at which a thread holds a block that is not in the tracker, and
\* the others: of the tracker and the copies, then of the runtime's life.
Unregistered == {"allocate", "register", "release"}
Others ==
  {"idle", "return", "find", "remove", "fill", "store", "submit", "wait", "back",
   "subtract"}
  \cup {"keInit", "gpu", "cpu", "construct", "push", "setInitialized",
        "destroyQueues", "clearTables", "reset", "shutDown", "addImpl", "template",
        "waitTasks"}
Label == Unregistered \cup Others

TypeOK ==
  /\ pc \in [Thread -> Label] /\ exited \in BOOLEAN
  /\ pointer \in [Pointer -> Block \cup {Junk}]
  /\ allocated \subseteq Block /\ tracked \subseteq Block
  /\ mem \in [Memory -> Plain \cup {Junk}]
  /\ block \in [Thread -> Block \cup {Junk}]
  /\ copy \in [Copy -> {"none", "ready", "staging", "dispatched", "completed"}]
  /\ \A s \in Signal : signal[s] \in 0 .. 2 * Cardinality(Copy)
  /\ early \subseteq Copy
  /\ stage \in [Instance -> {"none", "segment", "slot", "counted", "queued",
                             "running", "ended"}]
  /\ \A r \in Task : taskSignal[r] \in 0 .. Cardinality(Instance)
  /\ queue \in [0 .. QueueSize - 1 -> Instance \cup {Host}]
  /\ kernel \in [Kernel -> {"none", "empty", "live", "freed"}]
  /\ kernelCounter \in 0 .. MaxKernelTypes - 1
  /\ context \subseteq {"hsa", "gpu", "cpu", "tasks"}
  /\ hsa \in 0 .. 2 /\ nextGroup \in Nat
  /\ \A l \in KernelLaunch :
       /\ launch[l].stage \in {"none", "saved", "acquired", "running", "finished"}
       /\ launch[l].place \in Place /\ launch[l].segment \in Segment

\* When atmi_memcpy returns, and when a copy task is COMPLETED, the destination
\* holds what the source holds (no block of the programs is written once it has
\* been a source).  Temporary blocks are reused by the other copies meanwhile,
\* all calls of atmi_memcpy share one signal (data.cpp:736), and a staging
\* thread shares its signal with the engine.  Claimed unless two calls of
\* atmi_memcpy overlapped, and not of a copy staged in barrier-packet mode
\* before its required copies had written its source.
CopiesDelivered ==
  \/ overlapped
  \/ /\ \A a \in App :
          Inside(a, "memcpy", "return") => mem[To(a)] = mem[From(a)]
     /\ \A t \in Copy \ early :
          copy[t] = "completed" => mem[Address(Dest[t])] = mem[Address(Src[t])]

\* The tracker knows each block that atmi_malloc returned and that was not given
\* to atmi_free, and nothing that was given back to HSA, although other threads
\* allocate the same addresses as soon as they are free (data.cpp:336-342): a
\* wrong entry would change the direction of a copy.
TrackerExact ==
  /\ tracked \subseteq allocated
  /\ \A v \in Pointer : pointer[v] # Junk => pointer[v] \in tracked
  /\ \A x \in Thread : pc[x] \in {"fill", "store", "submit", "wait", "back"} =>
       block[x] \in tracked \cup {Junk}

\* A task is COMPLETED only when every launch made below it has ended, and a
\* launch that is to run finds its arguments in its segment as long as no kernel
\* was launched more often than its region has segments.  The launches share the
\* signal of the task's packet and the counter of the region, with no lock
\* (device_rt.cl:97, :156).
LaunchesCovered ==
  /\ \A r \in done : \A i \in Instance : TaskOf[i] = r => stage[i] = "ended"
  /\ \A i \in Instance :
       Parent[i] # Host /\ stage[i] \in {"counted", "queued", "running"}
         => Beyond(KernelOf[i]) \/ region[KernelOf[i]][segment[i]] = i

\* A kernel finds each argument of its launch, and each of ATMI's implicit ones,
\* where the code compiled for its GPU (or process_packet, on a CPU) looks for it,
\* whatever the versions of the code objects, and while other launches use the
\* segments before and after; the threads of a CPU task have ids of the grid, each
\* its own.  Host and device compute these places separately, from metadata, from
\* sizes, from the ends of segments and from their beginnings.
ArgumentsArrive ==
  \A l \in KernelLaunch : launch[l].stage = "running" =>
    LET place == launch[l].place
        grid == program.kernel.grid
        threads == 0 .. ThreadCount(grid) - 1
    IN /\ \A i \in Args : \A w \in 0 .. ArgSize(i) - 1 :
            Reads(l, i, w) = Word(l, i, w)
       /\ \A h \in 1 .. Hidden(place) : \A w \in 0 .. HiddenSize - 1 :
            Reads(l, Len(program.kernel.args) + h, w)
              = Implicit(HiddenSize * (h - 1) + w)
       /\ place = CPUPlace /\ HasId(grid) =>
            /\ \A m, n \in threads :
                 GlobalId(grid, m) = GlobalId(grid, n) => m = n
            /\ \A n \in threads : \A d \in 1 .. 3 :
                 GlobalId(grid, n)[d] \in 0 .. grid[d] - 1

\* A task of an ordered group that was given the queue of another device, for
\* which an earlier task of the group chose it: the group keeps one queue for each
\* type of device, not for each device (taskgroup.h:45).
Elsewhere(t) ==
  /\ program.machine.ordered
  /\ \E u \in DOMAIN sent :
       Placed(u).type = Placed(t).type /\ ProcessorOf(u) # ProcessorOf(t)

\* Every packet goes to a queue of the device that its task names, where its
\* kernel's code is, and the tasks of an ordered group that have one packet go to
\* one queue for each type of device: nothing else keeps their order.
QueuesPlaced ==
  \A t \in DOMAIN sent : ~Elsewhere(t) =>
    /\ \A p \in Range(sent[t]) :
         p.of = ProcessorOf(t) /\ p.number < Len(masks[p.of])
    /\ program.machine.ordered /\ Len(sent[t]) = 1 =>
         \A u \in DOMAIN sent :
           Placed(u).type = Placed(t).type /\ Len(sent[u]) = 1 => sent[u] = sent[t]

\* The queues of the first GPU have the masks of ATMI_DEVICE_GPU_WORKERS.  The
\* other GPUs have none: the string was cut (machine.cpp:97).
MasksGiven ==
  phase = "ready" /\ Processors("GPU") # <<>> =>
    \A q \in DOMAIN masks[GetProcessor("GPU", 0)] :
      q \in DOMAIN program.machine.masks =>
        masks[GetProcessor("GPU", 0)][q] = program.machine.masks[q]

\* A row of the table describes the processor that its place names, and its memory
\* ids are those that get_memory_pool takes: the processor's own pools first, then
\* each pool of another kind that it can access, once, in whatever order agents
\* and pools were found and through whichever processor it was offered.
InventoryExact ==
  inventory # NoTable =>
    \A kind \in {"CPU", "GPU"} : \A n \in 0 .. inventory.count[kind] - 1 :
      LET a == GetProcessor(kind, n)
          row == inventory.devices[inventory.first[kind] + n + 1]
          own == OwnPools(a)
          pools == memories[a]
      IN /\ row.type = Agent(a).type /\ row.cores = Agent(a).units
         /\ row.memories = Cardinality(Range(pools))
         /\ \A id \in DOMAIN own : GetMemoryPool(kind, n, id - 1) = own[id]
         /\ \A id \in DOMAIN pools \ DOMAIN own : Accessible(a, pools[id])
         /\ \A b \in Agents : Kind(b) # kind =>
              \A pool \in Range(OwnPools(b)) :
                Accessible(a, pool) => pool \in Range(pools)

\* What init_comute_and_memory and the contexts leave is what the application and
\* the schedulers take it for.
MachineUsable ==
  program.machine # NoMachine => QueuesPlaced /\ MasksGiven /\ InventoryExact

Finalizing ==
  \E a \in App : pc[a] \in {"destroyQueues", "clearTables", "reset", "shutDown"}

\* The first atmi_init did not ask for devices of type d.
LeftOut(d) == Head(asked) \notin {d, "all"}

Asked(d) == \E n \in DOMAIN asked : asked[n] \in {d, "all"}

\* While the runtime says that it is initialised, HSA is up, the queues of every
\* type of device that a successful atmi_init asked for are live (but those the
\* first of them did not ask for: the later calls return at the flag,
\* system.cpp:299) and handle 0 is the default group.  After atmi_finalize
\* nothing makes it initialised again, unless the application holds HSA itself.
\* A handle names the group made for it, whatever the constructors and the table
\* do between the locks, and the record of a kernel stays as long as one of its
\* tasks is unfinished.
RuntimeUsable ==
  /\ initialized /\ ~Finalizing /\ ~finalized =>
       /\ hsa > 0
       /\ \A d \in {"gpu", "cpu"} : Asked(d) => queues[d] = "live" \/ LeftOut(d)
       /\ Len(groups) > 0 /\ groups[1].of = DefaultGroup
  /\ finalized /\ ~Finalizing => ~initialized \/ program.holdsHSA
  /\ \A g \in GroupName :
       groupHandle[g] # NoHandle => groups[groupHandle[g] + 1].of = g
  /\ \A r \in Task : stage[r] # "none" /\ r \notin done => kernel[KernelOf[r]] # "none"

\* What RuntimeUsable asks of a program.  One thread, m, initialises ATMI, ends it,
\* launches the tasks and releases the kernels.
MasterCalls == {"init", "finalize", "launch", "kernelRelease"}

Alone(m, c) == \A a \in App \ {m} : \A n \in DOMAIN c[a] : c[a][n].op \notin MasterCalls

\* A thread makes groups when m has, or it knows that m has, initialised ATMI.
GroupsAfterInit(m, c) ==
  \A a \in App : \A n \in DOMAIN c[a] : c[a][n].op = "groupCreate" =>
    \E k \in 1 .. n - 1 : c[a][k].op = IF a = m THEN "init" ELSE "await"

\* A kernel is made while ATMI is initialised and released after its launches.
NoFinalize(s, i, n) == \A k \in i .. n : s[k].op # "finalize"
NoRelease(s, kern, i, n) == \A k \in i .. n : ~(s[k].op = "kernelRelease" /\ s[k].kernel = kern)
Creates(call, kern) == call.op = "kernelCreate" /\ call.kernel = kern

CreatedBefore(s, kern, n) ==
  \E j \in 1 .. n - 1 :
    /\ Creates(s[j], kern) /\ NoRelease(s, kern, j, n)
    /\ \E i \in 1 .. j - 1 : s[i].op = "init" /\ NoFinalize(s, i, j)

KernelsBeforeLaunch(m, c) ==
  \A n \in DOMAIN c[m] : IsLaunch(c[m][n]) =>
    CreatedBefore(c[m], KernelOf[c[m][n].task], n)

Disciplined(p) ==
  \E m \in App :
    Alone(m, p.calls) /\ GroupsAfterInit(m, p.calls) /\ KernelsBeforeLaunch(m, p.calls)

\* What CopiesDelivered asks of a program: an asynchronous copy is made once; its
\* device operands are allocated by its thread before, and not freed or allocated
\* again by any thread while they may be in use; and of two copies that may be
\* under way together none writes an operand of the other, but for a copy that
\* writes what one that requires it reads.
IsAsync(call) == call.op = "memcpyAsync"
IsCopy(call) == call.op = "memcpy" \/ IsAsync(call)
Target(call) == IF IsAsync(call) THEN Dest[call.copy] ELSE call.dest
Source(call) == IF IsAsync(call) THEN Src[call.copy] ELSE call.src
Operands(call) == {Target(call), Source(call)}

Mallocs(call, v) == call.op = "malloc" /\ call.var = v
Frees(call, v) == call.op = "free" /\ call.var = v

CopiesOnce(c) ==
  \A a, b \in App : \A m \in DOMAIN c[a], n \in DOMAIN c[b] :
    IsAsync(c[a][m]) /\ IsAsync(c[b][n]) /\ c[a][m].copy = c[b][n].copy => a = b /\ m = n

NoFree(s, v, m, n) == \A k \in m .. n : ~Frees(s[k], v)

OperandsAllocated(c) ==
  \A a \in App : \A n \in DOMAIN c[a] : IsCopy(c[a][n]) =>
    \A v \in Operands(c[a][n]) \ Plain :
      v \in Pointer /\ \E m \in 1 .. n - 1 : Mallocs(c[a][m], v) /\ NoFree(c[a], v, m, n)

OperandsKept(c) ==
  \A a, b \in App : \A m \in DOMAIN c[a], n \in DOMAIN c[b] : IsCopy(c[a][m]) =>
    \A v \in Operands(c[a][m]) \ Plain :
      Mallocs(c[b][n], v) \/ Frees(c[b][n], v) => a = b /\ (IsAsync(c[a][m]) => n < m)

\* Copy d requires copy c.
Follows(c, d) == IsAsync(c) /\ IsAsync(d) /\ c.copy \in Requires[d.copy]

OperandsApart(c) ==
  \A a, b \in App : \A m \in DOMAIN c[a], n \in DOMAIN c[b] :
    /\ IsCopy(c[a][m]) /\ IsCopy(c[b][n])
    /\ a # b \/ (m < n /\ IsAsync(c[a][m]))
    => /\ Target(c[a][m]) # Target(c[b][n])
       /\ Target(c[a][m]) = Source(c[b][n]) => Follows(c[a][m], c[b][n])
       /\ Target(c[b][n]) = Source(c[a][m]) => Follows(c[b][n], c[a][m])

Careful(p) ==
  /\ CopiesOnce(p.calls) /\ OperandsAllocated(p.calls)
  /\ OperandsKept(p.calls) /\ OperandsApart(p.calls)

\* Two groupable staged copies raise the group's signal by 2 each and each waits
\* for it to be 1, with the other's share still in it.
SharedStaging ==
  \E t, u \in Groupable :
    /\ t # u
    /\ {pc[t], pc[u]} \subseteq {"allocate", "register", "fill", "submit", "wait"}

\* The queue was written past its size from the device: a packet is lost.
PacketLost == overran

\* Every call returns, unless the process ends, two calls of atmi_memcpy
\* overlapped, two staged copies of a group wait for each other, or device-side
\* launches overran their queue.  No lock, signal value or order of completions
\* leaves a thread waiting otherwise.
CallsReturn ==
  \A a \in App :
    calls[a] # <<>> ~>
      calls[a] = <<>> \/ exited \/ overlapped \/ SharedStaging \/ PacketLost
=============================================================================

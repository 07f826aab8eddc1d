--------------------------- MODULE KernelArguments ---------------------------
(* Where the arguments of a kernel lie: what the runtime reads of them in a  *)
(* code object of version 2 or 3, the layout it computes for GPUs and CPUs,  *)
(* the regions it allocates, and what it and the compiled code write and     *)
(* read there.  Offsets and sizes are in words of 4 bytes.  One kernel with  *)
(* an implementation for GPUs and one for CPUs, launched by the host and by  *)
(* the device.                                                               *)
EXTENDS DeviceEnqueue, SequencesExt

CONSTANTS
  KernelLaunch,  \* the launches of the kernel
  GpuCount,      \* gpu_count
  ImplicitSize,  \* sizeof(atmi_implicit_args_t)
  GridSize,      \* the offsets of the grid, its first fields
  NoKernel       \* the program does not use this module

ASSUME KernelArgumentsAssumption ==
  /\ GpuCount \in Nat \ {0} /\ ImplicitSize \in Nat /\ GridSize \in 0 .. ImplicitSize
  /\ \A p \in Programs : p.kernel # NoKernel =>
       /\ DOMAIN p.kernel.objects = 1 .. GpuCount
       /\ \A g \in 1 .. GpuCount : 2 * p.kernel.objects[g].hidden <= ImplicitSize

VARIABLES
  hostRegion,    \* kernarg_region_ of the implementations for GPUs and CPUs
  deviceRegion,  \* the region of the kernel's template, after its counter
  deviceIndex,   \* the counter
  saved,         \* the malloced copy of a task's arguments
  launch         \* how far each launch is, where it runs, and its segment

argumentVars == <<hostRegion, deviceRegion, deviceIndex, saved, launch>>

\* A word of memory: a word of an argument, of the implicit arguments, or any.
Word(of, arg, word) == [of |-> of, arg |-> arg, word |-> word]
Implicit(word) == Word("implicit", 0, word)
AnyWord == Word("junk", 0, 0)

CPUPlace == [type |-> "cpu", id |-> 1]
Place == [type : {"gpu", "device"}, id : 1 .. GpuCount] \cup {CPUPlace}

-----------------------------------------------------------------------------
(* The compiler.  Arguments and hidden arguments are aligned to their size.  *)
HiddenSize == 2

AlignUp(n, a) == ((n + a - 1) \div a) * a

Sizes(object) == program.kernel.args \o [h \in 1 .. object.hidden |-> HiddenSize]

\* The offset of the i-th of arguments of these sizes, or their end for the last
\* i + 1.
Declared(sizes) ==
  LET end[i \in 0 .. Len(sizes)] ==
        IF i = 0 THEN 0 ELSE AlignUp(end[i - 1], sizes[i]) + sizes[i]
  IN [i \in 1 .. Len(sizes) |-> end[i] - sizes[i]]

SegmentSize(object) ==
  LET sizes == Sizes(object)
      n == Len(sizes)
  IN IF n = 0 THEN 0 ELSE Declared(sizes)[n] + sizes[n]

-----------------------------------------------------------------------------
(* The metadata.                                                             *)
IsImplicit(object, i) == i > Len(program.kernel.args)

\* What populateArgs finds for the i-th argument: version 2 gives alignments,
\* version 3 offsets.
ArgMD(object, i) ==
  LET size == Sizes(object)[i]
  IN IF object.version = 2
     THEN [size |-> size, align |-> size, hidden |-> IsImplicit(object, i)]
     ELSE [size |-> size, offset |-> Declared(Sizes(object))[i],
           hidden |-> IsImplicit(object, i)]

\* The loop over the arguments, with the rule for the next offset.
ScanArgs(object, NewOffset(_, _)) ==
  LET step(acc, i) ==
        LET arg == ArgMD(object, i)
            offset == NewOffset(acc.end, arg)
        IN [end |-> offset + arg.size,
            offsets |-> Append(acc.offsets, offset),
            explicit |-> acc.explicit + (offset - acc.end)
                           + (IF arg.hidden THEN 0 ELSE arg.size),
            hasHidden |-> acc.hasHidden \/ arg.hidden]
  IN FoldLeft(step,
       [end |-> 0, offsets |-> <<>>, explicit |-> 0, hasHidden |-> FALSE],
       [i \in 1 .. Len(Sizes(object)) |-> i])

\* The compiler's hidden arguments give way to ATMI's.
KernelInfo(object, scan) ==
  [offsets |-> scan.offsets,
   size |-> (IF scan.hasHidden THEN scan.explicit ELSE SegmentSize(object))
              + ImplicitSize]

AlignedOffset(end, arg) == AlignUp(end, arg.align)
GivenOffset(end, arg) == arg.offset

InfoV2(object) == KernelInfo(object, ScanArgs(object, AlignedOffset))
InfoV3(object) == KernelInfo(object, ScanArgs(object, GivenOffset))

\* KernelInfoTable[g]
Info(g) ==
  LET object == program.kernel.objects[g]
  IN IF object.version = 2 THEN InfoV2(object) ELSE InfoV3(object)

-----------------------------------------------------------------------------
(* The implementations.                                                      *)
Args == DOMAIN program.kernel.args
ArgSize(i) == program.kernel.args[i]

\* The offsets of the first GPU and the largest size of all.
GPUKernelImpl ==
  [size |-> Max({Info(g).size : g \in 1 .. GpuCount}),
   offsets |-> [i \in Args |-> Info(1).offsets[i]]]

\* Without padding.
PackedOffset(i) == FoldLeft(+, 0, SubSeq(program.kernel.args, 1, i - 1))
CPUKernelImpl ==
  [size |-> FoldLeft(+, 0, program.kernel.args),
   offsets |-> [i \in Args |-> PackedOffset(i)]]

Impl(type) == IF type = "cpu" THEN CPUKernelImpl ELSE GPUKernelImpl

\* The stride of the template's segments.
TemplateSize == Max({GPUKernelImpl.size, CPUKernelImpl.size})

\* Of the segments of these sizes, the word at offset of segment s.
At(size, s, offset) == s * size + offset

\* The implicit arguments at the end of a segment, as the host sees segments:
\* by the size of the implementation for GPUs, in the template's region too.
ImplicitAt(s) == At(GPUKernelImpl.size, s + 1, 0 - ImplicitSize)

WithImplicit(length) ==
  [n \in 0 .. length - 1 |->
    IF \E s \in Segment : n - ImplicitAt(s) \in 0 .. ImplicitSize - 1
    THEN Implicit(n - ImplicitAt(CHOOSE s \in Segment :
                                   n - ImplicitAt(s) \in 0 .. ImplicitSize - 1))
    ELSE AnyWord]

NotCreated == <<>>

ArgumentInit ==
  /\ hostRegion = [type \in {"gpu", "cpu"} |-> NotCreated]
  /\ deviceRegion = NotCreated
  /\ deviceIndex = 0
  /\ saved = [l \in KernelLaunch |-> NotCreated]
  /\ launch = [l \in KernelLaunch |-> [stage |-> "none", place |-> CPUPlace, segment |-> 0]]

\* CreateKernel: both implementations and the template.
CreateRegions ==
  /\ program.kernel # NoKernel
  /\ deviceRegion = NotCreated
  /\ hostRegion' =
       [type \in {"gpu", "cpu"} |->
         IF type = "gpu" THEN WithImplicit(GPUKernelImpl.size * MaxSegments)
         ELSE [n \in 0 .. CPUKernelImpl.size * MaxSegments - 1 |-> AnyWord]]
  /\ deviceRegion' = WithImplicit(TemplateSize * MaxSegments)
  /\ UNCHANGED <<deviceIndex, saved, launch>>

-----------------------------------------------------------------------------
(* Launches by the host.                                                     *)
\* updateKernargRegion writes the arguments of l to a segment at base.
Update(memory, base, impl, l) ==
  [n \in DOMAIN memory |->
    LET Holds(i) == n - base - impl.offsets[i] \in 0 .. ArgSize(i) - 1
    IN IF \E i \in Args : Holds(i)
       THEN LET i == Max({j \in Args : Holds(j)})
            IN Word(l, i, n - base - impl.offsets[i])
       ELSE memory[n]]

\* LaunchTask and CreateTask keep a copy, as the caller may reuse its own.
SaveArguments(l, place) ==
  LET impl == Impl(place.type)
  IN /\ deviceRegion # NotCreated /\ launch[l].stage = "none"
     /\ place.type # "device"
     /\ saved' = [saved EXCEPT ![l] =
                    Update([n \in 0 .. impl.size - 1 |-> AnyWord], 0, impl, l)]
     /\ launch' = [launch EXCEPT ![l].stage = "saved", ![l].place = place]
     /\ UNCHANGED <<hostRegion, deviceRegion, deviceIndex>>

Taken(type) ==
  {launch[l].segment : l \in {m \in KernelLaunch :
     launch[m].place.type = type /\ launch[m].stage \in {"acquired", "running"}}}

\* Mutant: the implicit arguments are overwritten with those of the copy.
CopyAll(type) == Impl(type).size

\* How much of the saved copy goes to the segment.
CopySize(type) == Impl(type).size - (IF type = "gpu" THEN ImplicitSize ELSE 0)

AcquireSegment(l, s) ==
  LET type == launch[l].place.type
      base == At(Impl(type).size, s, 0)
  IN /\ launch[l].stage = "saved"
     /\ s \notin Taken(type)
     /\ hostRegion' = [hostRegion EXCEPT ![type] =
          [n \in DOMAIN @ |-> IF n - base \in 0 .. CopySize(type) - 1
                              THEN saved[l][n - base] ELSE @[n]]]
     /\ launch' = [launch EXCEPT ![l].stage = "acquired", ![l].segment = s]
     /\ saved' = [saved EXCEPT ![l] = NotCreated]
     /\ UNCHANGED <<deviceRegion, deviceIndex>>

\* dispatch sets the offsets of the grid among the implicit arguments.
Dispatch(l) ==
  LET type == launch[l].place.type
      at == ImplicitAt(launch[l].segment)
  IN /\ launch[l].stage = "acquired"
     /\ IF type = "gpu"
        THEN hostRegion' = [hostRegion EXCEPT !["gpu"] =
               [n \in DOMAIN @ |-> IF n - at \in 0 .. GridSize - 1
                                   THEN Implicit(n - at) ELSE @[n]]]
        ELSE UNCHANGED hostRegion
     /\ launch' = [launch EXCEPT ![l].stage = "running"]
     /\ UNCHANGED <<deviceRegion, deviceIndex, saved>>

\* The segment is free again.
Finish(l) ==
  /\ launch[l].stage = "running"
  /\ launch' = [launch EXCEPT ![l].stage = "finished"]
  /\ UNCHANGED <<hostRegion, deviceRegion, deviceIndex, saved>>

-----------------------------------------------------------------------------
(* A launch by a kernel of the first GPU: the arguments come as a struct of   *)
(* the caller, laid out by the compiler, to the next segment of the template. *)
DeviceLaunch(l) ==
  LET base == At(TemplateSize, deviceIndex, 0)
  IN /\ deviceRegion # NotCreated /\ launch[l].stage = "none"
     /\ deviceIndex \in Segment
     /\ deviceRegion' = Update(deviceRegion, base,
                               [offsets |-> Declared(program.kernel.args)], l)
     /\ deviceIndex' = deviceIndex + 1
     /\ launch' = [launch EXCEPT ![l] =
          [stage |-> "running", place |-> [type |-> "device", id |-> 1],
           segment |-> deviceIndex]]
     /\ UNCHANGED <<hostRegion, saved>>

ArgumentStep ==
  \/ CreateRegions
  \/ \E l \in KernelLaunch :
       \/ \E place \in Place : SaveArguments(l, place)
       \/ \E s \in Segment : AcquireSegment(l, s)
       \/ Dispatch(l) \/ Finish(l) \/ DeviceLaunch(l)

-----------------------------------------------------------------------------
(* What the kernels read.                                                    *)
RegionOf(type) == IF type = "device" THEN deviceRegion ELSE hostRegion[type]
Stride(type) == IF type = "device" THEN TemplateSize ELSE Impl(type).size

\* On a GPU: at the offsets compiled into the code of that GPU.  On a CPU:
\* process_packet adds up the sizes.
ReadOffset(place, i) ==
  IF place.type = "cpu" THEN PackedOffset(i)
  ELSE Declared(Sizes(program.kernel.objects[place.id]))[i]

\* The hidden arguments that the code for a place reads.
Hidden(place) ==
  IF place.type = "cpu" THEN 0 ELSE program.kernel.objects[place.id].hidden

Reads(l, i, word) ==
  LET place == launch[l].place
  IN RegionOf(place.type)[At(Stride(place.type), launch[l].segment,
                           ReadOffset(place, i) + word)]

-----------------------------------------------------------------------------
(* The threads of a CPU task, one packet each, told by arg[3] and gridDim_.  *)
GlobalId(grid, flatId) ==
  << (flatId \div grid[2]) % grid[1], flatId % grid[2],
     flatId \div (grid[1] * grid[2]) >>

\* A dimension of 0 makes one thread, which must not ask for its id.
ThreadCount(grid) ==
  LET product == grid[1] * grid[2] * grid[3]
  IN IF product = 0 THEN 1 ELSE product

HasId(grid) == \A d \in 1 .. 3 : grid[d] > 0
===============================================================================

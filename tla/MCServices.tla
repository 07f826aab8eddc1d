----------------------------- MODULE MCServices -----------------------------
(* Programs for Services. *)
EXTENDS Services, TLC

CONSTANTS a1, a2, h1, h2, h3, h4, x, y, b1, b2, b3, t1, t2, t3, t4, t5,
          r1, r2, c1, c2, c3, d1, k1, k2, g1, g2, l1, l2

Malloc(v) == [op |-> "malloc", var |-> v]
Free(v) == [op |-> "free", var |-> v]
Memcpy(d, s) == [op |-> "memcpy", dest |-> d, src |-> s]
Async(t) == [op |-> "memcpyAsync", copy |-> t]
WaitFor(t) == [op |-> "wait", copy |-> t]
AtmiInit(d) == [op |-> "init", type |-> d]
Finalize == [op |-> "finalize"]
Started == [op |-> "await"]
GroupCreate(g) == [op |-> "groupCreate", group |-> g]
GroupRelease(g) == [op |-> "groupRelease", group |-> g]
RegisterModule == [op |-> "module"]
KernelCreate(k) == [op |-> "kernelCreate", kernel |-> k]
KernelRelease(k) == [op |-> "kernelRelease", kernel |-> k]
Launch(r) == [op |-> "launch", task |-> r]
WaitForTask(r) == [op |-> "waitTask", task |-> r]

\* Two threads copy to and from a device and free what they used.
Synchronous ==
  a1 :> <<AtmiInit("gpu"), Malloc(x), Memcpy(x, h1), Memcpy(h2, x), Free(x)>> @@
  a2 :> <<Started, Malloc(y), Memcpy(y, h3), Memcpy(h4, y), Free(y)>>

\* A chain of copies in which the last reads what the one before it brings to
\* plain memory; two groupable copies, in one thread, beside it.
Chain ==
  a1 :> <<AtmiInit("gpu"), Malloc(x), Malloc(y), Async(t1), Async(t2), Async(t3),
          WaitFor(t3)>> @@
  a2 :> <<>>
Grouped ==
  a1 :> <<AtmiInit("gpu"), Malloc(x), Malloc(y), Async(t4), Async(t5),
          WaitFor(t4), WaitFor(t5)>> @@
  a2 :> <<>>

\* Groups and kernels made while the runtime is coming up or going down, by
\* another thread, and a second life.
Lives ==
  a1 :> <<AtmiInit("all"), RegisterModule, KernelCreate(k1), GroupCreate(g1),
          Finalize, AtmiInit("all"), GroupRelease(g1)>> @@
  a2 :> <<KernelCreate(k2), Started, GroupCreate(g2), GroupRelease(g2)>>
Types ==
  a1 :> <<AtmiInit("cpu"), AtmiInit("gpu"), GroupCreate(g1), GroupRelease(g1)>> @@
  a2 :> <<Started, GroupCreate(g2), GroupRelease(g2)>>

\* A task that launches kernels, and the release of its kernel while it runs.
Nested ==
  a1 :> <<AtmiInit("gpu"), RegisterModule, KernelCreate(k1), KernelCreate(k2),
          Launch(r1), Launch(r2), WaitForTask(r1), KernelRelease(k1),
          KernelRelease(k2), Finalize>> @@
  a2 :> <<>>

\* Arguments of one and two words, with and without padding and hidden arguments,
\* in a code object of each version; one grid has a dimension of 0.
Object(v, h) == [version |-> v, hidden |-> h]
Objects == {Object(v, h) : v \in {2, 3}, h \in {0, 2}}
ArgumentLists ==
  { << <<1>>, <<2, 3, 2>> >>, << <<2, 1>>, <<3, 1, 1>> >>,
    << <<1, 2>>, <<1, 2, 2>> >>, << <<1, 1, 2, 1>>, <<2, 0, 1>> >> }
Kernels ==
  {[args |-> l[1], grid |-> l[2], objects |-> o] :
     l \in ArgumentLists,
     o \in {f \in [1 .. GpuCount -> Objects] : f[1].version # f[2].version}}

\* A CPU and two GPUs, the second found before the CPU, with any access between
\* different kinds; and a machine with a DSP and two CPUs.  Each pool is named
\* after its agent; "lds" is group memory.
AnAgent(type, units, pools) == [type |-> type, units |-> units, pools |-> pools]
GPUs == << AnAgent("dGPU", 2, <<"g1", "lds">>), AnAgent("CPU", 9, <<"c1", "c2">>),
           AnAgent("iGPU", 1, <<"g2">>) >>
GPUAccess == {<<1, "c1">>, <<1, "c2">>, <<3, "c1">>, <<2, "g1">>, <<2, "g2">>}
DSPs == << AnAgent("CPU", 2, <<"c1">>), AnAgent("DSP", 1, <<"d1">>),
           AnAgent("dGPU", 3, <<"g1">>), AnAgent("CPU", 1, <<"c2">>) >>
DSPAccess == {<<3, "d1">>, <<2, "g1">>, <<3, "c1">>, <<1, "c2">>, <<4, "g1">>, <<3, "c2">>}

On(type, device, threads) == [type |-> type, device |-> device, threads |-> threads]
OneDevice ==
  {[s1 |-> On("GPU", d, 1), s2 |-> On("GPU", 0, 1), s3 |-> On("CPU", 0, 1),
    s4 |-> On("CPU", AnyDevice, n)] : d \in {AnyDevice, 0}, n \in {0, 3}}
TwoGPUs ==
  {[s1 |-> On("GPU", 0, 1), s2 |-> On("GPU", 1, 1), s3 |-> On("CPU", 0, 1)]}
TwoCPUs ==
  {[s1 |-> On("CPU", 0, 1), s2 |-> On("CPU", 1, 1), s3 |-> On("CPU", 1, 3)]}

Found(agents, access) ==
  [agents |-> agents, access |-> access, groupMemory |-> {"lds"},
   gpuWorkers |-> AnyDevice, masks |-> <<>>, group |-> 1, ordered |-> FALSE,
   tasks |-> <<>>]
Machines ==
  {Found(GPUs, access) : access \in SUBSET GPUAccess}
    \cup {Found(DSPs, access) : access \in SUBSET DSPAccess}
    \cup {[Found(GPUs, GPUAccess) EXCEPT !.ordered = o, !.gpuWorkers = 2,
             !.masks = <<{0}, {1, 2}>>, !.tasks = t] :
            o \in BOOLEAN, t \in OneDevice \cup TwoGPUs}
    \cup {[Found(DSPs, DSPAccess) EXCEPT !.ordered = o, !.tasks = t] :
            o \in BOOLEAN, t \in TwoCPUs}

Setting(c, d, h) ==
  [calls |-> c, depSync |-> d, holdsHSA |-> h, kernel |-> NoKernel,
   machine |-> NoMachine]
NoCalls == Setting([a \in App |-> <<>>], "callback", FALSE)
AllPrograms ==
  {Setting(c, "callback", FALSE) : c \in {Synchronous, Chain, Grouped, Lives, Types, Nested}}
    \cup {Setting(Chain, "barrier", FALSE), Setting(Lives, "callback", TRUE)}
    \cup {[NoCalls EXCEPT !.kernel = k] : k \in Kernels}
    \cup {[NoCalls EXCEPT !.machine = m] : m \in Machines}

DestOf == t1 :> x @@ t2 :> h2 @@ t3 :> y @@ t4 :> x @@ t5 :> y
SrcOf == t1 :> h1 @@ t2 :> x @@ t3 :> h2 @@ t4 :> h1 @@ t5 :> h3
RequiresOf == t1 :> {} @@ t2 :> {t1} @@ t3 :> {t2} @@ t4 :> {} @@ t5 :> {}

ParentOf == r1 :> Host @@ r2 :> Host @@ c1 :> r1 @@ c2 :> r1 @@ c3 :> r2 @@ d1 :> c1
TaskOfInstance == r1 :> r1 @@ r2 :> r2 @@ c1 :> r1 @@ c2 :> r1 @@ c3 :> r2 @@ d1 :> r1
KernelOfInstance ==
  r1 :> k1 @@ r2 :> k2 @@ c1 :> k2 @@ c2 :> k2 @@ c3 :> k1 @@ d1 :> k2

ASSUME \A p \in AllPrograms : Disciplined(p) /\ Careful(p)

\* Every property that speaks of copies excuses what follows an overlap.
BeforeOverlap == ~overlapped
=============================================================================

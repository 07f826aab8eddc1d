---------------------------- MODULE DataMovement ----------------------------
(* Memory and copies: the tracker of allocations, atmi_malloc, atmi_free,  *)
(* the synchronous atmi_memcpy, and the dispatch of atmi_memcpy_async with *)
(* the detached thread that stages a copy between plain host memory and a  *)
(* device.                                                                 *)
(*                                                                         *)
(* When a copy is dispatched is decided by the schedulers: here a copy is   *)
(* dispatched at any moment at which its required copies have completed     *)
(* (callback mode) or been dispatched (barrier-packet mode).                *)
EXTENDS Application

CONSTANTS
  Plain,      \* blocks of memory the application did not get from ATMI
  Pointer,    \* its variables for device blocks it gets from atmi_malloc
  Block,      \* the blocks of HSA's memory pools
  Junk,       \* what a new block holds
  Dest, Src,  \* Copy -> Plain \cup Pointer: the operands of each copy
  Requires,   \* Copy -> SUBSET Copy: lparm->requires
  Groupable   \* the groupable copies; they share the signal of one group

\* The blocks are memory of HSA alone, and the calls name copies and variables.
ASSUME DataAssumption ==
  /\ Junk \notin Block /\ Plain \cap Block = {}
  /\ IsFiniteSet(Copy) /\ Requires \in [Copy -> SUBSET Copy]
  /\ \A p \in Programs : \A c \in AllCalls(p) :
       /\ c.op \in {"malloc", "free"} => c.var \in Pointer
       /\ c.op = "memcpyAsync" => c.copy \in Copy

VARIABLES
  pointer,    \* Pointer -> the block it points to, or Junk
  allocated,  \* the blocks allocated from HSA
  tracked,    \* g_data_map: the blocks with a range in the tracker
  mem,        \* what each block holds
  block,      \* the local ptr or temp_host_ptr of each thread
  identityCopy,  \* the value of IdentityCopySignal
  engine,     \* copies handed to hsa_amd_memory_async_copy
  copy,       \* the state of each copy task
  signal,     \* its completion signal; the group's is signal["group"]
  overlapped, \* two calls of atmi_memcpy used IdentityCopySignal at once
  early       \* copies staged before a required copy had completed

trackVars == <<pointer, allocated, tracked, block>>
copyVars == <<identityCopy, engine, copy, signal>>
ghostVars == <<overlapped, early>>
dataVars == <<trackVars, copyVars, ghostVars, mem>>

Memory == Plain \cup Block
Signal == (Copy \ Groupable) \cup {"group"}
SignalOf(t) == IF t \in Groupable THEN "group" ELSE t

\* Every plain block holds something of its own.
DataInit ==
  /\ pointer = [v \in Pointer |-> Junk]
  /\ allocated = {}
  /\ tracked = {}
  /\ mem = [m \in Memory |-> IF m \in Plain THEN m ELSE Junk]
  /\ block = [x \in Thread |-> Junk]
  /\ identityCopy = 0
  /\ engine = {}
  /\ copy = [t \in Copy |-> "none"]
  /\ signal = [s \in Signal |-> 0]
  /\ overlapped = FALSE
  /\ early = {}

Address(v) == IF v \in Plain THEN v ELSE pointer[v]
From(x) == Address(IF x \in App THEN Current(x).src ELSE Src[x])
To(x) == Address(IF x \in App THEN Current(x).dest ELSE Dest[x])

(* The direction of a copy is decided by what the tracker knows.           *)
H2D(x) == From(x) \notin tracked /\ To(x) \in tracked
D2H(x) == From(x) \in tracked /\ To(x) \notin tracked
Staged(x) == H2D(x) \/ D2H(x)

-----------------------------------------------------------------------------
(* atmi_malloc and atmi_free, called by the application, by Memcpy and by   *)
(* the staging threads.                                                    *)

\* hsa_amd_memory_pool_allocate
Allocate(x) ==
  /\ pc[x] = "allocate"
  /\ \E b \in Block \ allocated :
       /\ allocated' = allocated \cup {b}
       /\ block' = [block EXCEPT ![x] = b]
       /\ mem' = [mem EXCEPT ![b] = Junk]
  /\ GoTo(x, "register")
  /\ UNCHANGED <<ghostVars, copyVars, pointer, tracked>>

\* register_allocation; the caller of a staged copy goes on to fill the block.
Register(x) ==
  /\ pc[x] = "register"
  /\ tracked' = tracked \cup {block[x]}
  /\ IF x \in App /\ Current(x).op = "malloc"
     THEN /\ pointer' = [pointer EXCEPT ![Current(x).var] = block[x]]
          /\ block' = [block EXCEPT ![x] = Junk]
          /\ Return(x)
     ELSE UNCHANGED <<pointer, block>> /\ GoTo(x, "fill")
  /\ UNCHANGED <<ghostVars, copyVars, allocated, mem>>

CallMalloc(a) ==
  /\ Calling(a, "malloc")
  /\ GoTo(a, "allocate")
  /\ UNCHANGED dataVars

CallFree(a) ==
  /\ Calling(a, "free")
  /\ block' = [block EXCEPT ![a] = pointer[Current(a).var]]
  /\ pointer' = [pointer EXCEPT ![Current(a).var] = Junk]
  /\ GoTo(a, "find")
  /\ UNCHANGED <<ghostVars, copyVars, allocated, tracked, mem>>

\* Mutant: the block goes back to HSA before its range leaves the tracker.
FindAndFree(x) ==
  /\ pc[x] = "find"
  /\ allocated' = allocated \ {block[x]}
  /\ GoTo(x, "remove")
  /\ UNCHANGED <<copyVars, ghostVars, pointer, tracked, block, mem>>

\* Memfree: a pointer without a range ends the process.
Find(x) ==
  /\ pc[x] = "find"
  /\ IF block[x] \in tracked THEN GoTo(x, "remove") ELSE Exit
  /\ UNCHANGED dataVars

RemoveRange(x) ==
  /\ pc[x] = "remove"
  /\ tracked' = tracked \ {block[x]}
  /\ GoTo(x, "release")
  /\ UNCHANGED <<ghostVars, copyVars, pointer, allocated, mem, block>>

\* hsa_amd_memory_pool_free
Release(x) ==
  /\ pc[x] = "release"
  /\ allocated' = allocated \ {block[x]}
  /\ block' = [block EXCEPT ![x] = Junk]
  /\ GoTo(x, IF x \in Copy THEN "subtract" ELSE "return")
  /\ UNCHANGED <<ghostVars, copyVars, pointer, tracked, mem>>

ReturnFree(a) == Inside(a, "free", "return") /\ Return(a) /\ UNCHANGED dataVars

-----------------------------------------------------------------------------
(* The copies.                                                             *)

\* Memcpy asks for a temporary block if exactly one operand is tracked.
CallMemcpy(a) ==
  /\ Calling(a, "memcpy")
  /\ GoTo(a, IF Staged(a) THEN "allocate" ELSE "store")
  /\ UNCHANGED dataVars

\* The memcpy() into the temporary block of a host-to-device copy.
Fill(x) ==
  /\ pc[x] = "fill"
  /\ mem' = IF H2D(x) THEN [mem EXCEPT ![block[x]] = mem[From(x)]] ELSE mem
  /\ early' = IF x \in Copy /\ H2D(x) /\ \E t \in Requires[x] : copy[t] # "completed"
              THEN early \cup {x} ELSE early
  /\ GoTo(x, IF x \in App THEN "store" ELSE "submit")
  /\ UNCHANGED <<trackVars, copyVars, overlapped>>

\* A call of Memcpy between its store to IdentityCopySignal and the end of
\* its wait.
UsesIdentity(a) == a \in App /\ pc[a] \in {"submit", "wait"}

Store(a) ==
  /\ pc[a] = "store"
  /\ identityCopy' = 1
  /\ overlapped' = (overlapped \/ \E b \in App \ {a} : UsesIdentity(b))
  /\ GoTo(a, "submit")
  /\ UNCHANGED <<trackVars, mem, engine, copy, signal, early>>

\* The copy given to the engine: the temporary block replaces plain memory.
\* Only barrier-packet mode gives it the signals of the required copies.
Command(x) ==
  [of |-> x,
   from |-> IF H2D(x) THEN block[x] ELSE From(x),
   to |-> IF D2H(x) THEN block[x] ELSE To(x),
   after |-> IF x \in Copy /\ program.depSync = "barrier"
             THEN {SignalOf(t) : t \in Requires[x]} ELSE {}]

\* hsa_amd_memory_async_copy; a staging thread then stores DISPATCHED.
Submit(x) ==
  /\ pc[x] = "submit"
  /\ engine' = engine \cup {Command(x)}
  /\ copy' = IF x \in Copy THEN [copy EXCEPT ![x] = "dispatched"] ELSE copy
  /\ GoTo(x, "wait")
  /\ UNCHANGED <<trackVars, ghostVars, mem, identityCopy, signal>>

\* The copy engine carries out a copy whose dependent signals are 0.
EngineCopy(c) ==
  /\ \A s \in c.after : signal[s] = 0
  /\ mem' = [mem EXCEPT ![c.to] = mem[c.from]]
  /\ engine' = engine \ {c}
  /\ IF c.of \in App
     THEN identityCopy' = identityCopy - 1 /\ UNCHANGED signal
     ELSE /\ signal' = [signal EXCEPT ![SignalOf(c.of)] = @ - 1]
          /\ UNCHANGED identityCopy
  /\ UNCHANGED <<trackVars, ghostVars, copy, appVars>>

\* Mutant: the wait is for a value below 2.
WaitBelowTwo(x) ==
  /\ pc[x] = "wait"
  /\ IF x \in App THEN identityCopy < 2 ELSE signal[SignalOf(x)] < 2
  /\ GoTo(x, IF Staged(x) THEN "back" ELSE "return")
  /\ UNCHANGED dataVars

\* Mutant: a staging thread waits for 0, as Memcpy does.
WaitForZero(x) ==
  /\ pc[x] = "wait"
  /\ IF x \in App THEN identityCopy = 0 ELSE signal[SignalOf(x)] = 0
  /\ GoTo(x, IF Staged(x) THEN "back" ELSE "return")
  /\ UNCHANGED dataVars

\* Memcpy waits for 0, a staging thread for 1: it has its own share of the
\* signal to give back.
Wait(x) ==
  /\ pc[x] = "wait"
  /\ IF x \in App THEN identityCopy = 0 ELSE signal[SignalOf(x)] = 1
  /\ GoTo(x, IF Staged(x) THEN "back" ELSE "return")
  /\ UNCHANGED dataVars

\* The memcpy() out of the temporary block of a device-to-host copy; the
\* block is then freed.
Back(x) ==
  /\ pc[x] = "back"
  /\ mem' = IF D2H(x) THEN [mem EXCEPT ![To(x)] = mem[block[x]]] ELSE mem
  /\ GoTo(x, "find")
  /\ UNCHANGED <<trackVars, ghostVars, copyVars>>

ReturnMemcpy(a) == Inside(a, "memcpy", "return") /\ Return(a) /\ UNCHANGED dataVars

\* MemcpyAsync: the task is made and left to the scheduler.
CallMemcpyAsync(a) ==
  /\ Calling(a, "memcpyAsync")
  /\ copy' = [copy EXCEPT ![Current(a).copy] = "ready"]
  /\ Return(a)
  /\ UNCHANGED <<trackVars, ghostVars, mem, identityCopy, engine,
                 signal>>

\* What the schedulers ask of the required copies.
Dispatchable(t) ==
  \A u \in Requires[t] :
    copy[u] \in (IF program.depSync = "callback" THEN {"completed"}
                 ELSE {"dispatched", "completed"})

\* Mutant: a staged copy counts once.
ShareOne(t) == 1

\* acquireAqlPacket raises the signal by 2 for a staged copy, by 1 for others.
Share(t) == IF Staged(t) THEN 2 ELSE 1

\* dispatch: a staged copy gets a thread of its own.
DispatchCopy(t) ==
  /\ copy[t] = "ready"
  /\ Dispatchable(t)
  /\ signal' = [signal EXCEPT ![SignalOf(t)] = @ + Share(t)]
  /\ IF Staged(t)
     THEN GoTo(t, "allocate") /\ copy' = [copy EXCEPT ![t] = "staging"]
          /\ UNCHANGED engine
     ELSE /\ copy' = [copy EXCEPT ![t] = "dispatched"]
          /\ engine' = engine \cup {Command(t)}
          /\ UNCHANGED appVars
  /\ UNCHANGED <<trackVars, ghostVars, mem, identityCopy>>

\* The staging thread's last act.
Subtract(t) ==
  /\ pc[t] = "subtract"
  /\ signal' = [signal EXCEPT ![SignalOf(t)] = @ - 1]
  /\ GoTo(t, "idle")
  /\ UNCHANGED <<trackVars, ghostVars, mem, identityCopy, engine, copy>>

\* The completion handler of the signal.
CompleteCopy(t) ==
  /\ copy[t] = "dispatched" /\ signal[SignalOf(t)] = 0
  /\ copy' = [copy EXCEPT ![t] = "completed"]
  /\ UNCHANGED <<trackVars, ghostVars, mem, identityCopy, engine, signal,
                 appVars>>

WaitCopy(a) ==
  /\ Calling(a, "wait")
  /\ copy[Current(a).copy] = "completed"
  /\ Return(a)
  /\ UNCHANGED dataVars

DataCall(a) ==
  \/ CallMalloc(a) \/ CallFree(a) \/ ReturnFree(a)
  \/ CallMemcpy(a) \/ Store(a) \/ ReturnMemcpy(a)
  \/ CallMemcpyAsync(a) \/ WaitCopy(a)

DataStep(x) ==
  \/ Allocate(x) \/ Register(x) \/ Find(x) \/ RemoveRange(x) \/ Release(x)
  \/ Fill(x) \/ Submit(x) \/ Wait(x) \/ Back(x)

CopyStep(t) == DispatchCopy(t) \/ Subtract(t) \/ CompleteCopy(t)

EngineStep == \E c \in engine : EngineCopy(c)
=============================================================================

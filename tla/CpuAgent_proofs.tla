---------------------------- MODULE CpuAgent_proofs ----------------------------
(***************************************************************************)
(* What CpuAgent promises holds for every number of dispatchers, queues,   *)
(* threads and slots.  The argument: a dispatch works on a task of its own *)
(* (DispatchesApart) and reserves its packets' places one by one           *)
(* (PlacesCounted), no two of which are the same (PlacesDistinct); a       *)
(* worker stays behind writeIndex, and the doorbell it has been told of    *)
(* does so too (ReadBehindWrite).  So what a slot holds was put there for  *)
(* an index in the window of QueueSize indices that ends at the worker's   *)
(* (HeadersPlaced), and two indices of a window have different slots       *)
(* (SameSlot).  On a queue where no dispatches overlapped, everything the  *)
(* worker may reach has been stored (Undisturbed): it runs what it passes. *)
(***************************************************************************)
EXTENDS CpuAgent, FiniteSetTheorems, TLAPS

\* The queue and the index of packet i of t, once it has its place.
PlaceQueue(t, i) == places[t][i][1]
PlaceIndex(t, i) == places[t][i][2]

Reserving == {"reserve", "room"}
Reading == {"at packet", "switch", "signal"}

\* Every dispatch works on a task of its own, under the mutex while it reserves.
DispatchesApart ==
  /\ \A d \in Dispatcher : dispatcher[d].task \in Task <=> ~At(d, "idle")
  /\ \A d \in Dispatcher :
       ~At(d, "idle") => dispatcher[d].next \in 1..ThreadCount[dispatcher[d].task]
  /\ \A d, e \in Dispatcher :
       ~At(d, "idle") /\ dispatcher[d].task = dispatcher[e].task => d = e
  /\ \A d \in Dispatcher : dispatcher[d].at \in Reserving <=> readyqMutex = d
  /\ finalizer.at # "none" => \A d \in Dispatcher : At(d, "idle")

\* A task has the places its dispatch has reserved so far.
PlacesCounted ==
  /\ \A t \in Task : Len(places[t]) <= ThreadCount[t]
  /\ \A d \in Dispatcher : ~At(d, "idle") =>
       Len(places[dispatcher[d].task]) =
         IF dispatcher[d].at \in Reserving THEN dispatcher[d].next - 1
         ELSE ThreadCount[dispatcher[d].task]
  /\ \A t \in Task : (\A d \in Dispatcher : dispatcher[d].task # t) =>
       Len(places[t]) \in {0, ThreadCount[t]}

\* No two packets have one place.
PlacesDistinct ==
  /\ \A t \in Task : \A i \in DOMAIN places[t] :
       /\ PlaceQueue(t, i) = QueueOf(t, i)
       /\ PlaceIndex(t, i) < writeIndex[PlaceQueue(t, i)]
       /\ PlaceIndex(t, i) < readIndex[PlaceQueue(t, i)] + QueueSize
  /\ \A t, u \in Task : \A i \in DOMAIN places[t], j \in DOMAIN places[u] :
       places[t][i] = places[u][j] => t = u /\ i = j
  /\ \A d \in Dispatcher : At(d, "room") =>
       /\ dispatcher[d].index \in 0..writeIndex[CurrentQueue(d)] - 1
       /\ \A t \in Task : \A i \in DOMAIN places[t] :
            places[t][i] # <<CurrentQueue(d), dispatcher[d].index>>

\* The worker of q has been told the doorbell.
Rung(q) ==
  \/ worker[q] \in Reading \cup {"waiting"}
  \/ workerSig[q] = PROCESS_PKT
  \/ \E d \in Dispatcher : At(d, "signal") /\ CurrentQueue(d) = q

\* A worker is behind writeIndex, and within its loop's bound.
ReadBehindWrite ==
  \A q \in Queue :
    /\ readIndex[q] <= writeIndex[q] /\ readIndex[q] <= QueueSize
    /\ worker[q] \in Reading => readIndex[q] < writeIndex[q] /\ readIndex[q] < QueueSize
    /\ Rung(q) => doorbell[q] < writeIndex[q] \/ doorbell[q] = IntMax
    /\ \A d \in Dispatcher : At(d, "ring") /\ CurrentQueue(d) = q =>
         dispatcher[d].index \in 0..writeIndex[q] - 1

\* A slot names a packet, or a task, that has its place in it.
HeadersPlaced ==
  \A q \in Queue : \A s \in 0..QueueSize - 1 : \A t \in Task :
    /\ \A i \in 1..ThreadCount[t] : header[q][s] = <<t, i>> =>
         Stored(t, i) /\ PlaceQueue(t, i) = q /\ PlaceIndex(t, i) % QueueSize = s
    /\ completion[q][s] = t =>
         \E i \in DOMAIN places[t] :
           PlaceQueue(t, i) = q /\ PlaceIndex(t, i) % QueueSize = s

\* What has run is behind the worker.
RanInOrder ==
  \A t \in Task : \A i \in 1..ThreadCount[t] : <<t, i>> \in ran =>
    /\ Stored(t, i)
    /\ LET q == PlaceQueue(t, i) IN
       \/ PlaceIndex(t, i) < readIndex[q]
       \/ PlaceIndex(t, i) = readIndex[q] /\ worker[q] = "signal"

\* The packets of t whose completion is still to be signalled.
Pending(t) ==
  {i \in 1..ThreadCount[t] :
     HasPlace(t, i) => PlaceIndex(t, i) >= readIndex[PlaceQueue(t, i)]}

SignalCovers ==
  \A t \in Task :
    /\ signalValue[t] >= 0
    /\ (places[t] # <<>> \/ \E d \in Dispatcher : dispatcher[d].task = t) =>
         signalValue[t] >= Cardinality(Pending(t))

\* d has a packet on q, or is about to.
Touches(d, q) ==
  \/ At(d, "room") /\ CurrentQueue(d) = q
  \/ ~At(d, "idle") /\ \E i \in DOMAIN places[dispatcher[d].task] : PlaceQueue(dispatcher[d].task, i) = q

\* The worker may go as far as index k.
MayReach(q, k) ==
  \/ Rung(q) /\ doorbell[q] # IntMax /\ k <= doorbell[q]
  \/ k < readIndex[q]
  \/ k = readIndex[q] /\ worker[q] \in Reading

\* Without overlapping dispatches all that the worker may reach is stored.
Undisturbed ==
  \A q \in Queue \ disturbed :
    /\ \A d, e \in Dispatcher : Touches(d, q) /\ Touches(e, q) => d = e
    /\ \A d \in Dispatcher : At(d, "room") /\ CurrentQueue(d) = q => ~MayReach(q, dispatcher[d].index)
    /\ \A t \in Task : \A i \in DOMAIN places[t] : PlaceQueue(t, i) = q =>
       /\ MayReach(q, PlaceIndex(t, i)) => Stored(t, i)
       /\ PlaceIndex(t, i) < readIndex[q] => <<t, i>> \in ran
       /\ PlaceIndex(t, i) = readIndex[q] /\ worker[q] = "signal" => <<t, i>> \in ran
       /\ Stored(t, i) /\ <<t, i>> \notin ran =>
            header[q][PlaceIndex(t, i) % QueueSize] = <<t, i>>

\* The inductive invariant.
AgentInv ==
  /\ TypeOK
  /\ DispatchesApart
  /\ PlacesCounted
  /\ PlacesDistinct
  /\ ReadBehindWrite
  /\ HeadersPlaced
  /\ RanInOrder
  /\ SignalCovers
  /\ Undisturbed

-------------------------------------------------------------------------------
(***************************************************************************)
(* The remainder of an index, for indices within two rounds of the ring.   *)
(***************************************************************************)
LEMMA ModSmall ==
  ASSUME NEW n \in Nat \ {0}, NEW k \in Nat, k < n
  PROVE  k % n = k
  OBVIOUS

LEMMA ModOnce ==
  ASSUME NEW n \in Nat \ {0}, NEW k \in Nat, n <= k, k < n + n
  PROVE  k % n = k - n
  OBVIOUS

LEMMA ModRange ==
  ASSUME NEW n \in Nat \ {0}, NEW k \in Nat
  PROVE  k % n \in 0..n - 1
  OBVIOUS

LEMMA ModTwoRounds ==
  ASSUME NEW n \in Nat \ {0}, NEW k \in Nat, k < n + n
  PROVE  k % n = IF k < n THEN k ELSE k - n
  <1>1. CASE k < n
    BY <1>1, ModSmall
  <1>2. CASE ~(k < n)
    <2>1. n <= k
      BY <1>2
    <2>2. k % n = k - n
      BY <2>1, ModOnce
    <2>3. QED
      BY <1>2, <2>2
  <1>3. QED
    BY <1>1, <1>2

\* In a window of QueueSize indices no two have the same slot.
LEMMA SameSlot ==
  ASSUME NEW r \in 0..QueueSize, NEW j \in Nat, NEW k \in Nat,
         r <= j, j < r + QueueSize, r <= k, k < r + QueueSize,
         j % QueueSize = k % QueueSize
  PROVE  j = k
  <1>1. PICK n \in Nat \ {0} : n = QueueSize
    BY AgentAssumption
  <1>2. j < n + n /\ k < n + n
    BY <1>1
  <1>3. j % n = (IF j < n THEN j ELSE j - n) /\ k % n = (IF k < n THEN k ELSE k - n)
    BY <1>2, ModTwoRounds
  <1>4. QED
    BY <1>1, <1>3

\* The index the reader is at is the only one of its slot below the window's end.
LEMMA SlotOfReader ==
  ASSUME NEW r \in Nat, NEW k \in Nat, r < QueueSize, k < r + QueueSize,
         k % QueueSize = r % QueueSize
  PROVE  k = r
  <1>1. PICK n \in Nat \ {0} : n = QueueSize
    BY AgentAssumption
  <1>2. r < n + n /\ k < n + n
    BY <1>1
  <1>3. r % n = (IF r < n THEN r ELSE r - n) /\ k % n = (IF k < n THEN k ELSE k - n)
    BY <1>2, ModTwoRounds
  <1>4. QED
    BY <1>1, <1>3

LEMMA QueueOfType ==
  ASSUME NEW t \in Task, NEW i \in 1..ThreadCount[t]
  PROVE  QueueOf(t, i) \in Queue
  <1>1. PICK qs \in Seq(Queue) \ {<<>>} : qs = QueuesOf[t]
    BY AgentAssumption
  <1>2. Len(qs) \in Nat \ {0} /\ DOMAIN qs = 1..Len(qs)
    BY <1>1
  <1>3. ThreadCount[t] \in Nat \ {0} /\ i - 1 \in Nat
    BY AgentAssumption
  <1>4. (i - 1) % Len(qs) \in 0..Len(qs) - 1
    BY <1>2, <1>3, ModRange
  <1>5. 1 + ((i - 1) % Len(qs)) \in 1..Len(qs)
    BY <1>2, <1>4
  <1>6. \A k \in 1..Len(qs) : qs[k] \in Queue
    BY <1>1, <1>2
  <1>7. ChosenQueue[t] \in 1..Len(qs)
    BY <1>1, <1>2, AgentAssumption
  <1>8. QED
    BY <1>1, <1>5, <1>6, <1>7 DEF QueueOf

-------------------------------------------------------------------------------
DispatcherType == [at : DispatcherLabel, task : Task \cup {NoTask}, next : Nat \ {0}, index : Int]
\* A dispatcher at work.
LEMMA AtWork ==
  ASSUME AgentInv, NEW d \in Dispatcher, ~At(d, "idle")
  PROVE  /\ dispatcher[d].task \in Task
         /\ ThreadCount[dispatcher[d].task] \in Nat \ {0}
         /\ dispatcher[d].next \in 1..ThreadCount[dispatcher[d].task]
         /\ CurrentQueue(d) \in Queue
         /\ dispatcher[d] \in DispatcherType
  <1>1. /\ dispatcher[d].task \in Task
        /\ dispatcher[d].next \in 1..ThreadCount[dispatcher[d].task]
        /\ dispatcher[d] \in DispatcherType
    BY DEF AgentInv, TypeOK, DispatchesApart, DispatcherType
  <1>2. QED
    BY <1>1, QueueOfType, AgentAssumption DEF CurrentQueue

\* Dispatcher d, and no other, moves to c.
Moves(d, c) ==
  /\ c \in DispatcherType
  /\ dispatcher' \in [Dispatcher -> DispatcherType]
  /\ dispatcher'[d] = c
  /\ \A e \in Dispatcher : e # d => dispatcher'[e] = dispatcher[e]

LEMMA MovesTo ==
  ASSUME AgentInv, NEW d \in Dispatcher, NEW c \in DispatcherType,
         dispatcher' = [dispatcher EXCEPT ![d] = c]
  PROVE  Moves(d, c)
  BY DEF AgentInv, TypeOK, Moves, DispatcherType

\* What the control of a dispatcher becomes, action by action.
LEMMA AcquireMoves ==
  ASSUME AgentInv, NEW d \in Dispatcher, NEW t \in Task, AcquireAqlPacket(d, t)
  PROVE  Moves(d, Control("reserve", t, 1, 0))
  <1>1. Control("reserve", t, 1, 0) \in DispatcherType
    BY DEF Control, DispatcherType, DispatcherLabel
  <1>2. QED
    BY <1>1, MovesTo DEF AcquireAqlPacket

LEMMA GotoMoves ==
  ASSUME AgentInv, NEW d \in Dispatcher, NEW l \in DispatcherLabel, NEW k \in Int,
         Goto(d, l, k)
  PROVE  Moves(d, Control(l, dispatcher[d].task, dispatcher[d].next, k))
  <1>1. dispatcher[d] \in DispatcherType
    BY DEF AgentInv, TypeOK, DispatcherType
  <1>2. Control(l, dispatcher[d].task, dispatcher[d].next, k) \in DispatcherType
    BY <1>1 DEF Control, DispatcherType
  <1>3. QED
    BY <1>2, MovesTo DEF Goto

LEMMA NextPacketMoves ==
  ASSUME AgentInv, NEW d \in Dispatcher, ~At(d, "idle"),
         NEW again \in DispatcherLabel, NEW after \in DispatcherLabel,
         NextPacket(d, again, after)
  PROVE  LET t == dispatcher[d].task
             n == dispatcher[d].next
             k == dispatcher[d].index
         IN
         \/ n < ThreadCount[t] /\ Moves(d, Control(again, t, n + 1, k))
         \/ n = ThreadCount[t] /\ after = "idle" /\ Moves(d, NoCall)
         \/ n = ThreadCount[t] /\ after # "idle" /\ Moves(d, Control(after, t, 1, k))
  <1>1. PICK c \in DispatcherType : c = dispatcher[d]
    BY AtWork
  <1>2. /\ c.task \in Task /\ c.next \in 1..ThreadCount[c.task] /\ c.index \in Int
        /\ ThreadCount[c.task] \in Nat \ {0} /\ c.next \in Nat /\ c.next + 1 \in Nat \ {0}
    BY <1>1, AtWork DEF DispatcherType
  <1>3. /\ NoCall \in DispatcherType
        /\ Control(again, c.task, c.next + 1, c.index) \in DispatcherType
        /\ Control(after, c.task, 1, c.index) \in DispatcherType
    BY <1>2 DEF NoCall, Control, DispatcherType, DispatcherLabel
  <1>4. CASE c.next < ThreadCount[c.task]
    <2>1. dispatcher' = [dispatcher EXCEPT ![d] = Control(again, c.task, c.next + 1, c.index)]
      BY <1>1, <1>4 DEF NextPacket
    <2>2. Moves(d, Control(again, c.task, c.next + 1, c.index))
      BY <1>3, <2>1, MovesTo
    <2>3. QED
      BY <1>1, <1>4, <2>2
  <1>5. CASE ~(c.next < ThreadCount[c.task]) /\ after = "idle"
    <2>1. dispatcher' = [dispatcher EXCEPT ![d] = NoCall]
      BY <1>1, <1>5 DEF NextPacket
    <2>2. Moves(d, NoCall)
      BY <1>3, <2>1, MovesTo
    <2>3. c.next = ThreadCount[c.task]
      BY <1>2, <1>5
    <2>4. QED
      BY <1>1, <1>5, <2>2, <2>3
  <1>6. CASE ~(c.next < ThreadCount[c.task]) /\ after # "idle"
    <2>1. dispatcher' = [dispatcher EXCEPT ![d] = Control(after, c.task, 1, c.index)]
      BY <1>1, <1>6 DEF NextPacket
    <2>2. Moves(d, Control(after, c.task, 1, c.index))
      BY <1>3, <2>1, MovesTo
    <2>3. c.next = ThreadCount[c.task]
      BY <1>2, <1>6
    <2>4. QED
      BY <1>1, <1>6, <2>2, <2>3
  <1>7. QED
    BY <1>4, <1>5, <1>6

-------------------------------------------------------------------------------
\* What most actions do to the parts of the state the invariant is about.
PlacesGrow ==
  \A t \in Task : \A i \in DOMAIN places[t] :
    i \in DOMAIN places'[t] /\ places'[t][i] = places[t][i]
StoredGrows == \A t \in Task : \A i \in Nat : Stored(t, i) => Stored(t, i)'
StoredSame == \A t \in Task : \A i \in Nat : Stored(t, i)' <=> Stored(t, i)
ReadersAdvance == \A q \in Queue : readIndex'[q] >= readIndex[q]

LEMMA PlacesType ==
  ASSUME TypeOK, NEW t \in Task, NEW i \in DOMAIN places[t]
  PROVE  /\ i \in Nat \ {0} /\ i \in 1..Len(places[t])
         /\ places[t][i] \in Queue \X Nat
         /\ PlaceQueue(t, i) \in Queue /\ PlaceIndex(t, i) \in Nat
  <1>1. PICK ps \in Seq(Queue \X Nat) : ps = places[t]
    BY DEF TypeOK
  <1>2. i \in 1..Len(ps) /\ Len(ps) \in Nat
    BY <1>1
  <1>3. i \in Nat \ {0} /\ ps[i] \in Queue \X Nat
    BY <1>1, <1>2
  <1>4. QED
    BY <1>1, <1>2, <1>3 DEF PlaceQueue, PlaceIndex

LEMMA PlacesHaveDispatch ==
  ASSUME AgentInv, NEW t \in Task, NEW i \in DOMAIN places[t]
  PROVE  i \in 1..ThreadCount[t] /\ <<t, i>> \in Packet /\ PlaceQueue(t, i) = QueueOf(t, i)
  <1>1. i \in 1..Len(places[t]) /\ Len(places[t]) <= ThreadCount[t] /\ Len(places[t]) \in Nat
    <2>1. TypeOK /\ PlacesCounted
      BY DEF AgentInv
    <2>2. i \in 1..Len(places[t])
      BY <2>1, PlacesType
    <2>3. places[t] \in Seq(Queue \X Nat)
      BY <2>1 DEF TypeOK
    <2>4. QED
      BY <2>1, <2>2, <2>3 DEF PlacesCounted
  <1>2. ThreadCount[t] \in Nat
    BY AgentAssumption
  <1>3. i \in 1..ThreadCount[t]
    BY <1>1, <1>2
  <1>4. <<t, i>> \in Packet
    BY <1>3 DEF Packet, PacketsOf
  <1>5. QED
    BY <1>3, <1>4 DEF AgentInv, PlacesDistinct

LEMMA FrameApart ==
  ASSUME AgentInv, UNCHANGED <<dispatcher, readyqMutex, places, finalizer>>
  PROVE  /\ DispatchesApart' /\ PlacesCounted'
         /\ PlacesGrow /\ StoredSame /\ StoredGrows
  BY DEF AgentInv, DispatchesApart, PlacesCounted, At, PlacesGrow, StoredSame, StoredGrows,
         Stored, HasPlace

LEMMA FrameDistinct ==
  ASSUME AgentInv, TypeOK', places' = places, ReadersAdvance,
         \A q \in Queue : writeIndex'[q] >= writeIndex[q],
         \A d \in Dispatcher : At(d, "room")' =>
           \/ /\ At(d, "room") /\ dispatcher'[d].index = dispatcher[d].index
              /\ CurrentQueue(d)' = CurrentQueue(d)
           \/ /\ dispatcher'[d].index \in 0..writeIndex'[CurrentQueue(d)'] - 1
              /\ \A t \in Task : \A i \in DOMAIN places'[t] :
                   places'[t][i] # <<CurrentQueue(d)', dispatcher'[d].index>>
  PROVE  PlacesDistinct'
  <1>1. ASSUME NEW t \in Task, NEW i \in DOMAIN places'[t]
        PROVE  /\ PlaceQueue(t, i)' = QueueOf(t, i)
               /\ PlaceIndex(t, i)' < writeIndex'[PlaceQueue(t, i)']
               /\ PlaceIndex(t, i)' < readIndex'[PlaceQueue(t, i)'] + QueueSize
    <2>1. i \in DOMAIN places[t] /\ PlaceQueue(t, i)' = PlaceQueue(t, i)
            /\ PlaceIndex(t, i)' = PlaceIndex(t, i)
      BY <1>1 DEF PlaceQueue, PlaceIndex
    <2>2. PICK q \in Queue, k \in Nat : q = PlaceQueue(t, i) /\ k = PlaceIndex(t, i)
      BY <2>1, PlacesType DEF AgentInv
    <2>3. q = QueueOf(t, i) /\ k < writeIndex[q] /\ k < readIndex[q] + QueueSize
      BY <2>1, <2>2 DEF AgentInv, PlacesDistinct
    <2>4. /\ writeIndex[q] \in Nat /\ writeIndex'[q] \in Nat /\ writeIndex'[q] >= writeIndex[q]
          /\ readIndex[q] \in Nat /\ readIndex'[q] \in Nat /\ readIndex'[q] >= readIndex[q]
          /\ QueueSize \in Nat
      BY AgentAssumption DEF AgentInv, TypeOK, ReadersAdvance
    <2>5. QED
      BY <2>1, <2>2, <2>3, <2>4
  <1>2. \A t, u \in Task : \A i \in DOMAIN places'[t], j \in DOMAIN places'[u] :
          places'[t][i] = places'[u][j] => t = u /\ i = j
    BY DEF AgentInv, PlacesDistinct
  <1>3. ASSUME NEW d \in Dispatcher, At(d, "room")'
        PROVE  /\ dispatcher'[d].index \in 0..writeIndex'[CurrentQueue(d)'] - 1
               /\ \A t \in Task : \A i \in DOMAIN places'[t] :
                    places'[t][i] # <<CurrentQueue(d)', dispatcher'[d].index>>
    <2>1. CASE /\ At(d, "room") /\ dispatcher'[d].index = dispatcher[d].index
               /\ CurrentQueue(d)' = CurrentQueue(d)
      <3>1. CurrentQueue(d) \in Queue
        BY <2>1, AtWork DEF At
      <3>2. PICK q \in Queue, k \in Int : q = CurrentQueue(d) /\ k = dispatcher[d].index
        BY <3>1 DEF AgentInv, TypeOK
      <3>3. k \in 0..writeIndex[q] - 1
              /\ \A t \in Task : \A i \in DOMAIN places[t] : places[t][i] # <<q, k>>
        BY <2>1, <3>2 DEF AgentInv, PlacesDistinct
      <3>4. writeIndex[q] \in Nat /\ writeIndex'[q] \in Nat /\ writeIndex'[q] >= writeIndex[q]
        BY DEF AgentInv, TypeOK
      <3>5. k \in 0..writeIndex'[q] - 1
        BY <3>3, <3>4
      <3>6. QED
        BY <2>1, <3>2, <3>3, <3>5
    <2>2. QED
      BY <1>3, <2>1
  <1>4. QED
    BY <1>1, <1>2, <1>3 DEF PlacesDistinct

LEMMA HeaderStays ==
  ASSUME AgentInv, PlacesGrow, StoredGrows, NEW q \in Queue, NEW s \in 0..QueueSize - 1,
         NEW t \in Task, NEW i \in 1..ThreadCount[t], header[q][s] = <<t, i>>
  PROVE  Stored(t, i)' /\ PlaceQueue(t, i)' = q /\ PlaceIndex(t, i)' % QueueSize = s
  <1>1. Stored(t, i) /\ PlaceQueue(t, i) = q /\ PlaceIndex(t, i) % QueueSize = s
    BY DEF AgentInv, HeadersPlaced
  <1>2. i \in Nat
    BY AgentAssumption
  <1>3. Stored(t, i)' /\ i \in DOMAIN places[t]
    BY <1>1, <1>2 DEF StoredGrows, Stored, HasPlace
  <1>4. PlaceQueue(t, i)' = PlaceQueue(t, i) /\ PlaceIndex(t, i)' = PlaceIndex(t, i)
    BY <1>3 DEF PlacesGrow, PlaceQueue, PlaceIndex
  <1>5. QED
    BY <1>1, <1>3, <1>4

LEMMA CompletionStays ==
  ASSUME AgentInv, PlacesGrow, NEW q \in Queue, NEW s \in 0..QueueSize - 1,
         NEW t \in Task, completion[q][s] = t
  PROVE  \E i \in DOMAIN places'[t] :
           PlaceQueue(t, i)' = q /\ PlaceIndex(t, i)' % QueueSize = s
  <1>1. PICK i \in DOMAIN places[t] : PlaceQueue(t, i) = q /\ PlaceIndex(t, i) % QueueSize = s
    BY DEF AgentInv, HeadersPlaced
  <1>2. i \in DOMAIN places'[t] /\ PlaceQueue(t, i)' = PlaceQueue(t, i)
          /\ PlaceIndex(t, i)' = PlaceIndex(t, i)
    BY DEF PlacesGrow, PlaceQueue, PlaceIndex
  <1>3. QED
    BY <1>1, <1>2

LEMMA FrameHeaders ==
  ASSUME AgentInv, PlacesGrow, StoredGrows,
         \A q \in Queue : \A s \in 0..QueueSize - 1 :
           /\ header'[q][s] \in Packet => header'[q][s] = header[q][s]
           /\ completion'[q][s] # NoTask => completion'[q][s] = completion[q][s]
  PROVE  HeadersPlaced'
  <1> SUFFICES ASSUME NEW q \in Queue, NEW s \in 0..QueueSize - 1, NEW t \in Task
               PROVE  /\ \A i \in 1..ThreadCount[t] : header'[q][s] = <<t, i>> =>
                           Stored(t, i)' /\ PlaceQueue(t, i)' = q
                             /\ PlaceIndex(t, i)' % QueueSize = s
                      /\ completion'[q][s] = t =>
                           \E i \in DOMAIN places'[t] :
                             PlaceQueue(t, i)' = q /\ PlaceIndex(t, i)' % QueueSize = s
    BY DEF HeadersPlaced
  <1>1. ASSUME NEW i \in 1..ThreadCount[t], header'[q][s] = <<t, i>>
        PROVE  header[q][s] = <<t, i>>
    <2>1. <<t, i>> \in Packet
      BY DEF Packet, PacketsOf
    <2>2. QED
      BY <1>1, <2>1
  <1>2. completion'[q][s] = t => completion[q][s] = t
    BY AgentAssumption
  <1>3. QED
    BY <1>1, <1>2, HeaderStays, CompletionStays

LEMMA FrameRan ==
  ASSUME AgentInv, TypeOK', PlacesGrow, StoredGrows, ReadersAdvance,
         \A q \in Queue : worker[q] = "signal" =>
           worker'[q] = "signal" \/ readIndex'[q] > readIndex[q]
  PROVE  /\ \A t \in Task : \A i \in 1..ThreadCount[t] : <<t, i>> \in ran =>
              /\ Stored(t, i)'
              /\ \/ PlaceIndex(t, i)' < readIndex'[PlaceQueue(t, i)']
                 \/ /\ PlaceIndex(t, i)' = readIndex'[PlaceQueue(t, i)']
                    /\ worker'[PlaceQueue(t, i)'] = "signal"
         /\ ran' = ran => RanInOrder'
  <1> SUFFICES ASSUME NEW t \in Task, NEW i \in 1..ThreadCount[t], <<t, i>> \in ran
               PROVE  /\ Stored(t, i)'
                      /\ \/ PlaceIndex(t, i)' < readIndex'[PlaceQueue(t, i)']
                         \/ /\ PlaceIndex(t, i)' = readIndex'[PlaceQueue(t, i)']
                            /\ worker'[PlaceQueue(t, i)'] = "signal"
    BY DEF RanInOrder
  <1>1. /\ Stored(t, i)
        /\ \/ PlaceIndex(t, i) < readIndex[PlaceQueue(t, i)]
           \/ PlaceIndex(t, i) = readIndex[PlaceQueue(t, i)] /\ worker[PlaceQueue(t, i)] = "signal"
    BY DEF AgentInv, RanInOrder
  <1>2. i \in Nat
    BY AgentAssumption
  <1>3. Stored(t, i)' /\ i \in DOMAIN places[t]
    BY <1>1, <1>2 DEF StoredGrows, Stored, HasPlace
  <1>4. PICK q \in Queue, k \in Nat : q = PlaceQueue(t, i) /\ k = PlaceIndex(t, i)
    BY <1>3, PlacesType DEF AgentInv
  <1>5. PlaceQueue(t, i)' = q /\ PlaceIndex(t, i)' = k
    BY <1>3, <1>4 DEF PlacesGrow, PlaceQueue, PlaceIndex
  <1>6. readIndex[q] \in Nat /\ readIndex'[q] \in Nat /\ readIndex'[q] >= readIndex[q]
    BY DEF AgentInv, TypeOK, ReadersAdvance
  <1>7. CASE k < readIndex[q]
    BY <1>3, <1>5, <1>6, <1>7
  <1>8. CASE k = readIndex[q] /\ worker[q] = "signal"
    <2>1. worker'[q] = "signal" \/ readIndex'[q] > readIndex[q]
      BY <1>8
    <2>2. k < readIndex'[q] \/ (k = readIndex'[q] /\ worker'[q] = "signal")
      BY <1>6, <1>8, <2>1
    <2>3. QED
      BY <1>3, <1>5, <2>2
  <1>9. QED
    BY <1>1, <1>4, <1>7, <1>8

LEMMA PendingFinite ==
  ASSUME NEW t \in Task
  PROVE  /\ IsFiniteSet(Pending(t)) /\ Cardinality(Pending(t)) \in 0..ThreadCount[t]
  <1>1. Pending(t) \subseteq 1..ThreadCount[t]
    BY DEF Pending
  <1>2. ThreadCount[t] \in Nat \ {0}
    BY AgentAssumption
  <1>3. IsFiniteSet(1..ThreadCount[t]) /\ Cardinality(1..ThreadCount[t]) = ThreadCount[t]
    <2>1. PICK n \in Nat \ {0} : n = ThreadCount[t]
      BY <1>2
    <2>2. 1 \in Int /\ n \in Int /\ ~(1 > n) /\ n - 1 + 1 = n
      BY <2>1
    <2>3. QED
      BY <2>1, <2>2, FS_Interval
  <1>4. IsFiniteSet(Pending(t)) /\ Cardinality(Pending(t)) <= ThreadCount[t]
    BY <1>1, <1>3, FS_Subset
  <1>5. Cardinality(Pending(t)) \in Nat
    BY <1>4, FS_CardinalityType
  <1>6. QED
    BY <1>2, <1>4, <1>5

LEMMA FewerPending ==
  ASSUME AgentInv, TypeOK', PlacesGrow, ReadersAdvance, NEW t \in Task
  PROVE  /\ Pending(t)' \subseteq Pending(t)
         /\ Cardinality(Pending(t)') <= Cardinality(Pending(t))
         /\ Cardinality(Pending(t)') \in Nat
  <1>1. ASSUME NEW i \in Pending(t)'
        PROVE  i \in Pending(t)
    <2>1. i \in 1..ThreadCount[t]
            /\ (i \in DOMAIN places'[t] => PlaceIndex(t, i)' >= readIndex'[PlaceQueue(t, i)'])
      BY DEF Pending, HasPlace
    <2>2. ASSUME i \in DOMAIN places[t]
          PROVE  PlaceIndex(t, i) >= readIndex[PlaceQueue(t, i)]
      <3>1. PICK q \in Queue, k \in Nat : q = PlaceQueue(t, i) /\ k = PlaceIndex(t, i)
        BY <2>2, PlacesType DEF AgentInv
      <3>2. i \in DOMAIN places'[t] /\ PlaceQueue(t, i)' = q /\ PlaceIndex(t, i)' = k
        BY <2>2, <3>1 DEF PlacesGrow, PlaceQueue, PlaceIndex
      <3>3. readIndex[q] \in Nat /\ readIndex'[q] \in Nat /\ readIndex'[q] >= readIndex[q]
        BY DEF AgentInv, TypeOK, ReadersAdvance
      <3>4. k >= readIndex'[q]
        BY <2>1, <3>2
      <3>5. QED
        BY <3>1, <3>3, <3>4
    <2>3. QED
      BY <2>1, <2>2 DEF Pending, HasPlace
  <1>2. Pending(t)' \subseteq Pending(t)
    BY <1>1
  <1>3. IsFiniteSet(Pending(t))
    BY PendingFinite
  <1>4. IsFiniteSet(Pending(t)') /\ Cardinality(Pending(t)') <= Cardinality(Pending(t))
    BY <1>2, <1>3, FS_Subset
  <1>5. Cardinality(Pending(t)') \in Nat
    BY <1>4, FS_CardinalityType
  <1>6. QED
    BY <1>2, <1>4, <1>5

LEMMA FrameSignal ==
  ASSUME AgentInv, TypeOK', PlacesGrow, ReadersAdvance, signalValue' = signalValue,
         \A t \in Task : (places'[t] # <<>> \/ \E d \in Dispatcher : dispatcher'[d].task = t) =>
           (places[t] # <<>> \/ \E d \in Dispatcher : dispatcher[d].task = t)
  PROVE  SignalCovers'
  <1> SUFFICES ASSUME NEW t \in Task
               PROVE  /\ signalValue'[t] >= 0
                      /\ (places'[t] # <<>> \/ \E d \in Dispatcher : dispatcher'[d].task = t) =>
                           signalValue'[t] >= Cardinality(Pending(t)')
    BY DEF SignalCovers
  <1>1. signalValue'[t] >= 0
    BY DEF AgentInv, SignalCovers
  <1>2. ASSUME places'[t] # <<>> \/ \E d \in Dispatcher : dispatcher'[d].task = t
        PROVE  signalValue'[t] >= Cardinality(Pending(t)')
    <2>1. signalValue[t] >= Cardinality(Pending(t))
      BY <1>2 DEF AgentInv, SignalCovers
    <2>2. Cardinality(Pending(t)') <= Cardinality(Pending(t)) /\ Cardinality(Pending(t)') \in Nat
      BY FewerPending
    <2>3. Cardinality(Pending(t)) \in Nat /\ signalValue[t] \in Int
      BY PendingFinite, AgentAssumption DEF AgentInv, TypeOK
    <2>4. QED
      BY <2>1, <2>2, <2>3
  <1>3. QED
    BY <1>1, <1>2

LEMMA FrameReads ==
  ASSUME AgentInv, TypeOK', readIndex' = readIndex,
         \A q \in Queue : writeIndex'[q] >= writeIndex[q],
         \A q \in Queue : worker'[q] \in Reading => worker[q] \in Reading,
         \A q \in Queue : Rung(q)' =>
           \/ doorbell'[q] = IntMax \/ doorbell'[q] < writeIndex'[q]
           \/ Rung(q) /\ doorbell'[q] = doorbell[q],
         \A d \in Dispatcher : At(d, "ring")' =>
           \/ /\ At(d, "ring") /\ dispatcher'[d].index = dispatcher[d].index
              /\ CurrentQueue(d)' = CurrentQueue(d)
           \/ dispatcher'[d].index \in 0..writeIndex'[CurrentQueue(d)'] - 1
  PROVE  ReadBehindWrite'
  <1> SUFFICES ASSUME NEW q \in Queue
               PROVE  /\ readIndex'[q] <= writeIndex'[q] /\ readIndex'[q] <= QueueSize
                      /\ worker'[q] \in Reading =>
                           readIndex'[q] < writeIndex'[q] /\ readIndex'[q] < QueueSize
                      /\ Rung(q)' => doorbell'[q] < writeIndex'[q] \/ doorbell'[q] = IntMax
                      /\ \A d \in Dispatcher : At(d, "ring")' /\ CurrentQueue(d)' = q =>
                           dispatcher'[d].index \in 0..writeIndex'[q] - 1
    BY DEF ReadBehindWrite
  <1>1. PICK r, w, v \in Nat : r = readIndex[q] /\ w = writeIndex[q] /\ v = writeIndex'[q]
    BY DEF AgentInv, TypeOK
  <1>2. v >= w /\ QueueSize \in Nat /\ readIndex'[q] = r /\ writeIndex'[q] = v
    BY <1>1, AgentAssumption
  <1>3. /\ r <= w /\ r <= QueueSize
        /\ worker[q] \in Reading => r < w /\ r < QueueSize
        /\ Rung(q) => doorbell[q] < w \/ doorbell[q] = IntMax
        /\ \A d \in Dispatcher : At(d, "ring") /\ CurrentQueue(d) = q =>
             dispatcher[d].index \in 0..w - 1
    BY <1>1 DEF AgentInv, ReadBehindWrite
  <1>4. r <= v /\ r <= QueueSize
    BY <1>1, <1>2, <1>3
  <1>5. worker'[q] \in Reading => r < v /\ r < QueueSize
    BY <1>1, <1>2, <1>3
  <1>6. ASSUME Rung(q)' PROVE doorbell'[q] < v \/ doorbell'[q] = IntMax
    <2>1. CASE Rung(q) /\ doorbell'[q] = doorbell[q]
      <3>1. doorbell[q] \in Nat
        BY DEF AgentInv, TypeOK
      <3>2. doorbell[q] < w \/ doorbell[q] = IntMax
        BY <1>3, <2>1
      <3>3. QED
        BY <1>1, <1>2, <2>1, <3>1, <3>2
    <2>2. QED
      BY <1>2, <1>6, <2>1
  <1>7. ASSUME NEW d \in Dispatcher, At(d, "ring")', CurrentQueue(d)' = q
        PROVE  dispatcher'[d].index \in 0..v - 1
    <2>1. CASE At(d, "ring") /\ dispatcher'[d].index = dispatcher[d].index
                 /\ CurrentQueue(d) = q
      <3>1. dispatcher[d].index \in 0..w - 1
        BY <1>3, <2>1
      <3>2. 0..w - 1 \subseteq 0..v - 1
        BY <1>1, <1>2
      <3>3. QED
        BY <2>1, <3>1, <3>2
    <2>2. QED
      BY <1>2, <1>7, <2>1
  <1>8. QED
    BY <1>2, <1>4, <1>5, <1>6, <1>7

\* The packets of q, as Undisturbed has them.
QueueUndisturbed(q) ==
  \A t \in Task : \A i \in DOMAIN places[t] : PlaceQueue(t, i) = q =>
    /\ MayReach(q, PlaceIndex(t, i)) => Stored(t, i)
    /\ PlaceIndex(t, i) < readIndex[q] => <<t, i>> \in ran
    /\ PlaceIndex(t, i) = readIndex[q] /\ worker[q] = "signal" => <<t, i>> \in ran
    /\ Stored(t, i) /\ <<t, i>> \notin ran =>
         header[q][PlaceIndex(t, i) % QueueSize] = <<t, i>>

LEMMA FrameUndisturbed ==
  ASSUME AgentInv, places' = places, disturbed' = disturbed, readIndex' = readIndex,
         StoredSame, ran' = ran, header' = header,
         \A d \in Dispatcher : \A q \in Queue : Touches(d, q)' => Touches(d, q),
         \A d \in Dispatcher : At(d, "room")' =>
           At(d, "room") /\ dispatcher'[d].index = dispatcher[d].index
             /\ CurrentQueue(d)' = CurrentQueue(d),
         \A q \in Queue : worker'[q] = "signal" => worker[q] = "signal",
         \A q \in Queue : \A k \in Int : MayReach(q, k)' => MayReach(q, k)
  PROVE  Undisturbed'
  <1> SUFFICES ASSUME NEW q \in Queue, q \notin disturbed
               PROVE  /\ \A d, e \in Dispatcher : Touches(d, q)' /\ Touches(e, q)' => d = e
                      /\ \A d \in Dispatcher : At(d, "room")' /\ CurrentQueue(d)' = q =>
                           ~MayReach(q, dispatcher[d].index)'
                      /\ QueueUndisturbed(q)'
    BY DEF Undisturbed, QueueUndisturbed
  <1>1. /\ \A d, e \in Dispatcher : Touches(d, q) /\ Touches(e, q) => d = e
        /\ \A d \in Dispatcher : At(d, "room") /\ CurrentQueue(d) = q =>
             ~MayReach(q, dispatcher[d].index)
        /\ QueueUndisturbed(q)
    BY DEF AgentInv, Undisturbed, QueueUndisturbed
  <1>2. \A d, e \in Dispatcher : Touches(d, q)' /\ Touches(e, q)' => d = e
    BY <1>1
  <1>3. ASSUME NEW d \in Dispatcher, At(d, "room")', CurrentQueue(d)' = q
        PROVE  ~MayReach(q, dispatcher[d].index)'
    <2>1. At(d, "room") /\ CurrentQueue(d) = q /\ dispatcher'[d].index = dispatcher[d].index
      BY <1>3
    <2>2. PICK k \in Int : k = dispatcher[d].index
      BY DEF AgentInv, TypeOK
    <2>3. ~MayReach(q, k)
      BY <1>1, <2>1, <2>2
    <2>4. ~MayReach(q, k)'
      BY <2>3
    <2>5. QED
      BY <2>1, <2>2, <2>4 DEF MayReach
  <1>4. QueueUndisturbed(q)'
    <2> SUFFICES ASSUME NEW t \in Task, NEW i \in DOMAIN places[t], PlaceQueue(t, i) = q
                 PROVE  /\ MayReach(q, PlaceIndex(t, i))' => Stored(t, i)'
                        /\ PlaceIndex(t, i) < readIndex[q] => <<t, i>> \in ran
                        /\ PlaceIndex(t, i) = readIndex[q] /\ worker'[q] = "signal"
                             => <<t, i>> \in ran
                        /\ Stored(t, i)' /\ <<t, i>> \notin ran =>
                             header[q][PlaceIndex(t, i) % QueueSize] = <<t, i>>
      BY DEF QueueUndisturbed, PlaceQueue, PlaceIndex
    <2>1. PICK k \in Nat : k = PlaceIndex(t, i)
      BY PlacesType DEF AgentInv
    <2>2. i \in Nat
      BY PlacesType DEF AgentInv
    <2>3. Stored(t, i)' <=> Stored(t, i)
      BY <2>2 DEF StoredSame
    <2>4. MayReach(q, k)' => MayReach(q, k)
      OBVIOUS
    <2>5. MayReach(q, PlaceIndex(t, i))' <=> MayReach(q, k)'
      BY <2>1 DEF MayReach, PlaceIndex
    <2>6. /\ MayReach(q, k) => Stored(t, i)
          /\ k < readIndex[q] => <<t, i>> \in ran
          /\ k = readIndex[q] /\ worker[q] = "signal" => <<t, i>> \in ran
          /\ Stored(t, i) /\ <<t, i>> \notin ran => header[q][k % QueueSize] = <<t, i>>
      BY <1>1, <2>1 DEF QueueUndisturbed
    <2>7. QED
      BY <2>1, <2>3, <2>4, <2>5, <2>6
  <1>5. QED
    BY <1>2, <1>3, <1>4

-------------------------------------------------------------------------------
\* The steps of a worker between its packets, and of agent_fini.
LEMMA ControlFrame ==
  ASSUME AgentInv, TypeOK',
         UNCHANGED <<writeIndex, readIndex, header, completion, dispatcher, readyqMutex,
                     places, signalValue, ran, finalizer, disturbed>>,
         \A q \in Queue : worker[q] = "signal" => worker'[q] = "signal"
  PROVE  /\ DispatchesApart' /\ PlacesCounted' /\ PlacesDistinct'
         /\ HeadersPlaced' /\ RanInOrder' /\ SignalCovers'
         /\ StoredSame /\ StoredGrows /\ PlacesGrow /\ ReadersAdvance
  <1>1. DispatchesApart' /\ PlacesCounted' /\ PlacesGrow /\ StoredSame /\ StoredGrows
    BY FrameApart
  <1>2. ReadersAdvance /\ \A q \in Queue : writeIndex'[q] >= writeIndex[q]
    BY DEF AgentInv, TypeOK, ReadersAdvance
  <1>3. PlacesDistinct'
    BY <1>2, FrameDistinct DEF At, CurrentQueue
  <1>4. HeadersPlaced'
    BY <1>1, FrameHeaders
  <1>5. RanInOrder'
    BY <1>1, <1>2, FrameRan
  <1>6. SignalCovers'
    BY <1>1, <1>2, FrameSignal
  <1>7. QED
    BY <1>1, <1>2, <1>3, <1>4, <1>5, <1>6

\* A worker goes on without coming nearer to a packet.
LEMMA WorkerMoves ==
  ASSUME AgentInv, NEW q \in Queue, NEW l \in WorkerLabel, WorkerGoto(q, l),
         workerSig' \in [Queue -> {PROCESS_PKT, FINISH, IDLE}],
         UNCHANGED <<readIndex, header, signalValue, ran>>, WorkerLeavesUnchanged,
         \A p \in Queue : workerSig'[p] = PROCESS_PKT => workerSig[p] = PROCESS_PKT,
         worker[q] # "signal", l # "signal",
         l \in Reading =>
           \/ worker[q] \in Reading
           \/ Rung(q) /\ doorbell[q] # IntMax /\ readIndex[q] <= doorbell[q]
                      /\ readIndex[q] < QueueSize,
         l = "waiting" => Rung(q)
  PROVE  AgentInv'
  <1>1. /\ worker'[q] = l
        /\ \A p \in Queue : p # q => worker'[p] = worker[p]
        /\ UNCHANGED <<writeIndex, readIndex, header, completion, doorbell, dispatcher,
                       readyqMutex, places, signalValue, ran, finalizer, disturbed>>
    BY DEF WorkerGoto, WorkerLeavesUnchanged, AgentInv, TypeOK
  <1>2. TypeOK'
    BY <1>1 DEF WorkerGoto, AgentInv, TypeOK
  <1>3. \A p \in Queue : worker'[p] = "signal" <=> worker[p] = "signal"
    BY <1>1
  <1>4. \A p \in Queue : Rung(p)' => Rung(p)
    BY <1>1 DEF Rung, At, CurrentQueue
  <1>5. /\ DispatchesApart' /\ PlacesCounted' /\ PlacesDistinct'
        /\ HeadersPlaced' /\ RanInOrder' /\ SignalCovers' /\ StoredSame
    BY <1>1, <1>2, <1>3, ControlFrame
  <1>6. ReadBehindWrite'
    <2> SUFFICES ASSUME NEW p \in Queue
                 PROVE  /\ readIndex[p] <= writeIndex[p] /\ readIndex[p] <= QueueSize
                        /\ worker'[p] \in Reading =>
                             readIndex[p] < writeIndex[p] /\ readIndex[p] < QueueSize
                        /\ Rung(p)' => doorbell[p] < writeIndex[p] \/ doorbell[p] = IntMax
                        /\ \A d \in Dispatcher : At(d, "ring") /\ CurrentQueue(d) = p =>
                             dispatcher[d].index \in 0..writeIndex[p] - 1
      BY <1>1 DEF ReadBehindWrite, At, CurrentQueue
    <2>1. /\ readIndex[p] <= writeIndex[p] /\ readIndex[p] <= QueueSize
          /\ worker[p] \in Reading => readIndex[p] < writeIndex[p] /\ readIndex[p] < QueueSize
          /\ Rung(p) => doorbell[p] < writeIndex[p] \/ doorbell[p] = IntMax
          /\ \A d \in Dispatcher : At(d, "ring") /\ CurrentQueue(d) = p =>
               dispatcher[d].index \in 0..writeIndex[p] - 1
      BY DEF AgentInv, ReadBehindWrite
    <2>2. readIndex[p] \in Nat /\ writeIndex[p] \in Nat /\ doorbell[p] \in Nat
      BY DEF AgentInv, TypeOK
    <2>3. worker'[p] \in Reading => readIndex[p] < writeIndex[p] /\ readIndex[p] < QueueSize
      <3>1. CASE p # q \/ worker[q] \in Reading
        BY <1>1, <2>1, <3>1
      <3>2. CASE p = q /\ Rung(q) /\ doorbell[q] # IntMax /\ readIndex[q] <= doorbell[q]
                   /\ readIndex[q] < QueueSize
        <4>1. doorbell[p] < writeIndex[p]
          BY <2>1, <3>2
        <4>2. QED
          BY <2>2, <3>2, <4>1
      <3>3. QED
        BY <1>1, <3>1, <3>2
    <2>4. QED
      BY <1>4, <2>1, <2>3
  <1>7. Undisturbed'
    <2>1. \A p \in Queue : \A k \in Int : MayReach(p, k)' => MayReach(p, k)
      <3> SUFFICES ASSUME NEW p \in Queue, NEW k \in Int, MayReach(p, k)'
                   PROVE  MayReach(p, k)
        OBVIOUS
      <3>1. CASE Rung(p)' /\ doorbell'[p] # IntMax /\ k <= doorbell'[p]
        BY <1>1, <1>4, <3>1 DEF MayReach
      <3>2. CASE k < readIndex'[p]
        BY <1>1, <3>2 DEF MayReach
      <3>3. CASE k = readIndex'[p] /\ worker'[p] \in Reading
        BY <1>1, <3>3 DEF MayReach
      <3>4. QED
        BY <3>1, <3>2, <3>3 DEF MayReach
    <2>2. \A d \in Dispatcher : \A p \in Queue : Touches(d, p)' => Touches(d, p)
      BY <1>1 DEF Touches, At, CurrentQueue, PlaceQueue
    <2>3. QED
      BY <1>1, <1>3, <1>5, <2>1, <2>2, FrameUndisturbed DEF At, CurrentQueue
  <1>8. QED
    BY <1>2, <1>5, <1>6, <1>7 DEF AgentInv

LEMMA WakeUpStep ==
  ASSUME AgentInv, NEW q \in Queue, WakeUp(q)
  PROVE  AgentInv'
  <1>1. PICK l : l = IF workerSig[q] = FINISH THEN "ended" ELSE "awake"
    OBVIOUS
  <1>2. l \in WorkerLabel /\ l \notin Reading /\ l # "signal" /\ l # "waiting"
    BY <1>1 DEF WorkerLabel, Reading
  <1>3. WorkerGoto(q, l)
    BY <1>1 DEF WakeUp
  <1>4. QED
    BY <1>2, <1>3, WorkerMoves DEF WakeUp, AgentInv, TypeOK

LEMMA AcceptWorkStep ==
  ASSUME AgentInv, NEW q \in Queue, AcceptWork(q)
  PROVE  AgentInv'
  <1>1. CASE workerSig[q] = PROCESS_PKT
    <2>1. workerSig' = [workerSig EXCEPT ![q] = IDLE] /\ WorkerGoto(q, "waiting")
      BY <1>1 DEF AcceptWork
    <2>2. workerSig' \in [Queue -> {PROCESS_PKT, FINISH, IDLE}]
            /\ \A p \in Queue : workerSig'[p] = PROCESS_PKT => workerSig[p] = PROCESS_PKT
      BY <2>1 DEF AgentInv, TypeOK, PROCESS_PKT, FINISH, IDLE
    <2>3. Rung(q)
      BY <1>1 DEF Rung
    <2>4. "waiting" \in WorkerLabel /\ "waiting" \notin Reading
      BY DEF WorkerLabel, Reading
    <2>5. QED
      BY <2>1, <2>2, <2>3, <2>4, WorkerMoves DEF AcceptWork
  <1>2. CASE workerSig[q] # PROCESS_PKT
    <2>1. UNCHANGED workerSig /\ WorkerGoto(q, "asleep")
      BY <1>2 DEF AcceptWork
    <2>2. "asleep" \in WorkerLabel /\ "asleep" \notin Reading
      BY DEF WorkerLabel, Reading
    <2>3. QED
      BY <2>1, <2>2, WorkerMoves DEF AcceptWork, AgentInv, TypeOK
  <1>3. QED
    BY <1>1, <1>2

LEMMA LeaveLoopStep ==
  ASSUME AgentInv, NEW q \in Queue, LeaveLoop(q)
  PROVE  AgentInv'
  <1>1. "ended" \in WorkerLabel /\ "ended" \notin Reading
    BY DEF WorkerLabel, Reading
  <1>2. QED
    BY <1>1, WorkerMoves DEF LeaveLoop, AgentInv, TypeOK

LEMMA SeeDoorbellStep ==
  ASSUME AgentInv, NEW q \in Queue, SeeDoorbell(q)
  PROVE  AgentInv'
  <1>1. "at packet" \in WorkerLabel
    BY DEF WorkerLabel
  <1>2. Rung(q)
    BY DEF SeeDoorbell, Rung
  <1>3. readIndex[q] \in Nat /\ doorbell[q] \in Nat
    BY DEF AgentInv, TypeOK
  <1>4. readIndex[q] <= doorbell[q] /\ doorbell[q] # IntMax /\ readIndex[q] < QueueSize
    BY <1>3 DEF SeeDoorbell
  <1>5. WorkerGoto(q, "at packet") /\ worker[q] # "signal"
    BY DEF SeeDoorbell
  <1>6. QED
    BY <1>1, <1>2, <1>4, <1>5, WorkerMoves DEF SeeDoorbell, AgentInv, TypeOK

LEMMA ReadHeaderStep ==
  ASSUME AgentInv, NEW q \in Queue, ReadHeader(q)
  PROVE  AgentInv'
  <1>1. "switch" \in WorkerLabel /\ worker[q] \in Reading /\ WorkerGoto(q, "switch")
    BY DEF WorkerLabel, Reading, ReadHeader
  <1>2. QED
    BY <1>1, WorkerMoves DEF ReadHeader, AgentInv, TypeOK

LEMMA PassOverStep ==
  ASSUME AgentInv, NEW q \in Queue, PassOver(q)
  PROVE  AgentInv'
  <1>1. /\ worker'[q] = "signal" /\ worker[q] = "switch"
        /\ \A p \in Queue : p # q => worker'[p] = worker[p]
        /\ UNCHANGED <<writeIndex, readIndex, header, completion, doorbell, dispatcher,
                       readyqMutex, places, signalValue, ran, finalizer, disturbed, workerSig>>
    BY DEF WorkerGoto, WorkerLeavesUnchanged, AgentInv, TypeOK, PassOver
  <1>2. TypeOK'
    BY <1>1 DEF PassOver, WorkerGoto, AgentInv, TypeOK, WorkerLabel
  <1>3. \A p \in Queue : worker[p] = "signal" => worker'[p] = "signal"
    BY <1>1
  <1>4. /\ DispatchesApart' /\ PlacesCounted' /\ PlacesDistinct'
        /\ HeadersPlaced' /\ RanInOrder' /\ SignalCovers' /\ StoredSame
    BY <1>1, <1>2, <1>3, ControlFrame
  <1>5. \A p \in Queue : worker'[p] \in Reading <=> worker[p] \in Reading
    BY <1>1 DEF Reading
  <1>6. \A p \in Queue : Rung(p)' => Rung(p)
    BY <1>1, <1>5 DEF Rung, At, CurrentQueue, Reading
  <1>7. ReadBehindWrite'
    <2>1. \A p \in Queue : writeIndex'[p] >= writeIndex[p]
      BY <1>1 DEF AgentInv, TypeOK
    <2>2. QED
      BY <1>1, <1>2, <1>5, <1>6, <2>1, FrameReads DEF At, CurrentQueue
  <1>8. Undisturbed'
    <2> SUFFICES ASSUME NEW p \in Queue, p \notin disturbed
                 PROVE  /\ \A d, e \in Dispatcher : Touches(d, p) /\ Touches(e, p) => d = e
                        /\ \A d \in Dispatcher : At(d, "room") /\ CurrentQueue(d) = p =>
                             ~MayReach(p, dispatcher[d].index)'
                        /\ QueueUndisturbed(p)'
      BY <1>1 DEF Undisturbed, QueueUndisturbed, Touches, At, CurrentQueue, PlaceQueue
    <2>1. /\ \A d, e \in Dispatcher : Touches(d, p) /\ Touches(e, p) => d = e
          /\ \A d \in Dispatcher : At(d, "room") /\ CurrentQueue(d) = p =>
               ~MayReach(p, dispatcher[d].index)
          /\ QueueUndisturbed(p)
      BY DEF AgentInv, Undisturbed, QueueUndisturbed
    <2>2. \A k \in Int : MayReach(p, k)' => MayReach(p, k)
      BY <1>1, <1>5, <1>6 DEF MayReach
    <2>3. ASSUME NEW d \in Dispatcher, At(d, "room"), CurrentQueue(d) = p
          PROVE  ~MayReach(p, dispatcher[d].index)'
      <3>1. PICK k \in Int : k = dispatcher[d].index
        BY DEF AgentInv, TypeOK
      <3>2. ~MayReach(p, k)'
        BY <2>1, <2>2, <2>3, <3>1
      <3>3. QED
        BY <1>1, <3>1, <3>2 DEF MayReach
    <2>4. ASSUME NEW t \in Task, NEW i \in DOMAIN places[t], PlaceQueue(t, i) = p
          PROVE  /\ MayReach(p, PlaceIndex(t, i))' => Stored(t, i)'
                 /\ PlaceIndex(t, i) < readIndex[p] => <<t, i>> \in ran
                 /\ PlaceIndex(t, i) = readIndex[p] /\ worker'[p] = "signal" => <<t, i>> \in ran
                 /\ Stored(t, i)' /\ <<t, i>> \notin ran =>
                      header[p][PlaceIndex(t, i) % QueueSize] = <<t, i>>
      <3>1. PICK k \in Nat : k = PlaceIndex(t, i)
        BY PlacesType DEF AgentInv
      <3>2. i \in Nat /\ <<t, i>> \in Packet
        BY PlacesType, PlacesHaveDispatch DEF AgentInv
      <3>3. Stored(t, i)' <=> Stored(t, i)
        BY <1>4, <3>2 DEF StoredSame
      <3>4. /\ MayReach(p, k) => Stored(t, i)
            /\ k < readIndex[p] => <<t, i>> \in ran
            /\ k = readIndex[p] /\ worker[p] = "signal" => <<t, i>> \in ran
            /\ Stored(t, i) /\ <<t, i>> \notin ran => header[p][k % QueueSize] = <<t, i>>
        BY <2>1, <2>4, <3>1 DEF QueueUndisturbed
      <3>5. MayReach(p, PlaceIndex(t, i))' => Stored(t, i)'
        <4>1. MayReach(p, PlaceIndex(t, i))' <=> MayReach(p, k)'
          BY <1>1, <3>1 DEF MayReach, PlaceIndex
        <4>2. QED
          BY <2>2, <3>3, <3>4, <4>1
      <3>6. ASSUME k = readIndex[p], worker'[p] = "signal" PROVE <<t, i>> \in ran
        <4>1. CASE p # q
          BY <1>1, <3>4, <3>6, <4>1
        <4>2. CASE p = q
          <5>1. MayReach(p, k)
            BY <1>1, <3>6, <4>2 DEF MayReach, Reading
          <5>2. header[q][k % QueueSize] \notin Packet
            BY <3>6, <4>2 DEF PassOver, Header, AtSlot
          <5>3. QED
            BY <3>2, <3>4, <4>2, <5>1, <5>2
        <4>3. QED
          BY <4>1, <4>2
      <3>7. QED
        BY <3>1, <3>3, <3>4, <3>5, <3>6
    <2>5. QueueUndisturbed(p)'
      BY <1>1, <2>4 DEF QueueUndisturbed, PlaceQueue, PlaceIndex
    <2>6. QED
      BY <2>1, <2>3, <2>5
  <1>9. QED
    BY <1>2, <1>4, <1>7, <1>8 DEF AgentInv

\* The packet that is run is the one whose index the worker is at.
LEMMA HeaderIsNext ==
  ASSUME AgentInv, NEW q \in Queue, NEW t \in Task, NEW i \in 1..ThreadCount[t],
         worker[q] \in Reading, Header(q) = <<t, i>>
  PROVE  /\ Stored(t, i) /\ i \in DOMAIN places[t]
         /\ PlaceQueue(t, i) = q /\ PlaceIndex(t, i) = readIndex[q]
  <1>1. PICK n, r \in Nat : n = QueueSize /\ r = readIndex[q] /\ n # 0
    BY AgentAssumption DEF AgentInv, TypeOK
  <1>2. r < n
    BY <1>1 DEF AgentInv, ReadBehindWrite
  <1>3. r % n = r /\ r \in 0..QueueSize - 1
    BY <1>1, <1>2, ModSmall
  <1>4. header[q][r] = <<t, i>>
    BY <1>1, <1>3 DEF Header, AtSlot
  <1>5. Stored(t, i) /\ PlaceQueue(t, i) = q /\ PlaceIndex(t, i) % QueueSize = r
    BY <1>3, <1>4 DEF AgentInv, HeadersPlaced
  <1>6. i \in DOMAIN places[t]
    BY <1>5 DEF Stored, HasPlace
  <1>7. PICK k \in Nat : k = PlaceIndex(t, i)
    BY <1>6, PlacesType DEF AgentInv
  <1>8. k < r + QueueSize
    BY <1>1, <1>5, <1>6, <1>7 DEF AgentInv, PlacesDistinct
  <1>9. k = r
    BY <1>1, <1>2, <1>3, <1>5, <1>7, <1>8, SlotOfReader
  <1>10. QED
    BY <1>1, <1>5, <1>6, <1>7, <1>9

\* Undisturbed of a packet whose place is known, before and after a step.
LEMMA UndisturbedAt ==
  ASSUME AgentInv, NEW q \in Queue, q \notin disturbed,
         NEW t \in Task, NEW i \in DOMAIN places[t], NEW k \in Nat, places[t][i] = <<q, k>>
  PROVE  /\ i \in Nat /\ i \in 1..ThreadCount[t] /\ <<t, i>> \in Packet
         /\ k < writeIndex[q] /\ k < readIndex[q] + QueueSize
         /\ MayReach(q, k) => Stored(t, i)
         /\ k < readIndex[q] => <<t, i>> \in ran
         /\ k = readIndex[q] /\ worker[q] = "signal" => <<t, i>> \in ran
         /\ Stored(t, i) /\ <<t, i>> \notin ran => header[q][k % QueueSize] = <<t, i>>
  <1>1. PlaceQueue(t, i) = q /\ PlaceIndex(t, i) = k
    BY DEF PlaceQueue, PlaceIndex
  <1>2. i \in Nat /\ i \in 1..ThreadCount[t] /\ <<t, i>> \in Packet
    BY PlacesType, PlacesHaveDispatch DEF AgentInv
  <1>3. k < writeIndex[q] /\ k < readIndex[q] + QueueSize
    BY <1>1 DEF AgentInv, PlacesDistinct
  <1>4. QED
    BY <1>1, <1>2, <1>3 DEF AgentInv, Undisturbed

LEMMA UndisturbedBy ==
  ASSUME TypeOK',
         NEW q \in Queue,
         \A d, e \in Dispatcher : Touches(d, q)' /\ Touches(e, q)' => d = e,
         \A d \in Dispatcher : \A k \in Int :
           At(d, "room")' /\ CurrentQueue(d)' = q /\ dispatcher'[d].index = k => ~MayReach(q, k)',
         \A t \in Task : \A i \in DOMAIN places'[t] : \A k \in Nat : places'[t][i] = <<q, k>> =>
           /\ MayReach(q, k)' => Stored(t, i)'
           /\ k < readIndex'[q] => <<t, i>> \in ran'
           /\ k = readIndex'[q] /\ worker'[q] = "signal" => <<t, i>> \in ran'
           /\ Stored(t, i)' /\ <<t, i>> \notin ran' => header'[q][k % QueueSize] = <<t, i>>
  PROVE  /\ \A d, e \in Dispatcher : Touches(d, q)' /\ Touches(e, q)' => d = e
         /\ \A d \in Dispatcher : At(d, "room")' /\ CurrentQueue(d)' = q =>
              ~MayReach(q, dispatcher[d].index)'
         /\ QueueUndisturbed(q)'
  <1>1. ASSUME NEW d \in Dispatcher, At(d, "room")', CurrentQueue(d)' = q
        PROVE  ~MayReach(q, dispatcher[d].index)'
    <2>1. PICK k \in Int : k = dispatcher'[d].index
      BY DEF TypeOK
    <2>2. ~MayReach(q, k)'
      BY <1>1, <2>1
    <2>3. QED
      BY <2>1, <2>2 DEF MayReach
  <1>2. ASSUME NEW t \in Task, NEW i \in DOMAIN places'[t], PlaceQueue(t, i)' = q
        PROVE  /\ MayReach(q, PlaceIndex(t, i))' => Stored(t, i)'
               /\ PlaceIndex(t, i)' < readIndex'[q] => <<t, i>> \in ran'
               /\ PlaceIndex(t, i)' = readIndex'[q] /\ worker'[q] = "signal" => <<t, i>> \in ran'
               /\ Stored(t, i)' /\ <<t, i>> \notin ran' =>
                    header'[q][PlaceIndex(t, i)' % QueueSize] = <<t, i>>
    <2>1. PICK ps \in Seq(Queue \X Nat) : ps = places'[t]
      BY DEF TypeOK
    <2>2. PICK k \in Nat : ps[i] = <<q, k>>
      BY <1>2, <2>1 DEF PlaceQueue
    <2>3. PlaceIndex(t, i)' = k
      BY <2>1, <2>2 DEF PlaceIndex
    <2>4. MayReach(q, PlaceIndex(t, i))' <=> MayReach(q, k)'
      BY <2>3 DEF MayReach
    <2>5. QED
      BY <2>1, <2>2, <2>3, <2>4
  <1>3. QED
    BY <1>1, <1>2 DEF QueueUndisturbed

LEMMA RunPacketStep ==
  ASSUME AgentInv, NEW q \in Queue, RunPacket(q)
  PROVE  AgentInv'
  <1>1. /\ worker'[q] = "signal" /\ worker[q] = "switch" /\ worker[q] \in Reading
        /\ \A p \in Queue : p # q => worker'[p] = worker[p]
        /\ UNCHANGED <<writeIndex, readIndex, completion, doorbell, dispatcher,
                       readyqMutex, places, signalValue, finalizer, disturbed, workerSig>>
        /\ ran' = ran \cup {Header(q)} /\ Header(q) \in Packet
    BY DEF WorkerGoto, WorkerLeavesUnchanged, AgentInv, TypeOK, RunPacket, Reading
  <1>2. PICK t \in Task, i \in Nat : i \in 1..ThreadCount[t] /\ Header(q) = <<t, i>>
    BY <1>1, AgentAssumption DEF Packet, PacketsOf
  <1>3. Stored(t, i) /\ i \in DOMAIN places[t]
          /\ PlaceQueue(t, i) = q /\ PlaceIndex(t, i) = readIndex[q]
    BY <1>1, <1>2, HeaderIsNext
  <1>4. AtSlot(q) \in 0..QueueSize - 1
    <2>1. PICK n \in Nat \ {0} : n = QueueSize
      BY AgentAssumption
    <2>2. readIndex[q] \in Nat
      BY DEF AgentInv, TypeOK
    <2>3. QED
      BY <2>1, <2>2, ModRange DEF AtSlot
  <1>5. /\ header'[q][AtSlot(q)] = Invalid
        /\ \A p \in Queue : \A s \in 0..QueueSize - 1 :
             p # q \/ s # AtSlot(q) => header'[p][s] = header[p][s]
        /\ header' \in [Queue -> [0..QueueSize - 1 -> Packet \cup {Invalid, Cleared}]]
    BY <1>4 DEF RunPacket, AgentInv, TypeOK
  <1>6. TypeOK'
    <2>1. worker' \in [Queue -> WorkerLabel]
      BY DEF RunPacket, WorkerGoto, AgentInv, TypeOK, WorkerLabel
    <2>2. QED
      BY <1>1, <1>5, <2>1 DEF AgentInv, TypeOK
  <1>7. DispatchesApart' /\ PlacesCounted' /\ PlacesGrow /\ StoredSame /\ StoredGrows
    BY <1>1, FrameApart
  <1>8. ReadersAdvance /\ \A p \in Queue : writeIndex'[p] >= writeIndex[p]
    BY <1>1 DEF AgentInv, TypeOK, ReadersAdvance
  <1>9. PlacesDistinct'
    BY <1>1, <1>6, <1>8, FrameDistinct DEF At, CurrentQueue
  <1>10. \A p \in Queue : \A s \in 0..QueueSize - 1 :
           header'[p][s] \in Packet => header'[p][s] = header[p][s]
    BY <1>5, HeaderAssumption
  <1>11. HeadersPlaced'
    BY <1>1, <1>6, <1>7, <1>10, FrameHeaders
  <1>12. SignalCovers'
    BY <1>1, <1>6, <1>7, <1>8, FrameSignal
  <1>13. \A p \in Queue : worker'[p] \in Reading <=> worker[p] \in Reading
    BY <1>1 DEF Reading
  <1>14. \A p \in Queue : Rung(p)' => Rung(p)
    BY <1>1, <1>13 DEF Rung, At, CurrentQueue, Reading
  <1>15. ReadBehindWrite'
    BY <1>1, <1>6, <1>8, <1>13, <1>14, FrameReads DEF At, CurrentQueue
  <1>16. RanInOrder'
    <2> SUFFICES ASSUME NEW u \in Task, NEW j \in 1..ThreadCount[u], <<u, j>> \in ran'
                 PROVE  /\ Stored(u, j)'
                        /\ \/ PlaceIndex(u, j)' < readIndex'[PlaceQueue(u, j)']
                           \/ /\ PlaceIndex(u, j)' = readIndex'[PlaceQueue(u, j)']
                              /\ worker'[PlaceQueue(u, j)'] = "signal"
      BY DEF RanInOrder
    <2>1. CASE <<u, j>> \in ran
      <3>1. \A p \in Queue : worker[p] = "signal" => worker'[p] = "signal"
        BY <1>1
      <3>2. QED
        BY <1>6, <1>7, <1>8, <2>1, <3>1, FrameRan
    <2>2. CASE u = t /\ j = i
      <3>1. Stored(t, i)'
        BY <1>2, <1>3, <1>7 DEF StoredGrows
      <3>2. PlaceIndex(t, i)' = readIndex'[q] /\ PlaceQueue(t, i)' = q
        BY <1>1, <1>3 DEF PlaceIndex, PlaceQueue
      <3>3. QED
        BY <1>1, <2>2, <3>1, <3>2
    <2>3. QED
      BY <1>1, <1>2, <2>1, <2>2
  <1>17. Undisturbed'
    <2> SUFFICES ASSUME NEW p \in Queue, p \notin disturbed
                 PROVE  /\ \A d, e \in Dispatcher : Touches(d, p)' /\ Touches(e, p)' => d = e
                        /\ \A d \in Dispatcher : At(d, "room")' /\ CurrentQueue(d)' = p =>
                             ~MayReach(p, dispatcher[d].index)'
                        /\ QueueUndisturbed(p)'
      BY <1>1 DEF Undisturbed, QueueUndisturbed
    <2>1. \A k \in Int : MayReach(p, k)' => MayReach(p, k)
      BY <1>1, <1>13, <1>14 DEF MayReach
    <2>2. \A d, e \in Dispatcher : Touches(d, p)' /\ Touches(e, p)' => d = e
      <3>1. \A d \in Dispatcher : Touches(d, p)' <=> Touches(d, p)
        BY <1>1 DEF Touches, At, CurrentQueue, PlaceQueue
      <3>2. QED
        BY <3>1 DEF AgentInv, Undisturbed
    <2>3. ASSUME NEW d \in Dispatcher, NEW k \in Int,
                 At(d, "room")', CurrentQueue(d)' = p, dispatcher'[d].index = k
          PROVE  ~MayReach(p, k)'
      <3>1. At(d, "room") /\ CurrentQueue(d) = p /\ dispatcher[d].index = k
        BY <1>1, <2>3 DEF At, CurrentQueue
      <3>2. QED
        BY <2>1, <3>1 DEF AgentInv, Undisturbed
    <2>4. ASSUME NEW u \in Task, NEW j \in DOMAIN places[u], NEW k \in Nat,
                 places[u][j] = <<p, k>>
          PROVE  /\ MayReach(p, k)' => Stored(u, j)'
                 /\ k < readIndex[p] => <<u, j>> \in ran'
                 /\ k = readIndex[p] /\ worker'[p] = "signal" => <<u, j>> \in ran'
                 /\ Stored(u, j)' /\ <<u, j>> \notin ran' => header'[p][k % QueueSize] = <<u, j>>
      <3>1. /\ j \in Nat
            /\ MayReach(p, k) => Stored(u, j)
            /\ k < readIndex[p] => <<u, j>> \in ran
            /\ k = readIndex[p] /\ worker[p] = "signal" => <<u, j>> \in ran
            /\ Stored(u, j) /\ <<u, j>> \notin ran => header[p][k % QueueSize] = <<u, j>>
        BY <2>4, UndisturbedAt
      <3>2. Stored(u, j)' <=> Stored(u, j)
        BY <1>7, <3>1 DEF StoredSame
      <3>3. ASSUME k = readIndex[p], worker'[p] = "signal"
            PROVE  <<u, j>> \in ran'
        <4>1. CASE p # q
          BY <1>1, <3>1, <3>3, <4>1
        <4>2. CASE p = q
          <5>1. MayReach(q, k)
            BY <1>1, <3>3, <4>2 DEF MayReach
          <5>2. <<u, j>> \notin ran => Header(q) = <<u, j>>
            BY <3>1, <3>3, <4>2, <5>1 DEF Header, AtSlot
          <5>3. QED
            BY <1>1, <5>2
        <4>3. QED
          BY <4>1, <4>2
      <3>4. ASSUME Stored(u, j)', <<u, j>> \notin ran'
            PROVE  header'[p][k % QueueSize] = <<u, j>>
        <4>1. header[p][k % QueueSize] = <<u, j>>
          BY <1>1, <3>1, <3>2, <3>4
        <4>2. k % QueueSize \in 0..QueueSize - 1
          <5>1. PICK n \in Nat \ {0} : n = QueueSize
            BY AgentAssumption
          <5>2. QED
            BY <5>1, ModRange
        <4>3. ~(p = q /\ k % QueueSize = AtSlot(q))
          BY <1>1, <3>4, <4>1 DEF Header
        <4>4. QED
          BY <1>5, <4>1, <4>2, <4>3
      <3>5. QED
        BY <1>1, <2>1, <3>1, <3>2, <3>3, <3>4
    <2>5. QED
      BY <1>1, <1>6, <2>2, <2>3, <2>4, UndisturbedBy
  <1>18. QED
    BY <1>6, <1>7, <1>9, <1>11, <1>12, <1>15, <1>16, <1>17 DEF AgentInv

LEMMA SlotRange ==
  ASSUME NEW k \in Nat
  PROVE  k % QueueSize \in 0..QueueSize - 1
  <1>1. PICK n \in Nat \ {0} : n = QueueSize
    BY AgentAssumption
  <1>2. QED
    BY <1>1, ModRange

\* What SignalCompletion signals is a packet that was pending.
LEMMA CompletionIsNext ==
  ASSUME AgentInv, NEW q \in Queue, NEW t \in Task,
         worker[q] \in Reading, completion[q][AtSlot(q)] = t
  PROVE  \E i \in DOMAIN places[t] : PlaceQueue(t, i) = q /\ PlaceIndex(t, i) = readIndex[q]
  <1>1. PICK n, r \in Nat : n = QueueSize /\ r = readIndex[q] /\ n # 0
    BY AgentAssumption DEF AgentInv, TypeOK
  <1>2. r < n
    BY <1>1 DEF AgentInv, ReadBehindWrite
  <1>3. r % n = r /\ r \in 0..QueueSize - 1
    BY <1>1, <1>2, ModSmall
  <1>4. completion[q][r] = t
    BY <1>1, <1>3 DEF AtSlot
  <1>5. PICK i \in DOMAIN places[t] : PlaceQueue(t, i) = q /\ PlaceIndex(t, i) % QueueSize = r
    BY <1>3, <1>4 DEF AgentInv, HeadersPlaced
  <1>6. PICK k \in Nat : k = PlaceIndex(t, i)
    BY PlacesType DEF AgentInv
  <1>7. k < r + QueueSize
    BY <1>1, <1>5, <1>6 DEF AgentInv, PlacesDistinct
  <1>8. k = r
    BY <1>1, <1>2, <1>3, <1>5, <1>6, <1>7, SlotOfReader
  <1>9. QED
    BY <1>1, <1>5, <1>6, <1>8

LEMMA SignalCompletionStep ==
  ASSUME AgentInv, NEW q \in Queue, SignalCompletion(q)
  PROVE  AgentInv'
  <1>1. /\ worker'[q] = "waiting" /\ worker[q] = "signal" /\ worker[q] \in Reading
        /\ \A p \in Queue : p # q => worker'[p] = worker[p]
        /\ worker' \in [Queue -> WorkerLabel]
        /\ UNCHANGED <<writeIndex, header, completion, doorbell, dispatcher,
                       readyqMutex, places, ran, finalizer, disturbed, workerSig>>
    BY DEF WorkerGoto, WorkerLeavesUnchanged, AgentInv, TypeOK, SignalCompletion, Reading,
           WorkerLabel
  <1>2. /\ readIndex[q] \in Nat /\ readIndex'[q] = readIndex[q] + 1
        /\ \A p \in Queue : p # q => readIndex'[p] = readIndex[p]
        /\ readIndex' \in [Queue -> Nat]
    BY DEF AgentInv, TypeOK, SignalCompletion
  <1>3. PICK t : t = completion[q][AtSlot(q)]
    OBVIOUS
  <1>4. signalValue' = IF t = NoTask THEN signalValue ELSE [signalValue EXCEPT ![t] = @ - 1]
    BY <1>3 DEF SignalCompletion
  <1>5. t \in Task \cup {NoTask}
    <2>1. AtSlot(q) \in 0..QueueSize - 1
      BY <1>2, SlotRange DEF AtSlot
    <2>2. completion[q] \in [0..QueueSize - 1 -> Task \cup {NoTask}]
      BY DEF AgentInv, TypeOK
    <2>3. QED
      BY <1>3, <2>1, <2>2
  <1>6. TypeOK'
    <2>1. signalValue' \in [Task -> Int]
      BY <1>4, <1>5 DEF AgentInv, TypeOK
    <2>2. QED
      BY <1>1, <1>2, <2>1 DEF AgentInv, TypeOK
  <1>7. DispatchesApart' /\ PlacesCounted' /\ PlacesGrow /\ StoredSame /\ StoredGrows
    BY <1>1, FrameApart
  <1>8. ReadersAdvance /\ \A p \in Queue : writeIndex'[p] >= writeIndex[p]
    <2>1. \A p \in Queue : readIndex[p] \in Nat /\ writeIndex[p] \in Nat
      BY DEF AgentInv, TypeOK
    <2>2. QED
      BY <1>1, <1>2, <2>1 DEF ReadersAdvance
  <1>9. PlacesDistinct'
    BY <1>1, <1>6, <1>8, FrameDistinct DEF At, CurrentQueue
  <1>10. HeadersPlaced'
    BY <1>1, <1>6, <1>7, FrameHeaders
  <1>11. RanInOrder'
    <2>1. \A p \in Queue : worker[p] = "signal" =>
            worker'[p] = "signal" \/ readIndex'[p] > readIndex[p]
      BY <1>1, <1>2
    <2>2. QED
      BY <1>1, <1>6, <1>7, <1>8, <2>1, FrameRan
  <1>12. \A p \in Queue : Rung(p)' => Rung(p)
    BY <1>1 DEF Rung, At, CurrentQueue
  <1>13. ReadBehindWrite'
    <2> SUFFICES ASSUME NEW p \in Queue
                 PROVE  /\ readIndex'[p] <= writeIndex[p] /\ readIndex'[p] <= QueueSize
                        /\ worker'[p] \in Reading =>
                             readIndex'[p] < writeIndex[p] /\ readIndex'[p] < QueueSize
                        /\ Rung(p)' => doorbell[p] < writeIndex[p] \/ doorbell[p] = IntMax
                        /\ \A d \in Dispatcher : At(d, "ring") /\ CurrentQueue(d) = p =>
                             dispatcher[d].index \in 0..writeIndex[p] - 1
      BY <1>1 DEF ReadBehindWrite, At, CurrentQueue
    <2>1. /\ readIndex[p] <= writeIndex[p] /\ readIndex[p] <= QueueSize
          /\ worker[p] \in Reading => readIndex[p] < writeIndex[p] /\ readIndex[p] < QueueSize
          /\ Rung(p) => doorbell[p] < writeIndex[p] \/ doorbell[p] = IntMax
          /\ \A d \in Dispatcher : At(d, "ring") /\ CurrentQueue(d) = p =>
               dispatcher[d].index \in 0..writeIndex[p] - 1
      BY DEF AgentInv, ReadBehindWrite
    <2>2. CASE p # q
      BY <1>1, <1>2, <1>12, <2>1, <2>2
    <2>3. CASE p = q
      <3>1. readIndex[q] \in Nat /\ writeIndex[q] \in Nat /\ QueueSize \in Nat
        BY AgentAssumption DEF AgentInv, TypeOK
      <3>2. readIndex'[q] <= writeIndex[q] /\ readIndex'[q] <= QueueSize
        BY <1>1, <1>2, <2>1, <2>3, <3>1
      <3>3. "waiting" \notin Reading
        BY DEF Reading
      <3>4. QED
        BY <1>1, <1>12, <2>1, <2>3, <3>2, <3>3
    <2>4. QED
      BY <2>2, <2>3
  <1>14. SignalCovers'
    <2>1. CASE t = NoTask
      BY <1>1, <1>4, <1>6, <1>7, <1>8, <2>1, FrameSignal
    <2>2. CASE t \in Task
      <3> SUFFICES ASSUME NEW u \in Task
                   PROVE  /\ signalValue'[u] >= 0
                          /\ (places'[u] # <<>> \/ \E d \in Dispatcher : dispatcher'[d].task = u) =>
                               signalValue'[u] >= Cardinality(Pending(u)')
        BY DEF SignalCovers
      <3>1. /\ signalValue[u] \in Int /\ signalValue[u] >= 0
            /\ (places[u] # <<>> \/ \E d \in Dispatcher : dispatcher[d].task = u) =>
                 signalValue[u] >= Cardinality(Pending(u))
        BY DEF AgentInv, SignalCovers, TypeOK
      <3>2. IsFiniteSet(Pending(u)) /\ Cardinality(Pending(u)) \in Nat
        BY PendingFinite, AgentAssumption
      <3>3. /\ Pending(u)' \subseteq Pending(u)
            /\ Cardinality(Pending(u)') <= Cardinality(Pending(u))
            /\ Cardinality(Pending(u)') \in Nat
        BY <1>6, <1>7, <1>8, FewerPending
      <3>4. CASE u # t
        <4>1. signalValue'[u] = signalValue[u]
          BY <1>4, <2>2, <3>4 DEF AgentInv, TypeOK
        <4>2. QED
          BY <1>1, <3>1, <3>2, <3>3, <4>1
      <3>5. CASE u = t
        <4>1. signalValue'[u] = signalValue[u] - 1
          BY <1>4, <2>2, <3>5, AgentAssumption DEF AgentInv, TypeOK
        <4>2. PICK i \in DOMAIN places[t] : PlaceQueue(t, i) = q /\ PlaceIndex(t, i) = readIndex[q]
          BY <1>1, <1>3, <2>2, CompletionIsNext
        <4>3. i \in 1..ThreadCount[t]
          BY <2>2, PlacesHaveDispatch
        <4>4. i \in Pending(t)
          BY <1>2, <4>2, <4>3 DEF Pending
        <4>5. i \notin Pending(t)'
          <5>1. PlaceQueue(t, i)' = q /\ PlaceIndex(t, i)' = readIndex[q] /\ HasPlace(t, i)'
            BY <1>1, <4>2 DEF PlaceQueue, PlaceIndex, HasPlace
          <5>2. ~(readIndex[q] >= readIndex'[q])
            BY <1>2
          <5>3. QED
            BY <5>1, <5>2 DEF Pending
        <4>6. places[t] # <<>>
          BY <4>2
        <4>7. signalValue[t] >= Cardinality(Pending(t))
          BY <2>2, <4>6 DEF AgentInv, SignalCovers
        <4>8. /\ IsFiniteSet(Pending(t) \ {i})
              /\ Cardinality(Pending(t) \ {i}) = Cardinality(Pending(t)) - 1
          BY <3>2, <3>5, <4>4, FS_RemoveElement
        <4>9. Pending(t)' \subseteq Pending(t) \ {i}
          BY <3>3, <3>5, <4>5
        <4>10. Cardinality(Pending(t)') <= Cardinality(Pending(t) \ {i})
          BY <4>8, <4>9, FS_Subset
        <4>11. PICK x, y, z \in Int : x = Cardinality(Pending(t)') /\ y = Cardinality(Pending(t))
                                        /\ z = signalValue[t] /\ x \in Nat
          BY <3>1, <3>2, <3>3, <3>5
        <4>12. x <= y - 1 /\ z >= y /\ signalValue'[u] = z - 1
          BY <3>5, <4>1, <4>7, <4>8, <4>10, <4>11
        <4>13. z - 1 >= x /\ z - 1 >= 0
          BY <4>11, <4>12
        <4>14. QED
          BY <3>5, <4>11, <4>12, <4>13
      <3>6. QED
        BY <3>4, <3>5
    <2>3. QED
      BY <1>5, <2>1, <2>2
  <1>15. Undisturbed'
    <2> SUFFICES ASSUME NEW p \in Queue, p \notin disturbed
                 PROVE  /\ \A d, e \in Dispatcher : Touches(d, p)' /\ Touches(e, p)' => d = e
                        /\ \A d \in Dispatcher : At(d, "room")' /\ CurrentQueue(d)' = p =>
                             ~MayReach(p, dispatcher[d].index)'
                        /\ QueueUndisturbed(p)'
      BY <1>1 DEF Undisturbed, QueueUndisturbed
    <2>1. \A k \in Int : MayReach(p, k)' => MayReach(p, k)
      <3> SUFFICES ASSUME NEW k \in Int, MayReach(p, k)'
                   PROVE  MayReach(p, k)
        OBVIOUS
      <3>1. CASE Rung(p)' /\ doorbell'[p] # IntMax /\ k <= doorbell'[p]
        BY <1>1, <1>12, <3>1 DEF MayReach
      <3>2. CASE p # q /\ (k < readIndex'[p] \/ (k = readIndex'[p] /\ worker'[p] \in Reading))
        BY <1>1, <1>2, <3>2 DEF MayReach
      <3>3. CASE p = q /\ k < readIndex'[q]
        <4>1. k < readIndex[q] \/ k = readIndex[q]
          BY <1>2, <3>3
        <4>2. QED
          BY <1>1, <3>3, <4>1 DEF MayReach
      <3>4. "waiting" \notin Reading
        BY DEF Reading
      <3>5. QED
        BY <1>1, <3>1, <3>2, <3>3, <3>4 DEF MayReach
    <2>2. \A d, e \in Dispatcher : Touches(d, p)' /\ Touches(e, p)' => d = e
      <3>1. \A d \in Dispatcher : Touches(d, p)' <=> Touches(d, p)
        BY <1>1 DEF Touches, At, CurrentQueue, PlaceQueue
      <3>2. QED
        BY <3>1 DEF AgentInv, Undisturbed
    <2>3. ASSUME NEW d \in Dispatcher, NEW k \in Int,
                 At(d, "room")', CurrentQueue(d)' = p, dispatcher'[d].index = k
          PROVE  ~MayReach(p, k)'
      <3>1. At(d, "room") /\ CurrentQueue(d) = p /\ dispatcher[d].index = k
        BY <1>1, <2>3 DEF At, CurrentQueue
      <3>2. QED
        BY <2>1, <3>1 DEF AgentInv, Undisturbed
    <2>4. ASSUME NEW u \in Task, NEW j \in DOMAIN places[u], NEW k \in Nat,
                 places[u][j] = <<p, k>>
          PROVE  /\ MayReach(p, k)' => Stored(u, j)'
                 /\ k < readIndex'[p] => <<u, j>> \in ran
                 /\ k = readIndex'[p] /\ worker'[p] = "signal" => <<u, j>> \in ran
                 /\ Stored(u, j)' /\ <<u, j>> \notin ran => header[p][k % QueueSize] = <<u, j>>
      <3>1. /\ j \in Nat
            /\ MayReach(p, k) => Stored(u, j)
            /\ k < readIndex[p] => <<u, j>> \in ran
            /\ k = readIndex[p] /\ worker[p] = "signal" => <<u, j>> \in ran
            /\ Stored(u, j) /\ <<u, j>> \notin ran => header[p][k % QueueSize] = <<u, j>>
        BY <2>4, UndisturbedAt
      <3>2. Stored(u, j)' <=> Stored(u, j)
        BY <1>7, <3>1 DEF StoredSame
      <3>3. CASE p # q
        BY <1>1, <1>2, <2>1, <3>1, <3>2, <3>3
      <3>4. CASE p = q
        <4>1. ASSUME k < readIndex'[q] PROVE <<u, j>> \in ran
          <5>1. k < readIndex[q] \/ k = readIndex[q]
            BY <1>2, <4>1
          <5>2. QED
            BY <1>1, <3>1, <3>4, <5>1
        <4>2. QED
          BY <1>1, <2>1, <3>1, <3>2, <3>4, <4>1
      <3>5. QED
        BY <3>3, <3>4
    <2>5. QED
      BY <1>1, <1>6, <2>2, <2>3, <2>4, UndisturbedBy
  <1>16. QED
    BY <1>6, <1>7, <1>9, <1>10, <1>11, <1>13, <1>14, <1>15 DEF AgentInv

-------------------------------------------------------------------------------
LEMMA FinalizerMoves ==
  ASSUME AgentInv, TypeOK', FinalizerLeavesUnchanged,
         finalizer'.at # "none" /\ \A d \in Dispatcher : At(d, "idle"),
         \A p \in Queue : workerSig'[p] = PROCESS_PKT => workerSig[p] = PROCESS_PKT,
         \A p \in Queue : doorbell'[p] = doorbell[p] \/ doorbell'[p] = IntMax
  PROVE  AgentInv'
  <1>1. UNCHANGED <<writeIndex, readIndex, header, completion, worker, dispatcher,
                    readyqMutex, places, signalValue, ran, disturbed>>
    BY DEF FinalizerLeavesUnchanged
  <1>2. DispatchesApart'
    BY <1>1 DEF AgentInv, DispatchesApart, At
  <1>3. PlacesCounted' /\ PlacesGrow /\ StoredSame /\ StoredGrows
    BY <1>1 DEF AgentInv, PlacesCounted, At, PlacesGrow, StoredSame, StoredGrows,
                Stored, HasPlace
  <1>4. ReadersAdvance /\ \A q \in Queue : writeIndex'[q] >= writeIndex[q]
    BY <1>1 DEF AgentInv, TypeOK, ReadersAdvance
  <1>5. PlacesDistinct'
    BY <1>1, <1>4, FrameDistinct DEF At, CurrentQueue
  <1>6. HeadersPlaced'
    BY <1>1, <1>3, FrameHeaders
  <1>7. RanInOrder'
    BY <1>1, <1>3, <1>4, FrameRan
  <1>8. SignalCovers'
    BY <1>1, <1>3, <1>4, FrameSignal
  <1>9. \A p \in Queue : Rung(p)' => Rung(p)
    BY <1>1 DEF Rung, At, CurrentQueue
  <1>10. ReadBehindWrite'
    <2>1. \A q \in Queue : Rung(q)' =>
            doorbell'[q] = IntMax \/ (Rung(q) /\ doorbell'[q] = doorbell[q])
      BY <1>9
    <2>2. \A q \in Queue : worker'[q] \in Reading => worker[q] \in Reading
      BY <1>1
    <2>3. \A d \in Dispatcher : At(d, "ring")' =>
            At(d, "ring") /\ dispatcher'[d].index = dispatcher[d].index
              /\ CurrentQueue(d)' = CurrentQueue(d)
      BY <1>1 DEF At, CurrentQueue
    <2>4. QED
      BY <1>1, <1>4, <2>1, <2>2, <2>3, FrameReads
  <1>11. \A p \in Queue : \A k \in Int : MayReach(p, k)' => MayReach(p, k)
    BY <1>1, <1>9 DEF MayReach
  <1>12. \A d \in Dispatcher : \A p \in Queue : Touches(d, p)' => Touches(d, p)
    BY <1>1 DEF Touches, At, CurrentQueue, PlaceQueue
  <1>13. Undisturbed'
    BY <1>1, <1>3, <1>11, <1>12, FrameUndisturbed DEF At, CurrentQueue
  <1>14. QED
    BY <1>2, <1>3, <1>5, <1>6, <1>7, <1>8, <1>10, <1>13 DEF AgentInv

FinalizerLabel == {"none", "doorbell", "finish", "join", "over"}
FinalizerType == [at : FinalizerLabel, queue : Queue]

LEMMA FinalizerIdle ==
  ASSUME AgentInv, finalizer.at # "none"
  PROVE  \A d \in Dispatcher : At(d, "idle")
  BY DEF AgentInv, DispatchesApart

LEMMA FinalizerAt ==
  ASSUME NEW f \in FinalizerType, NEW l \in FinalizerLabel
  PROVE  [f EXCEPT !.at = l] \in FinalizerType /\ [f EXCEPT !.at = l].at = l
  BY DEF FinalizerType, FinalizerLabel

LEMMA AgentFiniStep ==
  ASSUME AgentInv, AgentFini
  PROVE  AgentInv'
  <1>1. finalizer' \in FinalizerType /\ finalizer'.at = "doorbell"
    <2>1. finalizer \in FinalizerType /\ "doorbell" \in FinalizerLabel
      BY DEF AgentInv, TypeOK, FinalizerType, FinalizerLabel
    <2>2. QED
      BY <2>1, FinalizerAt DEF AgentFini
  <1>2. TypeOK'
    BY <1>1 DEF AgentFini, FinalizerLeavesUnchanged, AgentInv, TypeOK, FinalizerType,
                FinalizerLabel
  <1>3. QED
    BY <1>1, <1>2, FinalizerMoves DEF AgentFini

LEMMA StoreIntMaxStep ==
  ASSUME AgentInv, StoreIntMax
  PROVE  AgentInv'
  <1>1. finalizer \in FinalizerType /\ "finish" \in FinalizerLabel
    BY DEF AgentInv, TypeOK, FinalizerType, FinalizerLabel
  <1>2. finalizer' \in FinalizerType /\ finalizer'.at = "finish"
    BY <1>1, FinalizerAt DEF StoreIntMax
  <1>3. PICK q \in Queue : q = finalizer.queue
    BY <1>1 DEF FinalizerType
  <1>4. doorbell' = [doorbell EXCEPT ![q] = IntMax]
    BY <1>3 DEF StoreIntMax
  <1>5. /\ doorbell' \in [Queue -> Nat]
        /\ \A p \in Queue : doorbell'[p] = doorbell[p] \/ doorbell'[p] = IntMax
    BY <1>4, AgentAssumption DEF AgentInv, TypeOK
  <1>6. TypeOK'
    BY <1>2, <1>5 DEF StoreIntMax, FinalizerLeavesUnchanged, AgentInv, TypeOK, FinalizerType,
                FinalizerLabel
  <1>7. finalizer.at # "none"
    BY DEF StoreIntMax
  <1>8. QED
    BY <1>2, <1>5, <1>6, <1>7, FinalizerIdle, FinalizerMoves DEF StoreIntMax

LEMMA StoreFinishStep ==
  ASSUME AgentInv, StoreFinish
  PROVE  AgentInv'
  <1>1. finalizer \in FinalizerType /\ "join" \in FinalizerLabel
    BY DEF AgentInv, TypeOK, FinalizerType, FinalizerLabel
  <1>2. finalizer' \in FinalizerType /\ finalizer'.at = "join"
    BY <1>1, FinalizerAt DEF StoreFinish
  <1>3. PICK q \in Queue : q = finalizer.queue
    BY <1>1 DEF FinalizerType
  <1>4. workerSig' = [workerSig EXCEPT ![q] = FINISH]
    BY <1>3 DEF StoreFinish
  <1>5. /\ workerSig' \in [Queue -> {PROCESS_PKT, FINISH, IDLE}]
        /\ \A p \in Queue : workerSig'[p] = PROCESS_PKT => workerSig[p] = PROCESS_PKT
    BY <1>4 DEF AgentInv, TypeOK, PROCESS_PKT, FINISH, IDLE
  <1>6. TypeOK'
    BY <1>2, <1>5 DEF StoreFinish, FinalizerLeavesUnchanged, AgentInv, TypeOK, FinalizerType,
                FinalizerLabel
  <1>7. finalizer.at # "none"
    BY DEF StoreFinish
  <1>8. QED
    BY <1>2, <1>5, <1>6, <1>7, FinalizerIdle, FinalizerMoves DEF StoreFinish

LEMMA JoinWorkerStep ==
  ASSUME AgentInv, JoinWorker
  PROVE  AgentInv'
  <1>1. finalizer \in FinalizerType /\ "over" \in FinalizerLabel
    BY DEF AgentInv, TypeOK, FinalizerType, FinalizerLabel
  <1>2. finalizer' \in FinalizerType /\ finalizer'.at # "none"
    <2>1. CASE finalizer.queue < QueueCount
      <3>1. finalizer.queue + 1 \in Queue
        BY <1>1, <2>1, AgentAssumption DEF FinalizerType, Queue
      <3>2. finalizer' = [at |-> "doorbell", queue |-> finalizer.queue + 1]
        BY <2>1 DEF JoinWorker
      <3>3. QED
        BY <3>1, <3>2 DEF FinalizerType, FinalizerLabel
    <2>2. CASE ~(finalizer.queue < QueueCount)
      BY <1>1, <2>2, FinalizerAt DEF JoinWorker
    <2>3. QED
      BY <2>1, <2>2
  <1>3. TypeOK'
    BY <1>2 DEF JoinWorker, FinalizerLeavesUnchanged, AgentInv, TypeOK, FinalizerType,
                FinalizerLabel
  <1>4. finalizer.at # "none"
    BY DEF JoinWorker
  <1>5. QED
    BY <1>2, <1>3, <1>4, FinalizerIdle, FinalizerMoves DEF JoinWorker

-------------------------------------------------------------------------------
\* The steps of a dispatcher: from its control c to its control n.
Written(c, i) ==
  \/ c.at \in {"clear", "fill", "header"} /\ i < c.next
  \/ c.at \in {"load", "ring", "signal"}

LEMMA ControlFields ==
  ASSUME NEW l, NEW t, NEW n, NEW k
  PROVE  /\ Control(l, t, n, k).at = l /\ Control(l, t, n, k).task = t
         /\ Control(l, t, n, k).next = n /\ Control(l, t, n, k).index = k
  BY DEF Control

LEMMA NoCallFields ==
  NoCall.at = "idle" /\ NoCall.task = NoTask /\ NoCall.next = 1
  BY DEF NoCall, Control

LEMMA ApartMoves ==
  ASSUME AgentInv, NEW d \in Dispatcher, NEW c, Moves(d, c), finalizer' = finalizer,
         \/ c.at = "idle" /\ c.task = NoTask
         \/ /\ c.at # "idle" /\ c.task \in Task /\ c.next \in 1..ThreadCount[c.task]
            /\ \A e \in Dispatcher : e # d => dispatcher[e].task # c.task
            /\ finalizer.at = "none",
         c.at \in Reserving <=> readyqMutex' = d,
         \A e \in Dispatcher : e # d => (readyqMutex' = e <=> readyqMutex = e)
  PROVE  DispatchesApart'
  <1>1. /\ dispatcher'[d] = c
        /\ \A e \in Dispatcher : e # d => dispatcher'[e] = dispatcher[e]
    BY DEF Moves
  <1>2. \A e \in Dispatcher : dispatcher'[e].task \in Task <=> ~At(e, "idle")'
    BY <1>1, AgentAssumption DEF AgentInv, DispatchesApart, At
  <1>3. \A e \in Dispatcher :
          ~At(e, "idle")' => dispatcher'[e].next \in 1..ThreadCount[dispatcher'[e].task]
    BY <1>1 DEF AgentInv, DispatchesApart, At
  <1>4. \A e, f \in Dispatcher :
          ~At(e, "idle")' /\ dispatcher'[e].task = dispatcher'[f].task => e = f
    BY <1>1, <1>2, AgentAssumption DEF AgentInv, DispatchesApart, At
  <1>5. \A e \in Dispatcher : dispatcher'[e].at \in Reserving <=> readyqMutex' = e
    BY <1>1 DEF AgentInv, DispatchesApart
  <1>6. finalizer'.at # "none" => \A e \in Dispatcher : At(e, "idle")'
    BY <1>1 DEF AgentInv, DispatchesApart, At
  <1>7. QED
    BY <1>2, <1>3, <1>4, <1>5, <1>6 DEF DispatchesApart

LEMMA CountedMoves ==
  ASSUME AgentInv, DispatchesApart', NEW d \in Dispatcher, NEW c, Moves(d, c), NEW t \in Task,
         \/ dispatcher[d].task = t /\ (c.task = t \/ c = NoCall)
         \/ dispatcher[d].task = NoTask /\ c.task = t,
         \A u \in Task : u # t => places'[u] = places[u],
         Len(places'[t]) = IF c.at \in Reserving THEN c.next - 1 ELSE ThreadCount[t],
         Len(places'[t]) <= ThreadCount[t],
         c.at = "idle" => c = NoCall
  PROVE  PlacesCounted'
  <1>1. /\ dispatcher'[d] = c
        /\ \A e \in Dispatcher : e # d => dispatcher'[e] = dispatcher[e]
    BY DEF Moves
  <1>2. NoTask \notin Task /\ NoCall.task = NoTask /\ NoCall.at = "idle" /\ "idle" \notin Reserving
    BY NoCallFields, AgentAssumption DEF Reserving
  <1>3. \A u \in Task : Len(places'[u]) <= ThreadCount[u]
    BY DEF AgentInv, PlacesCounted
  <1>4. ASSUME NEW e \in Dispatcher, ~At(e, "idle")'
        PROVE  Len(places'[dispatcher'[e].task]) =
                 IF dispatcher'[e].at \in Reserving THEN dispatcher'[e].next - 1
                 ELSE ThreadCount[dispatcher'[e].task]
    <2>1. CASE e = d
      <3>1. c.task = t
        BY <1>1, <1>2, <1>4, <2>1 DEF At
      <3>2. QED
        BY <1>1, <2>1, <3>1
    <2>2. CASE e # d
      <3>1. ~At(e, "idle") /\ dispatcher'[e] = dispatcher[e]
        BY <1>1, <1>4, <2>2 DEF At
      <3>2. dispatcher[e].task \in Task /\ dispatcher[e].task # t
        <4>1. dispatcher[e].task \in Task
          BY <3>1 DEF AgentInv, DispatchesApart
        <4>2. CASE dispatcher[d].task = t
          BY <2>2, <3>1, <4>2 DEF AgentInv, DispatchesApart
        <4>3. CASE c.task = t
          BY <1>1, <1>4, <2>2, <3>1, <4>3 DEF DispatchesApart
        <4>4. QED
          BY <4>1, <4>2, <4>3
      <3>3. QED
        BY <3>1, <3>2 DEF AgentInv, PlacesCounted
    <2>3. QED
      BY <2>1, <2>2
  <1>5. ASSUME NEW u \in Task, \A e \in Dispatcher : dispatcher'[e].task # u
        PROVE  Len(places'[u]) \in {0, ThreadCount[u]}
    <2>1. CASE u = t
      <3>1. c = NoCall
        BY <1>1, <1>5, <2>1
      <3>2. QED
        BY <1>2, <2>1, <3>1
    <2>2. CASE u # t
      <3>1. \A e \in Dispatcher : dispatcher[e].task # u
        BY <1>1, <1>2, <1>5, <2>2
      <3>2. QED
        BY <2>2, <3>1 DEF AgentInv, PlacesCounted
    <2>3. QED
      BY <2>1, <2>2
  <1>6. QED
    BY <1>3, <1>4, <1>5 DEF PlacesCounted

\* Which packets of its task a dispatcher has stored is known from its control.
LEMMA StoredOthers ==
  ASSUME AgentInv, NEW d \in Dispatcher, NEW c, Moves(d, c), NEW t \in Task,
         dispatcher[d].task = t \/ dispatcher[d].task = NoTask,
         c.task = t \/ c.task = NoTask,
         \A u \in Task : u # t => places'[u] = places[u]
  PROVE  \A u \in Task : \A i \in Nat : u # t => (Stored(u, i)' <=> Stored(u, i))
  <1>1. /\ dispatcher'[d] = c
        /\ \A e \in Dispatcher : e # d => dispatcher'[e] = dispatcher[e]
    BY DEF Moves
  <1>2. ASSUME NEW u \in Task, NEW i \in Nat, u # t
        PROVE  Stored(u, i)' <=> Stored(u, i)
    <2>1. \A e \in Dispatcher : dispatcher'[e].task = u \/ dispatcher[e].task = u =>
            dispatcher'[e] = dispatcher[e]
      BY <1>1, <1>2, AgentAssumption
    <2>2. HasPlace(u, i)' <=> HasPlace(u, i)
      BY <1>2 DEF HasPlace
    <2>3. QED
      BY <2>1, <2>2 DEF Stored
  <1>3. QED
    BY <1>2

LEMMA StoredOwn ==
  ASSUME AgentInv, NEW d \in Dispatcher, ~At(d, "idle"), NEW i
  PROVE  Stored(dispatcher[d].task, i) <=>
           HasPlace(dispatcher[d].task, i) /\ Written(dispatcher[d], i)
  <1>1. \A e \in Dispatcher : dispatcher[e].task = dispatcher[d].task => e = d
    BY DEF AgentInv, DispatchesApart
  <1>2. QED
    BY <1>1 DEF Stored, Written

LEMMA StoredOwnNext ==
  ASSUME AgentInv, NEW d \in Dispatcher, NEW c, Moves(d, c), NEW t \in Task,
         \A e \in Dispatcher : e # d => dispatcher[e].task # t, NEW i
  PROVE  Stored(t, i)' <=> HasPlace(t, i)' /\ (c.task = t => Written(c, i))
  <1>1. /\ dispatcher'[d] = c
        /\ \A e \in Dispatcher : e # d => dispatcher'[e] = dispatcher[e]
    BY DEF Moves
  <1>2. \A e \in Dispatcher : dispatcher'[e].task = t => e = d
    BY <1>1
  <1>3. QED
    BY <1>1, <1>2 DEF Stored, Written

\* A step of a dispatcher that has its places and stores no header.
LEMMA StoredStays ==
  ASSUME AgentInv, NEW d \in Dispatcher, NEW c, Moves(d, c), ~At(d, "idle"), places' = places,
         \/ c.task = dispatcher[d].task
              /\ \A i \in 1..ThreadCount[c.task] : Written(c, i) <=> Written(dispatcher[d], i)
         \/ c = NoCall /\ dispatcher[d].at \in {"load", "ring", "signal"}
  PROVE  StoredSame /\ StoredGrows /\ PlacesGrow
  <1>1. PICK t \in Task : t = dispatcher[d].task
    BY AtWork
  <1>2. c.task = t \/ c.task = NoTask
    BY <1>1, NoCallFields
  <1>3. \A e \in Dispatcher : e # d => dispatcher[e].task # t
    BY <1>1 DEF AgentInv, DispatchesApart
  <1>4. ASSUME NEW u \in Task, NEW i \in Nat
        PROVE  Stored(u, i)' <=> Stored(u, i)
    <2>1. CASE u # t
      BY <1>1, <1>2, <2>1, StoredOthers
    <2>2. CASE u = t
      <3>1. Stored(t, i)' <=> HasPlace(t, i) /\ (c.task = t => Written(c, i))
        BY <1>1, <1>3, StoredOwnNext DEF HasPlace
      <3>2. Stored(t, i) <=> HasPlace(t, i) /\ Written(dispatcher[d], i)
        BY <1>1, StoredOwn
      <3>3. HasPlace(t, i) => i \in 1..ThreadCount[t]
        BY <1>1, PlacesHaveDispatch DEF HasPlace
      <3>4. CASE c = NoCall /\ dispatcher[d].at \in {"load", "ring", "signal"}
        BY <1>1, <2>2, <3>1, <3>2, <3>4, NoCallFields, AgentAssumption DEF Written
      <3>5. CASE c.task = t /\ \A j \in 1..ThreadCount[t] : Written(c, j) <=> Written(dispatcher[d], j)
        BY <2>2, <3>1, <3>2, <3>3, <3>5
      <3>6. QED
        BY <1>1, <3>4, <3>5
    <2>3. QED
      BY <2>1, <2>2
  <1>5. QED
    BY <1>4 DEF StoredSame, StoredGrows, PlacesGrow

\* The place of the packet a dispatcher is at.
LEMMA OwnPlace ==
  ASSUME AgentInv, NEW d \in Dispatcher, ~At(d, "idle"), dispatcher[d].at \notin Reserving
  PROVE  /\ dispatcher[d].next \in DOMAIN places[dispatcher[d].task]
         /\ \E k \in Nat : Place(d) = <<CurrentQueue(d), k>> /\ k < writeIndex[CurrentQueue(d)]
                             /\ k < readIndex[CurrentQueue(d)] + QueueSize
  <1>1. PICK t \in Task, n \in Nat : t = dispatcher[d].task /\ n = dispatcher[d].next
                                       /\ n \in 1..ThreadCount[t]
    BY AtWork, AgentAssumption
  <1>2. Len(places[t]) = ThreadCount[t] /\ places[t] \in Seq(Queue \X Nat)
    BY <1>1 DEF AgentInv, TypeOK, PlacesCounted
  <1>3. n \in DOMAIN places[t]
    BY <1>1, <1>2
  <1>4. PlaceQueue(t, n) = CurrentQueue(d)
    BY <1>1, <1>3, PlacesHaveDispatch DEF CurrentQueue
  <1>5. PICK k \in Nat : k = PlaceIndex(t, n)
    BY <1>3, PlacesType DEF AgentInv
  <1>6. Place(d) = <<CurrentQueue(d), k>>
    <2>1. Place(d) \in Queue \X Nat
      BY <1>1, <1>3, PlacesType DEF AgentInv, Place
    <2>2. Place(d)[1] = CurrentQueue(d) /\ Place(d)[2] = k
      BY <1>1, <1>4, <1>5 DEF Place, PlaceQueue, PlaceIndex
    <2>3. QED
      BY <2>1, <2>2
  <1>7. k < writeIndex[CurrentQueue(d)] /\ k < readIndex[CurrentQueue(d)] + QueueSize
    BY <1>3, <1>4, <1>5 DEF AgentInv, PlacesDistinct
  <1>8. QED
    BY <1>1, <1>3, <1>6, <1>7

\* No packet that has yet to run is in the slot a dispatcher writes to.
LEMMA SlotIsOwn ==
  ASSUME AgentInv, NEW d \in Dispatcher, dispatcher[d].at \in {"clear", "fill", "header"},
         NEW q \in Queue, NEW k \in Nat, Place(d) = <<q, k>>, q \notin disturbed,
         NEW t \in Task, NEW i \in DOMAIN places[t], NEW j \in Nat, places[t][i] = <<q, j>>,
         Stored(t, i), <<t, i>> \notin ran
  PROVE  j % QueueSize # k % QueueSize
  <1>1. ~At(d, "idle") /\ dispatcher[d].at \notin Reserving
    BY DEF At, Reserving
  <1>2. PICK u \in Task, n \in Nat : u = dispatcher[d].task /\ n = dispatcher[d].next
                                       /\ n \in DOMAIN places[u] /\ places[u][n] = <<q, k>>
    BY <1>1, AtWork, OwnPlace, PlacesType DEF Place, AgentInv
  <1>3. ~Written(dispatcher[d], n)
    BY <1>2 DEF Written
  <1>4. ~Stored(u, n)
    BY <1>1, <1>2, <1>3, StoredOwn
  <1>5. PICK r \in Nat : r = readIndex[q]
    BY DEF AgentInv, TypeOK
  <1>6. r \in 0..QueueSize
    BY <1>5, AgentAssumption DEF AgentInv, ReadBehindWrite
  <1>7. ~MayReach(q, k) /\ k < r + QueueSize
    BY <1>2, <1>4, <1>5, UndisturbedAt
  <1>8. r <= k
    BY <1>5, <1>7 DEF MayReach
  <1>9. ~(j < r) /\ j < r + QueueSize
    BY <1>5, UndisturbedAt
  <1>10. r <= j
    BY <1>5, <1>9
  <1>11. ASSUME j % QueueSize = k % QueueSize PROVE FALSE
    <2>1. j = k
      BY <1>6, <1>7, <1>8, <1>9, <1>10, <1>11, SameSlot
    <2>2. t = u /\ i = n
      BY <1>2, <2>1 DEF AgentInv, PlacesDistinct
    <2>3. QED
      BY <1>4, <2>2
  <1>12. QED
    BY <1>11

\* What a step of a dispatcher that has all its places does not disturb.
LEMMA WritingFrame ==
  ASSUME AgentInv, TypeOK', NEW d \in Dispatcher, NEW c, Moves(d, c),
         ~At(d, "idle"), dispatcher[d].at \notin Reserving, c.at \notin Reserving,
         \/ c = NoCall
         \/ /\ c.at # "idle" /\ c.task = dispatcher[d].task
            /\ c.next \in 1..ThreadCount[c.task],
         UNCHANGED <<writeIndex, readIndex, worker, readyqMutex, places, signalValue, ran,
                     finalizer, disturbed>>,
         StoredGrows, PlacesGrow
  PROVE  /\ DispatchesApart' /\ PlacesCounted' /\ PlacesDistinct' /\ RanInOrder' /\ SignalCovers'
         /\ \A p \in Queue : writeIndex'[p] >= writeIndex[p]
         /\ \A e \in Dispatcher : At(e, "room")' =>
              /\ At(e, "room") /\ dispatcher'[e].index = dispatcher[e].index
              /\ CurrentQueue(e)' = CurrentQueue(e)
         /\ \A e \in Dispatcher : \A p \in Queue : Touches(e, p)' => Touches(e, p)
  <1>1. /\ dispatcher'[d] = c
        /\ \A e \in Dispatcher : e # d => dispatcher'[e] = dispatcher[e]
    BY DEF Moves
  <1>2. PICK t \in Task : t = dispatcher[d].task
    BY AtWork
  <1>3. \A e \in Dispatcher : e # d => dispatcher[e].task # t
    BY <1>2 DEF AgentInv, DispatchesApart
  <1>4. readyqMutex # d /\ finalizer.at = "none"
    BY DEF AgentInv, DispatchesApart
  <1>5. \/ c.at = "idle" /\ c.task = NoTask /\ c = NoCall
        \/ c.at # "idle" /\ c.task = t /\ c.next \in 1..ThreadCount[t]
    BY <1>2, NoCallFields
  <1>6. DispatchesApart'
    BY <1>2, <1>3, <1>4, <1>5, ApartMoves
  <1>7. PlacesCounted'
    <2>1. Len(places'[t]) = ThreadCount[t] /\ ThreadCount[t] \in Nat
      BY <1>2, AgentAssumption DEF AgentInv, PlacesCounted
    <2>2. Len(places'[t]) <= ThreadCount[t]
      BY <2>1
    <2>3. QED
      BY <1>2, <1>5, <1>6, <2>1, <2>2, CountedMoves
  <1>8. ReadersAdvance /\ \A p \in Queue : writeIndex'[p] >= writeIndex[p]
    BY DEF AgentInv, TypeOK, ReadersAdvance
  <1>9. \A e \in Dispatcher : At(e, "room")' =>
          /\ At(e, "room") /\ dispatcher'[e].index = dispatcher[e].index
          /\ CurrentQueue(e)' = CurrentQueue(e)
    <2> SUFFICES ASSUME NEW e \in Dispatcher, At(e, "room")'
                 PROVE  /\ At(e, "room") /\ dispatcher'[e].index = dispatcher[e].index
                        /\ CurrentQueue(e)' = CurrentQueue(e)
      OBVIOUS
    <2>1. e # d
      BY <1>1 DEF At, Reserving
    <2>2. dispatcher'[e] = dispatcher[e]
      BY <1>1, <2>1
    <2>3. QED
      BY <2>2 DEF At, CurrentQueue
  <1>10. PlacesDistinct'
    BY <1>8, <1>9, FrameDistinct
  <1>11. RanInOrder'
    BY <1>8, FrameRan
  <1>12. SignalCovers'
    <2>1. \A u \in Task : (\E e \in Dispatcher : dispatcher'[e].task = u) =>
            \E e \in Dispatcher : dispatcher[e].task = u
      BY <1>1, <1>2, <1>5, AgentAssumption
    <2>2. QED
      BY <1>8, <2>1, FrameSignal
  <1>13. \A e \in Dispatcher : \A p \in Queue : Touches(e, p)' => Touches(e, p)
    <2> SUFFICES ASSUME NEW e \in Dispatcher, NEW p \in Queue, Touches(e, p)'
                 PROVE  Touches(e, p)
      OBVIOUS
    <2>1. CASE At(e, "room")' /\ CurrentQueue(e)' = p
      BY <1>9, <2>1 DEF Touches
    <2>2. CASE ~At(e, "idle")' /\ \E i \in DOMAIN places'[dispatcher'[e].task] :
                 PlaceQueue(dispatcher[e].task, i)' = p
      <3>1. dispatcher'[e].task = dispatcher[e].task
        BY <1>1, <1>2, <1>5, <2>2 DEF At
      <3>2. ~At(e, "idle")
        BY <1>1, <2>2 DEF At
      <3>3. QED
        BY <2>2, <3>1, <3>2 DEF Touches, PlaceQueue
    <2>3. QED
      BY <2>1, <2>2 DEF Touches
  <1>14. QED
    BY <1>6, <1>7, <1>8, <1>9, <1>10, <1>11, <1>12, <1>13

LEMMA LoadIndexStep ==
  ASSUME AgentInv, NEW d \in Dispatcher, LoadIndex(d)
  PROVE  AgentInv'
  <1>1. /\ ~At(d, "idle") /\ dispatcher[d].at \notin Reserving /\ dispatcher[d].at = "load"
        /\ UNCHANGED <<writeIndex, readIndex, header, completion, doorbell, workerSig, worker,
                       readyqMutex, places, signalValue, ran, finalizer, disturbed>>
    BY DEF LoadIndex, At, Reserving, queueVars
  <1>2. PICK w \in Int : w = LastIndex(CurrentQueue(d)) /\ w \in 0..writeIndex[CurrentQueue(d)] - 1
    <2>1. PICK k \in Nat : k < writeIndex[CurrentQueue(d)]
      BY <1>1, OwnPlace
    <2>2. writeIndex[CurrentQueue(d)] \in Nat
      BY <1>1, AtWork DEF AgentInv, TypeOK
    <2>3. QED
      BY <2>1, <2>2 DEF LastIndex
  <1>3. PICK c : c = Control("ring", dispatcher[d].task, dispatcher[d].next, w)
    OBVIOUS
  <1>4. Moves(d, c)
    <2>1. "ring" \in DispatcherLabel
      BY DEF DispatcherLabel
    <2>2. Goto(d, "ring", w)
      BY <1>2 DEF LoadIndex
    <2>3. QED
      BY <1>3, <2>1, <2>2, GotoMoves
  <1>5. c.at = "ring" /\ c.task = dispatcher[d].task /\ c.next = dispatcher[d].next /\ c.index = w
    BY <1>3, ControlFields
  <1>6. /\ dispatcher'[d] = c
        /\ \A e \in Dispatcher : e # d => dispatcher'[e] = dispatcher[e]
        /\ dispatcher' \in [Dispatcher -> DispatcherType]
    BY <1>4 DEF Moves
  <1>7. TypeOK'
    BY <1>1, <1>6 DEF AgentInv, TypeOK, DispatcherType
  <1>8. StoredSame /\ StoredGrows /\ PlacesGrow
    BY <1>1, <1>4, <1>5, StoredStays DEF Written
  <1>9. /\ DispatchesApart' /\ PlacesCounted' /\ PlacesDistinct' /\ RanInOrder' /\ SignalCovers'
        /\ \A p \in Queue : writeIndex'[p] >= writeIndex[p]
        /\ \A e \in Dispatcher : At(e, "room")' =>
             /\ At(e, "room") /\ dispatcher'[e].index = dispatcher[e].index
             /\ CurrentQueue(e)' = CurrentQueue(e)
        /\ \A e \in Dispatcher : \A p \in Queue : Touches(e, p)' => Touches(e, p)
    <2>1. c.at # "idle" /\ c.at \notin Reserving /\ c.next \in 1..ThreadCount[c.task]
      BY <1>1, <1>5, AtWork DEF Reserving
    <2>2. QED
      BY <1>1, <1>4, <1>5, <1>7, <1>8, <2>1, WritingFrame
  <1>10. HeadersPlaced'
    BY <1>1, <1>8, FrameHeaders
  <1>11. \A p \in Queue : Rung(p)' => Rung(p)
    BY <1>1, <1>5, <1>6 DEF Rung, At, CurrentQueue
  <1>12. ReadBehindWrite'
    <2>1. ASSUME NEW e \in Dispatcher, At(e, "ring")'
          PROVE  \/ /\ At(e, "ring") /\ dispatcher'[e].index = dispatcher[e].index
                    /\ CurrentQueue(e)' = CurrentQueue(e)
                 \/ dispatcher'[e].index \in 0..writeIndex'[CurrentQueue(e)'] - 1
      <3>1. CASE e = d
        BY <1>1, <1>2, <1>5, <1>6, <3>1 DEF CurrentQueue
      <3>2. CASE e # d
        BY <1>6, <2>1, <3>2 DEF At, CurrentQueue
      <3>3. QED
        BY <3>1, <3>2
    <2>2. QED
      BY <1>1, <1>7, <1>9, <1>11, <2>1, FrameReads
  <1>13. Undisturbed'
    <2>1. \A p \in Queue : \A k \in Int : MayReach(p, k)' => MayReach(p, k)
      BY <1>1, <1>11 DEF MayReach
    <2>2. QED
      BY <1>1, <1>8, <1>9, <2>1, FrameUndisturbed
  <1>14. QED
    BY <1>7, <1>9, <1>10, <1>12, <1>13 DEF AgentInv

LEMMA SignalWorkerStep ==
  ASSUME AgentInv, NEW d \in Dispatcher, SignalWorker(d)
  PROVE  AgentInv'
  <1>1. /\ ~At(d, "idle") /\ dispatcher[d].at \notin Reserving /\ dispatcher[d].at = "signal"
        /\ UNCHANGED <<writeIndex, readIndex, header, completion, doorbell, worker,
                       readyqMutex, places, signalValue, ran, finalizer, disturbed>>
    BY DEF SignalWorker, At, Reserving, queueVars
  <1>2. PICK t \in Task, n \in Nat, k \in Int :
          /\ t = dispatcher[d].task /\ n = dispatcher[d].next /\ k = dispatcher[d].index
          /\ n \in 1..ThreadCount[t] /\ ThreadCount[t] \in Nat
    BY <1>1, AtWork, AgentAssumption DEF DispatcherType
  <1>3. PICK c : /\ Moves(d, c)
                 /\ c = NoCall \/ (n < ThreadCount[t] /\ c = Control("load", t, n + 1, k))
    <2>1. NextPacket(d, "load", "idle") /\ "load" \in DispatcherLabel /\ "idle" \in DispatcherLabel
      BY DEF SignalWorker, DispatcherLabel
    <2>2. QED
      BY <1>1, <1>2, <2>1, NextPacketMoves
  <1>4. \/ c = NoCall
        \/ c.at = "load" /\ c.task = t /\ c.next \in 1..ThreadCount[t]
    BY <1>2, <1>3, ControlFields
  <1>5. /\ dispatcher'[d] = c
        /\ \A e \in Dispatcher : e # d => dispatcher'[e] = dispatcher[e]
        /\ dispatcher' \in [Dispatcher -> DispatcherType]
    BY <1>3 DEF Moves
  <1>6. PICK q \in Queue : q = CurrentQueue(d)
    BY <1>1, AtWork
  <1>7. workerSig' = [workerSig EXCEPT ![q] = PROCESS_PKT]
    BY <1>6 DEF SignalWorker
  <1>8. TypeOK'
    BY <1>1, <1>5, <1>7 DEF AgentInv, TypeOK, DispatcherType
  <1>9. StoredSame /\ StoredGrows /\ PlacesGrow
    BY <1>1, <1>2, <1>3, <1>4, StoredStays DEF Written
  <1>10. c.at \notin {"room", "ring", "signal", "reserve"} /\ c.at \notin Reserving
    BY <1>4, NoCallFields DEF Reserving
  <1>11. /\ DispatchesApart' /\ PlacesCounted' /\ PlacesDistinct' /\ RanInOrder' /\ SignalCovers'
         /\ \A p \in Queue : writeIndex'[p] >= writeIndex[p]
         /\ \A e \in Dispatcher : At(e, "room")' =>
              /\ At(e, "room") /\ dispatcher'[e].index = dispatcher[e].index
              /\ CurrentQueue(e)' = CurrentQueue(e)
         /\ \A e \in Dispatcher : \A p \in Queue : Touches(e, p)' => Touches(e, p)
    <2>1. \/ c = NoCall
          \/ /\ c.at # "idle" /\ c.task = dispatcher[d].task
             /\ c.next \in 1..ThreadCount[c.task]
      BY <1>2, <1>4
    <2>2. QED
      BY <1>1, <1>3, <1>8, <1>9, <1>10, <2>1, WritingFrame
  <1>12. HeadersPlaced'
    BY <1>1, <1>9, FrameHeaders
  <1>13. \A p \in Queue : Rung(p)' => Rung(p)
    <2> SUFFICES ASSUME NEW p \in Queue, Rung(p)'
                 PROVE  Rung(p)
      OBVIOUS
    <2>1. CASE p = q
      BY <1>1, <1>6, <2>1 DEF Rung, At
    <2>2. CASE p # q
      <3>1. workerSig'[p] = workerSig[p] /\ worker'[p] = worker[p]
        BY <1>1, <1>7, <2>2 DEF AgentInv, TypeOK
      <3>2. \A e \in Dispatcher : At(e, "signal")' /\ CurrentQueue(e)' = p =>
              At(e, "signal") /\ CurrentQueue(e) = p
        BY <1>5, <1>10 DEF At, CurrentQueue
      <3>3. QED
        BY <3>1, <3>2 DEF Rung
    <2>3. QED
      BY <2>1, <2>2
  <1>14. ReadBehindWrite'
    <2>1. \A e \in Dispatcher : At(e, "ring")' =>
            /\ At(e, "ring") /\ dispatcher'[e].index = dispatcher[e].index
            /\ CurrentQueue(e)' = CurrentQueue(e)
      BY <1>5, <1>10 DEF At, CurrentQueue
    <2>2. QED
      BY <1>1, <1>8, <1>11, <1>13, <2>1, FrameReads
  <1>15. Undisturbed'
    <2>1. \A p \in Queue : \A j \in Int : MayReach(p, j)' => MayReach(p, j)
      BY <1>1, <1>13 DEF MayReach
    <2>2. QED
      BY <1>1, <1>9, <1>11, <2>1, FrameUndisturbed
  <1>16. QED
    BY <1>8, <1>11, <1>12, <1>14, <1>15 DEF AgentInv

LEMMA RingDoorbellStep ==
  ASSUME AgentInv, NEW d \in Dispatcher, RingDoorbell(d)
  PROVE  AgentInv'
  <1>1. /\ ~At(d, "idle") /\ dispatcher[d].at \notin Reserving /\ dispatcher[d].at = "ring"
        /\ UNCHANGED <<writeIndex, readIndex, header, completion, workerSig, worker,
                       readyqMutex, places, signalValue, ran, finalizer, disturbed>>
    BY DEF RingDoorbell, At, Reserving
  <1>2. PICK q \in Queue, w \in Int :
          q = CurrentQueue(d) /\ w = dispatcher[d].index /\ w \in 0..writeIndex[q] - 1
    BY <1>1, AtWork DEF AgentInv, ReadBehindWrite, At
  <1>3. PICK c : c = Control("signal", dispatcher[d].task, dispatcher[d].next, w)
    OBVIOUS
  <1>4. Moves(d, c)
    <2>1. "signal" \in DispatcherLabel
      BY DEF DispatcherLabel
    <2>2. Goto(d, "signal", w)
      BY <1>2 DEF RingDoorbell
    <2>3. QED
      BY <1>3, <2>1, <2>2, GotoMoves
  <1>5. c.at = "signal" /\ c.task = dispatcher[d].task /\ c.next = dispatcher[d].next
    BY <1>3, ControlFields
  <1>6. /\ dispatcher'[d] = c
        /\ \A e \in Dispatcher : e # d => dispatcher'[e] = dispatcher[e]
        /\ dispatcher' \in [Dispatcher -> DispatcherType]
    BY <1>4 DEF Moves
  <1>7. writeIndex[q] \in Nat /\ w \in Nat /\ w < writeIndex[q]
    BY <1>2 DEF AgentInv, TypeOK
  <1>8. /\ doorbell' \in [Queue -> Nat] /\ doorbell'[q] = w
        /\ \A p \in Queue : p # q => doorbell'[p] = doorbell[p]
    BY <1>2, <1>7 DEF RingDoorbell, AgentInv, TypeOK
  <1>9. TypeOK'
    BY <1>1, <1>6, <1>8 DEF AgentInv, TypeOK, DispatcherType
  <1>10. StoredSame /\ StoredGrows /\ PlacesGrow
    BY <1>1, <1>4, <1>5, StoredStays DEF Written
  <1>11. /\ DispatchesApart' /\ PlacesCounted' /\ PlacesDistinct' /\ RanInOrder' /\ SignalCovers'
         /\ \A p \in Queue : writeIndex'[p] >= writeIndex[p]
         /\ \A e \in Dispatcher : At(e, "room")' =>
              /\ At(e, "room") /\ dispatcher'[e].index = dispatcher[e].index
              /\ CurrentQueue(e)' = CurrentQueue(e)
         /\ \A e \in Dispatcher : \A p \in Queue : Touches(e, p)' => Touches(e, p)
    <2>1. c.at # "idle" /\ c.at \notin Reserving /\ c.next \in 1..ThreadCount[c.task]
      BY <1>1, <1>5, AtWork DEF Reserving
    <2>2. QED
      BY <1>1, <1>4, <1>5, <1>9, <1>10, <2>1, WritingFrame
  <1>12. HeadersPlaced'
    BY <1>1, <1>10, FrameHeaders
  <1>13. \A p \in Queue : p # q => (Rung(p)' => Rung(p))
    <2>1. CurrentQueue(d)' = q
      BY <1>2, <1>5, <1>6 DEF CurrentQueue
    <2>2. QED
      BY <1>1, <1>6, <2>1 DEF Rung, At, CurrentQueue
  <1>14. ReadBehindWrite'
    <2>1. \A e \in Dispatcher : At(e, "ring")' =>
            /\ At(e, "ring") /\ dispatcher'[e].index = dispatcher[e].index
            /\ CurrentQueue(e)' = CurrentQueue(e)
      BY <1>5, <1>6 DEF At, CurrentQueue
    <2>2. \A p \in Queue : Rung(p)' =>
            \/ doorbell'[p] < writeIndex'[p]
            \/ Rung(p) /\ doorbell'[p] = doorbell[p]
      BY <1>1, <1>7, <1>8, <1>13
    <2>3. QED
      BY <1>1, <1>9, <1>11, <2>1, <2>2, FrameReads
  <1>15. Undisturbed'
    <2> SUFFICES ASSUME NEW p \in Queue, p \notin disturbed
                 PROVE  /\ \A e, f \in Dispatcher : Touches(e, p)' /\ Touches(f, p)' => e = f
                        /\ \A e \in Dispatcher : At(e, "room")' /\ CurrentQueue(e)' = p =>
                             ~MayReach(p, dispatcher[e].index)'
                        /\ QueueUndisturbed(p)'
      BY <1>1 DEF Undisturbed, QueueUndisturbed
    <2>1. \A e, f \in Dispatcher : Touches(e, p) /\ Touches(f, p) => e = f
      BY DEF AgentInv, Undisturbed
    <2>2. \A e, f \in Dispatcher : Touches(e, p)' /\ Touches(f, p)' => e = f
      BY <1>11, <2>1
    <2>3. p # q => \A k \in Int : MayReach(p, k)' => MayReach(p, k)
      BY <1>1, <1>8, <1>13 DEF MayReach
    <2>4. Touches(d, q)
      <3>1. /\ dispatcher[d].next \in DOMAIN places[dispatcher[d].task]
            /\ PlaceQueue(dispatcher[d].task, dispatcher[d].next) = q
        <4>1. PICK k \in Nat : Place(d) = <<CurrentQueue(d), k>>
          BY <1>1, OwnPlace
        <4>2. Place(d)[1] = q
          BY <1>2, <4>1
        <4>3. QED
          BY <1>1, <4>2, OwnPlace DEF Place, PlaceQueue
      <3>2. QED
        BY <1>1, <3>1 DEF Touches
    <2>5. ASSUME NEW e \in Dispatcher, NEW k \in Int,
                 At(e, "room")', CurrentQueue(e)' = p, dispatcher'[e].index = k
          PROVE  ~MayReach(p, k)'
      <3>1. At(e, "room") /\ CurrentQueue(e) = p /\ dispatcher[e].index = k
        BY <1>11, <2>5
      <3>2. ~MayReach(p, k)
        BY <3>1 DEF AgentInv, Undisturbed
      <3>3. p # q
        BY <1>1, <2>1, <2>4, <3>1 DEF Touches, At
      <3>4. QED
        BY <2>3, <3>2, <3>3
    <2>6. ASSUME NEW t \in Task, NEW i \in DOMAIN places'[t], NEW k \in Nat,
                 places'[t][i] = <<p, k>>
          PROVE  /\ MayReach(p, k)' => Stored(t, i)'
                 /\ k < readIndex'[p] => <<t, i>> \in ran'
                 /\ k = readIndex'[p] /\ worker'[p] = "signal" => <<t, i>> \in ran'
                 /\ Stored(t, i)' /\ <<t, i>> \notin ran' => header'[p][k % QueueSize] = <<t, i>>
      <3>1. i \in DOMAIN places[t] /\ places[t][i] = <<p, k>>
        BY <1>1, <2>6
      <3>2. /\ i \in Nat
            /\ MayReach(p, k) => Stored(t, i)
            /\ k < readIndex[p] => <<t, i>> \in ran
            /\ k = readIndex[p] /\ worker[p] = "signal" => <<t, i>> \in ran
            /\ Stored(t, i) /\ <<t, i>> \notin ran => header[p][k % QueueSize] = <<t, i>>
        BY <3>1, UndisturbedAt
      <3>3. Stored(t, i)' <=> Stored(t, i)
        BY <1>10, <3>2 DEF StoredSame
      <3>4. p = q => Stored(t, i)
        <4> SUFFICES ASSUME p = q, NEW e \in Dispatcher, dispatcher[e].task = t
                     PROVE  \/ dispatcher[e].at \in {"clear", "fill", "header"}
                                 /\ i < dispatcher[e].next
                            \/ dispatcher[e].at \in {"load", "ring", "signal"}
          BY <3>1 DEF Stored, HasPlace
        <4>1. ~At(e, "idle")
          BY DEF AgentInv, DispatchesApart
        <4>2. Touches(e, q)
          BY <3>1, <4>1 DEF Touches, PlaceQueue
        <4>3. e = d
          BY <2>1, <2>4, <4>2
        <4>4. QED
          BY <1>1, <4>3
      <3>5. QED
        BY <1>1, <2>3, <3>2, <3>3, <3>4
    <2>7. QED
      BY <1>9, <2>2, <2>5, <2>6, UndisturbedBy
  <1>16. QED
    BY <1>9, <1>11, <1>12, <1>14, <1>15 DEF AgentInv

\* The steps in which a packet is written are alike but for the queue's memory.
LEMMA WritingMoves ==
  ASSUME AgentInv, NEW d \in Dispatcher, dispatcher[d].at \in {"clear", "fill", "header"},
         NEW c, Moves(d, c), c.at \in {"clear", "fill", "header", "load"},
         c.task = dispatcher[d].task, c.next \in 1..ThreadCount[c.task],
         header' \in [Queue -> [0..QueueSize - 1 -> Packet \cup {Invalid, Cleared}]],
         completion' \in [Queue -> [0..QueueSize - 1 -> Task \cup {NoTask}]],
         StoredGrows, PlacesGrow, WritingLeavesUnchanged
  PROVE  /\ TypeOK'
         /\ DispatchesApart' /\ PlacesCounted' /\ PlacesDistinct' /\ RanInOrder' /\ SignalCovers'
         /\ ReadBehindWrite'
         /\ \A e \in Dispatcher : At(e, "room")' =>
              /\ At(e, "room") /\ dispatcher'[e].index = dispatcher[e].index
              /\ CurrentQueue(e)' = CurrentQueue(e)
         /\ \A e \in Dispatcher : \A p \in Queue : Touches(e, p)' => Touches(e, p)
         /\ \A p \in Queue : \A k \in Int : MayReach(p, k)' => MayReach(p, k)
  <1>1. /\ ~At(d, "idle") /\ dispatcher[d].at \notin Reserving
        /\ c.at \notin Reserving /\ c.at # "idle"
        /\ UNCHANGED <<writeIndex, readIndex, doorbell, workerSig, worker, readyqMutex,
                       places, signalValue, ran, finalizer, disturbed>>
    BY DEF WritingLeavesUnchanged, At, Reserving
  <1>2. /\ dispatcher'[d] = c
        /\ \A e \in Dispatcher : e # d => dispatcher'[e] = dispatcher[e]
        /\ dispatcher' \in [Dispatcher -> DispatcherType]
    BY DEF Moves
  <1>3. TypeOK'
    BY <1>1, <1>2 DEF AgentInv, TypeOK, DispatcherType
  <1>4. /\ DispatchesApart' /\ PlacesCounted' /\ PlacesDistinct' /\ RanInOrder' /\ SignalCovers'
        /\ \A p \in Queue : writeIndex'[p] >= writeIndex[p]
        /\ \A e \in Dispatcher : At(e, "room")' =>
             /\ At(e, "room") /\ dispatcher'[e].index = dispatcher[e].index
             /\ CurrentQueue(e)' = CurrentQueue(e)
        /\ \A e \in Dispatcher : \A p \in Queue : Touches(e, p)' => Touches(e, p)
    BY <1>1, <1>3, WritingFrame
  <1>5. \A p \in Queue : Rung(p)' => Rung(p)
    BY <1>1, <1>2 DEF Rung, At, CurrentQueue
  <1>6. \A p \in Queue : \A k \in Int : MayReach(p, k)' => MayReach(p, k)
    BY <1>1, <1>5 DEF MayReach
  <1>7. ReadBehindWrite'
    <2>1. \A e \in Dispatcher : At(e, "ring")' =>
            /\ At(e, "ring") /\ dispatcher'[e].index = dispatcher[e].index
            /\ CurrentQueue(e)' = CurrentQueue(e)
      BY <1>2 DEF At, CurrentQueue
    <2>2. QED
      BY <1>1, <1>3, <1>4, <1>5, <2>1, FrameReads
  <1>8. QED
    BY <1>3, <1>4, <1>6, <1>7

LEMMA WritingPlace ==
  ASSUME AgentInv, NEW d \in Dispatcher, dispatcher[d].at \in {"clear", "fill", "header"}
  PROVE  /\ ~At(d, "idle") /\ dispatcher[d].at \notin Reserving
         /\ dispatcher[d].task \in Task
         /\ dispatcher[d].next \in 1..ThreadCount[dispatcher[d].task]
         /\ dispatcher[d].next \in DOMAIN places[dispatcher[d].task]
         /\ \E q \in Queue : \E k \in Nat : Place(d) = <<q, k>>
  <1>1. ~At(d, "idle") /\ dispatcher[d].at \notin Reserving
    BY DEF At, Reserving
  <1>2. QED
    BY <1>1, AtWork, OwnPlace

LEMMA ClearPacketStep ==
  ASSUME AgentInv, NEW d \in Dispatcher, ClearPacket(d)
  PROVE  AgentInv'
  <1>1. dispatcher[d].at = "clear" /\ WritingLeavesUnchanged
          /\ places' = places /\ readIndex' = readIndex /\ worker' = worker /\ ran' = ran
          /\ disturbed' = disturbed
    BY DEF ClearPacket, At, WritingLeavesUnchanged
  <1>2. /\ ~At(d, "idle") /\ dispatcher[d].task \in Task
        /\ dispatcher[d].next \in 1..ThreadCount[dispatcher[d].task]
    BY <1>1, WritingPlace
  <1>3. PICK q \in Queue, k \in Nat : Place(d) = <<q, k>>
    BY <1>1, WritingPlace
  <1>4. PICK c : c = Control("fill", dispatcher[d].task, dispatcher[d].next, dispatcher[d].index)
    OBVIOUS
  <1>5. c.at = "fill" /\ c.task = dispatcher[d].task /\ c.next = dispatcher[d].next
    BY <1>4, ControlFields
  <1>6. Moves(d, c)
    <2>1. "fill" \in DispatcherLabel /\ dispatcher[d].index \in Int
      BY DEF DispatcherLabel, AgentInv, TypeOK
    <2>2. QED
      BY <1>4, <2>1, GotoMoves DEF ClearPacket
  <1>7. StoredSame /\ StoredGrows /\ PlacesGrow
    BY <1>1, <1>2, <1>5, <1>6, StoredStays DEF Written
  <1>8. /\ header' \in [Queue -> [0..QueueSize - 1 -> Packet \cup {Invalid, Cleared}]]
        /\ header'[q][k % QueueSize] = Cleared
        /\ \A p \in Queue : \A s \in 0..QueueSize - 1 :
             p # q \/ s # k % QueueSize => header'[p][s] = header[p][s]
    <2>1. PICK s \in 0..QueueSize - 1 : s = k % QueueSize
      BY SlotRange
    <2>2. header' = [header EXCEPT ![q][s] = Cleared]
      BY <1>3, <2>1 DEF StoreAt, ClearPacket
    <2>3. /\ header' \in [Queue -> [0..QueueSize - 1 -> Packet \cup {Invalid, Cleared}]]
          /\ header'[q][s] = Cleared
          /\ \A p \in Queue : \A r \in 0..QueueSize - 1 :
               p # q \/ r # s => header'[p][r] = header[p][r]
      BY <2>2 DEF AgentInv, TypeOK
    <2>4. QED
      BY <2>1, <2>3
  <1>9. /\ completion' \in [Queue -> [0..QueueSize - 1 -> Task \cup {NoTask}]]
        /\ completion'[q][k % QueueSize] = NoTask
        /\ \A p \in Queue : \A s \in 0..QueueSize - 1 :
             p # q \/ s # k % QueueSize => completion'[p][s] = completion[p][s]
    <2>1. PICK s \in 0..QueueSize - 1 : s = k % QueueSize
      BY SlotRange
    <2>2. completion' = [completion EXCEPT ![q][s] = NoTask]
      BY <1>3, <2>1 DEF StoreAt, ClearPacket
    <2>3. /\ completion' \in [Queue -> [0..QueueSize - 1 -> Task \cup {NoTask}]]
          /\ completion'[q][s] = NoTask
          /\ \A p \in Queue : \A r \in 0..QueueSize - 1 :
               p # q \/ r # s => completion'[p][r] = completion[p][r]
      BY <2>2 DEF AgentInv, TypeOK
    <2>4. QED
      BY <2>1, <2>3
  <1>10. /\ TypeOK'
         /\ DispatchesApart' /\ PlacesCounted' /\ PlacesDistinct' /\ RanInOrder' /\ SignalCovers'
         /\ ReadBehindWrite'
         /\ \A e \in Dispatcher : At(e, "room")' =>
              /\ At(e, "room") /\ dispatcher'[e].index = dispatcher[e].index
              /\ CurrentQueue(e)' = CurrentQueue(e)
         /\ \A e \in Dispatcher : \A p \in Queue : Touches(e, p)' => Touches(e, p)
         /\ \A p \in Queue : \A j \in Int : MayReach(p, j)' => MayReach(p, j)
    BY <1>1, <1>2, <1>5, <1>6, <1>7, <1>8, <1>9, WritingMoves
  <1>11. HeadersPlaced'
    <2>1. \A p \in Queue : \A s \in 0..QueueSize - 1 :
            /\ header'[p][s] \in Packet => header'[p][s] = header[p][s]
            /\ completion'[p][s] # NoTask => completion'[p][s] = completion[p][s]
      BY <1>8, <1>9, HeaderAssumption
    <2>2. QED
      BY <1>7, <2>1, FrameHeaders
  <1>12. Undisturbed'
    <2> SUFFICES ASSUME NEW p \in Queue, p \notin disturbed
                 PROVE  /\ \A e, f \in Dispatcher : Touches(e, p)' /\ Touches(f, p)' => e = f
                        /\ \A e \in Dispatcher : At(e, "room")' /\ CurrentQueue(e)' = p =>
                             ~MayReach(p, dispatcher[e].index)'
                        /\ QueueUndisturbed(p)'
      BY <1>1 DEF Undisturbed, QueueUndisturbed
    <2>1. \A e, f \in Dispatcher : Touches(e, p)' /\ Touches(f, p)' => e = f
      BY <1>10 DEF AgentInv, Undisturbed
    <2>2. ASSUME NEW e \in Dispatcher, NEW j \in Int,
                 At(e, "room")', CurrentQueue(e)' = p, dispatcher'[e].index = j
          PROVE  ~MayReach(p, j)'
      BY <1>10, <2>2 DEF AgentInv, Undisturbed
    <2>3. ASSUME NEW t \in Task, NEW i \in DOMAIN places'[t], NEW j \in Nat,
                 places'[t][i] = <<p, j>>
          PROVE  /\ MayReach(p, j)' => Stored(t, i)'
                 /\ j < readIndex'[p] => <<t, i>> \in ran'
                 /\ j = readIndex'[p] /\ worker'[p] = "signal" => <<t, i>> \in ran'
                 /\ Stored(t, i)' /\ <<t, i>> \notin ran' => header'[p][j % QueueSize] = <<t, i>>
      <3>1. i \in DOMAIN places[t] /\ places[t][i] = <<p, j>>
        BY <1>1, <2>3
      <3>2. /\ i \in Nat
            /\ MayReach(p, j) => Stored(t, i)
            /\ j < readIndex[p] => <<t, i>> \in ran
            /\ j = readIndex[p] /\ worker[p] = "signal" => <<t, i>> \in ran
            /\ Stored(t, i) /\ <<t, i>> \notin ran => header[p][j % QueueSize] = <<t, i>>
        BY <3>1, UndisturbedAt
      <3>3. Stored(t, i)' <=> Stored(t, i)
        BY <1>7, <3>2 DEF StoredSame
      <3>4. ASSUME Stored(t, i), <<t, i>> \notin ran
            PROVE  header'[p][j % QueueSize] = <<t, i>>
        <4>1. p # q \/ j % QueueSize # k % QueueSize
          BY <1>1, <1>3, <3>1, <3>4, SlotIsOwn
        <4>2. QED
          BY <1>8, <3>2, <3>4, <4>1, SlotRange
      <3>5. QED
        BY <1>1, <1>10, <3>2, <3>3, <3>4
    <2>4. QED
      BY <1>10, <2>1, <2>2, <2>3, UndisturbedBy
  <1>13. QED
    BY <1>10, <1>11, <1>12 DEF AgentInv

LEMMA FillPacketStep ==
  ASSUME AgentInv, NEW d \in Dispatcher, FillPacket(d)
  PROVE  AgentInv'
  <1>1. dispatcher[d].at = "fill" /\ WritingLeavesUnchanged /\ header' = header
          /\ places' = places /\ readIndex' = readIndex /\ worker' = worker /\ ran' = ran
          /\ disturbed' = disturbed
    BY DEF FillPacket, At, WritingLeavesUnchanged
  <1>2. PICK t \in Task, n \in Nat : /\ t = dispatcher[d].task /\ n = dispatcher[d].next
                                     /\ n \in 1..ThreadCount[t] /\ n \in DOMAIN places[t]
                                     /\ ~At(d, "idle")
    BY <1>1, WritingPlace, AgentAssumption
  <1>3. PICK q \in Queue, k \in Nat : Place(d) = <<q, k>>
    BY <1>1, WritingPlace
  <1>4. PICK c : c = Control("header", dispatcher[d].task, dispatcher[d].next, dispatcher[d].index)
    OBVIOUS
  <1>5. c.at = "header" /\ c.task = dispatcher[d].task /\ c.next = dispatcher[d].next
    BY <1>4, ControlFields
  <1>6. Moves(d, c)
    <2>1. "header" \in DispatcherLabel /\ dispatcher[d].index \in Int
      BY DEF DispatcherLabel, AgentInv, TypeOK
    <2>2. QED
      BY <1>4, <2>1, GotoMoves DEF FillPacket
  <1>7. StoredSame /\ StoredGrows /\ PlacesGrow
    BY <1>1, <1>2, <1>5, <1>6, StoredStays DEF Written
  <1>8. header' \in [Queue -> [0..QueueSize - 1 -> Packet \cup {Invalid, Cleared}]]
    BY <1>1 DEF AgentInv, TypeOK
  <1>9. /\ completion' \in [Queue -> [0..QueueSize - 1 -> Task \cup {NoTask}]]
        /\ completion'[q][k % QueueSize] = t
        /\ \A p \in Queue : \A s \in 0..QueueSize - 1 :
             p # q \/ s # k % QueueSize => completion'[p][s] = completion[p][s]
    <2>1. PICK s \in 0..QueueSize - 1 : s = k % QueueSize
      BY SlotRange
    <2>2. completion' = [completion EXCEPT ![q][s] = t]
      BY <1>2, <1>3, <2>1 DEF StoreAt, FillPacket
    <2>3. /\ completion' \in [Queue -> [0..QueueSize - 1 -> Task \cup {NoTask}]]
          /\ completion'[q][s] = t
          /\ \A p \in Queue : \A r \in 0..QueueSize - 1 :
               p # q \/ r # s => completion'[p][r] = completion[p][r]
      BY <2>2 DEF AgentInv, TypeOK
    <2>4. QED
      BY <2>1, <2>3
  <1>10. /\ TypeOK'
         /\ DispatchesApart' /\ PlacesCounted' /\ PlacesDistinct' /\ RanInOrder' /\ SignalCovers'
         /\ ReadBehindWrite'
         /\ \A e \in Dispatcher : At(e, "room")' =>
              /\ At(e, "room") /\ dispatcher'[e].index = dispatcher[e].index
              /\ CurrentQueue(e)' = CurrentQueue(e)
         /\ \A e \in Dispatcher : \A p \in Queue : Touches(e, p)' => Touches(e, p)
         /\ \A p \in Queue : \A j \in Int : MayReach(p, j)' => MayReach(p, j)
    BY <1>1, <1>2, <1>5, <1>6, <1>7, <1>8, <1>9, WritingMoves
  <1>11. HeadersPlaced'
    <2> SUFFICES ASSUME NEW p \in Queue, NEW s \in 0..QueueSize - 1, NEW u \in Task
                 PROVE  /\ \A i \in 1..ThreadCount[u] : header'[p][s] = <<u, i>> =>
                             Stored(u, i)' /\ PlaceQueue(u, i)' = p
                               /\ PlaceIndex(u, i)' % QueueSize = s
                        /\ completion'[p][s] = u =>
                             \E i \in DOMAIN places'[u] :
                               PlaceQueue(u, i)' = p /\ PlaceIndex(u, i)' % QueueSize = s
      BY DEF HeadersPlaced
    <2>1. \A i \in 1..ThreadCount[u] : header'[p][s] = <<u, i>> =>
            Stored(u, i)' /\ PlaceQueue(u, i)' = p /\ PlaceIndex(u, i)' % QueueSize = s
      BY <1>1, <1>7, HeaderStays
    <2>2. ASSUME completion'[p][s] = u
          PROVE  \E i \in DOMAIN places'[u] :
                   PlaceQueue(u, i)' = p /\ PlaceIndex(u, i)' % QueueSize = s
      <3>1. CASE p = q /\ s = k % QueueSize
        <4>1. u = t
          BY <1>9, <2>2, <3>1
        <4>2. places'[t][n] = <<q, k>> /\ n \in DOMAIN places'[t]
          BY <1>1, <1>2, <1>3 DEF Place
        <4>3. PlaceQueue(t, n)' = q /\ PlaceIndex(t, n)' = k
          BY <4>2 DEF PlaceQueue, PlaceIndex
        <4>4. QED
          BY <3>1, <4>1, <4>2, <4>3
      <3>2. CASE p # q \/ s # k % QueueSize
        BY <1>7, <1>9, <2>2, <3>2, CompletionStays
      <3>3. QED
        BY <3>1, <3>2
    <2>3. QED
      BY <2>1, <2>2
  <1>12. Undisturbed'
    BY <1>1, <1>7, <1>10, FrameUndisturbed
  <1>13. QED
    BY <1>10, <1>11, <1>12 DEF AgentInv

LEMMA StoreHeaderStep ==
  ASSUME AgentInv, NEW d \in Dispatcher, StoreHeader(d)
  PROVE  AgentInv'
  <1>1. dispatcher[d].at = "header" /\ WritingLeavesUnchanged /\ completion' = completion
          /\ places' = places /\ readIndex' = readIndex /\ worker' = worker /\ ran' = ran
          /\ disturbed' = disturbed
    BY DEF StoreHeader, At, WritingLeavesUnchanged
  <1>2. PICK t \in Task, n \in Nat : /\ t = dispatcher[d].task /\ n = dispatcher[d].next
                                     /\ n \in 1..ThreadCount[t] /\ n \in DOMAIN places[t]
                                     /\ ~At(d, "idle")
    BY <1>1, WritingPlace, AgentAssumption
  <1>3. PICK q \in Queue, k \in Nat : Place(d) = <<q, k>>
    BY <1>1, WritingPlace
  <1>4. PICK c : /\ Moves(d, c) /\ c.task = t /\ c.next \in 1..ThreadCount[t]
                 /\ \/ c.at = "clear" /\ c.next = n + 1
                    \/ c.at = "load" /\ n = ThreadCount[t]
    <2>1. NextPacket(d, "clear", "load") /\ "clear" \in DispatcherLabel /\ "load" \in DispatcherLabel
      BY DEF StoreHeader, DispatcherLabel
    <2>2. PICK k0 : k0 = dispatcher[d].index
      OBVIOUS
    <2>3. \/ n < ThreadCount[t] /\ Moves(d, Control("clear", t, n + 1, k0))
          \/ n = ThreadCount[t] /\ Moves(d, Control("load", t, 1, k0))
      BY <1>2, <2>1, <2>2, NextPacketMoves
    <2>4. ThreadCount[t] \in Nat \ {0}
      BY AgentAssumption
    <2>5. CASE n < ThreadCount[t] /\ Moves(d, Control("clear", t, n + 1, k0))
      <3>1. n + 1 \in 1..ThreadCount[t]
        BY <2>4, <2>5
      <3>2. PICK c : c = Control("clear", t, n + 1, k0)
        OBVIOUS
      <3>3. c.at = "clear" /\ c.task = t /\ c.next = n + 1
        BY <3>2, ControlFields
      <3>4. QED
        BY <2>5, <3>1, <3>2, <3>3
    <2>6. CASE n = ThreadCount[t] /\ Moves(d, Control("load", t, 1, k0))
      <3>1. 1 \in 1..ThreadCount[t]
        BY <2>4
      <3>2. PICK c : c = Control("load", t, 1, k0)
        OBVIOUS
      <3>3. c.at = "load" /\ c.task = t /\ c.next = 1
        BY <3>2, ControlFields
      <3>4. QED
        BY <2>6, <3>1, <3>2, <3>3
    <2>7. QED
      BY <2>3, <2>5, <2>6
  <1>5. \A e \in Dispatcher : e # d => dispatcher[e].task # t
    BY <1>2 DEF AgentInv, DispatchesApart
  <1>6. PlacesGrow
    BY <1>1 DEF PlacesGrow
  <1>7. \A u \in Task : \A i \in Nat : Stored(u, i)' <=> Stored(u, i) \/ (u = t /\ i = n)
    <2> SUFFICES ASSUME NEW u \in Task, NEW i \in Nat
                 PROVE  Stored(u, i)' <=> Stored(u, i) \/ (u = t /\ i = n)
      OBVIOUS
    <2>1. CASE u # t
      BY <1>1, <1>2, <1>4, <2>1, StoredOthers
    <2>2. CASE u = t
      <3>1. Stored(t, i)' <=> HasPlace(t, i) /\ Written(c, i)
        BY <1>1, <1>4, <1>5, StoredOwnNext DEF HasPlace
      <3>2. Stored(t, i) <=> HasPlace(t, i) /\ i < n
        BY <1>1, <1>2, StoredOwn DEF Written
      <3>3. HasPlace(t, i) => i \in 1..ThreadCount[t]
        BY PlacesHaveDispatch DEF HasPlace
      <3>4. HasPlace(t, n)
        BY <1>2 DEF HasPlace
      <3>5. HasPlace(t, i) => (Written(c, i) <=> i < n \/ i = n)
        <4>1. CASE c.at = "clear" /\ c.next = n + 1
          BY <1>2, <4>1 DEF Written
        <4>2. CASE c.at = "load" /\ n = ThreadCount[t]
          BY <1>2, <3>3, <4>2, AgentAssumption DEF Written
        <4>3. QED
          BY <1>4, <4>1, <4>2
      <3>6. QED
        BY <2>2, <3>1, <3>2, <3>4, <3>5
    <2>3. QED
      BY <2>1, <2>2
  <1>8. StoredGrows
    BY <1>7 DEF StoredGrows
  <1>9. <<t, n>> \in Packet
    BY <1>2, PlacesHaveDispatch
  <1>10. /\ header' \in [Queue -> [0..QueueSize - 1 -> Packet \cup {Invalid, Cleared}]]
         /\ header'[q][k % QueueSize] = <<t, n>>
         /\ \A p \in Queue : \A s \in 0..QueueSize - 1 :
              p # q \/ s # k % QueueSize => header'[p][s] = header[p][s]
    <2>1. PICK s \in 0..QueueSize - 1 : s = k % QueueSize
      BY SlotRange
    <2>2. header' = [header EXCEPT ![q][s] = <<t, n>>]
      BY <1>2, <1>3, <2>1 DEF StoreAt, StoreHeader
    <2>3. PICK v \in Packet : v = <<t, n>>
      BY <1>9
    <2>4. header' = [header EXCEPT ![q][s] = v]
      BY <2>2, <2>3
    <2>5. /\ header' \in [Queue -> [0..QueueSize - 1 -> Packet \cup {Invalid, Cleared}]]
          /\ header'[q][s] = v
          /\ \A p \in Queue : \A r \in 0..QueueSize - 1 :
               p # q \/ r # s => header'[p][r] = header[p][r]
      BY <2>4 DEF AgentInv, TypeOK
    <2>6. QED
      BY <2>1, <2>3, <2>5
  <1>11. completion' \in [Queue -> [0..QueueSize - 1 -> Task \cup {NoTask}]]
    BY <1>1 DEF AgentInv, TypeOK
  <1>12. /\ TypeOK'
         /\ DispatchesApart' /\ PlacesCounted' /\ PlacesDistinct' /\ RanInOrder' /\ SignalCovers'
         /\ ReadBehindWrite'
         /\ \A e \in Dispatcher : At(e, "room")' =>
              /\ At(e, "room") /\ dispatcher'[e].index = dispatcher[e].index
              /\ CurrentQueue(e)' = CurrentQueue(e)
         /\ \A e \in Dispatcher : \A p \in Queue : Touches(e, p)' => Touches(e, p)
         /\ \A p \in Queue : \A j \in Int : MayReach(p, j)' => MayReach(p, j)
    BY <1>1, <1>2, <1>4, <1>6, <1>8, <1>10, <1>11, WritingMoves
  <1>13. n \in DOMAIN places'[t] /\ places'[t][n] = <<q, k>> /\ places[t][n] = <<q, k>>
    BY <1>1, <1>2, <1>3 DEF Place
  <1>14. HeadersPlaced'
    <2> SUFFICES ASSUME NEW p \in Queue, NEW s \in 0..QueueSize - 1, NEW u \in Task
                 PROVE  /\ \A i \in 1..ThreadCount[u] : header'[p][s] = <<u, i>> =>
                             Stored(u, i)' /\ PlaceQueue(u, i)' = p
                               /\ PlaceIndex(u, i)' % QueueSize = s
                        /\ completion'[p][s] = u =>
                             \E i \in DOMAIN places'[u] :
                               PlaceQueue(u, i)' = p /\ PlaceIndex(u, i)' % QueueSize = s
      BY DEF HeadersPlaced
    <2>1. ASSUME NEW i \in 1..ThreadCount[u], header'[p][s] = <<u, i>>
          PROVE  Stored(u, i)' /\ PlaceQueue(u, i)' = p /\ PlaceIndex(u, i)' % QueueSize = s
      <3>1. CASE p = q /\ s = k % QueueSize
        <4>1. u = t /\ i = n
          BY <1>10, <2>1, <3>1
        <4>2. Stored(t, n)'
          BY <1>2, <1>7
        <4>3. PlaceQueue(t, n)' = q /\ PlaceIndex(t, n)' = k
          BY <1>13 DEF PlaceQueue, PlaceIndex
        <4>4. QED
          BY <3>1, <4>1, <4>2, <4>3
      <3>2. CASE p # q \/ s # k % QueueSize
        <4>1. header[p][s] = <<u, i>>
          BY <1>10, <2>1, <3>2
        <4>2. QED
          BY <1>6, <1>8, <4>1, HeaderStays
      <3>3. QED
        BY <3>1, <3>2
    <2>2. completion'[p][s] = u =>
            \E i \in DOMAIN places'[u] :
              PlaceQueue(u, i)' = p /\ PlaceIndex(u, i)' % QueueSize = s
      BY <1>1, <1>6, CompletionStays
    <2>3. QED
      BY <2>1, <2>2
  <1>15. Undisturbed'
    <2> SUFFICES ASSUME NEW p \in Queue, p \notin disturbed
                 PROVE  /\ \A e, f \in Dispatcher : Touches(e, p)' /\ Touches(f, p)' => e = f
                        /\ \A e \in Dispatcher : At(e, "room")' /\ CurrentQueue(e)' = p =>
                             ~MayReach(p, dispatcher[e].index)'
                        /\ QueueUndisturbed(p)'
      BY <1>1 DEF Undisturbed, QueueUndisturbed
    <2>1. \A e, f \in Dispatcher : Touches(e, p)' /\ Touches(f, p)' => e = f
      BY <1>12 DEF AgentInv, Undisturbed
    <2>2. ASSUME NEW e \in Dispatcher, NEW j \in Int,
                 At(e, "room")', CurrentQueue(e)' = p, dispatcher'[e].index = j
          PROVE  ~MayReach(p, j)'
      BY <1>12, <2>2 DEF AgentInv, Undisturbed
    <2>3. ASSUME NEW u \in Task, NEW i \in DOMAIN places'[u], NEW j \in Nat,
                 places'[u][i] = <<p, j>>
          PROVE  /\ MayReach(p, j)' => Stored(u, i)'
                 /\ j < readIndex'[p] => <<u, i>> \in ran'
                 /\ j = readIndex'[p] /\ worker'[p] = "signal" => <<u, i>> \in ran'
                 /\ Stored(u, i)' /\ <<u, i>> \notin ran' => header'[p][j % QueueSize] = <<u, i>>
      <3>1. i \in DOMAIN places[u] /\ places[u][i] = <<p, j>>
        BY <1>1, <2>3
      <3>2. /\ i \in Nat
            /\ MayReach(p, j) => Stored(u, i)
            /\ j < readIndex[p] => <<u, i>> \in ran
            /\ j = readIndex[p] /\ worker[p] = "signal" => <<u, i>> \in ran
            /\ Stored(u, i) /\ <<u, i>> \notin ran => header[p][j % QueueSize] = <<u, i>>
        BY <3>1, UndisturbedAt
      <3>3. Stored(u, i) => Stored(u, i)'
        BY <1>7, <3>2
      <3>4. ASSUME Stored(u, i)', <<u, i>> \notin ran
            PROVE  header'[p][j % QueueSize] = <<u, i>>
        <4>1. CASE u = t /\ i = n
          <5>1. p = q /\ j = k
            BY <1>13, <3>1, <4>1
          <5>2. QED
            BY <1>10, <4>1, <5>1
        <4>2. CASE Stored(u, i)
          <5>1. p # q \/ j % QueueSize # k % QueueSize
            BY <1>1, <1>3, <3>1, <3>4, <4>2, SlotIsOwn
          <5>2. QED
            BY <1>10, <3>2, <3>4, <4>2, <5>1, SlotRange
        <4>3. QED
          BY <1>7, <3>2, <3>4, <4>1, <4>2
      <3>5. QED
        BY <1>1, <1>12, <3>2, <3>3, <3>4
    <2>4. QED
      BY <1>12, <2>1, <2>2, <2>3, UndisturbedBy
  <1>16. QED
    BY <1>12, <1>14, <1>15 DEF AgentInv

LEMMA AcquireStep ==
  ASSUME AgentInv, NEW d \in Dispatcher, NEW t \in Task, AcquireAqlPacket(d, t)
  PROVE  AgentInv'
  <1>1. /\ dispatcher[d].at = "idle" /\ finalizer.at = "none" /\ places[t] = <<>>
        /\ \A e \in Dispatcher : dispatcher[e].task # t
        /\ readyqMutex = NoThread /\ readyqMutex' = d
        /\ UNCHANGED <<writeIndex, readIndex, header, completion, doorbell, workerSig, worker,
                       places, ran, finalizer, disturbed>>
    BY DEF AcquireAqlPacket, At, queueVars
  <1>2. PICK c : c = Control("reserve", t, 1, 0)
    OBVIOUS
  <1>3. c.at = "reserve" /\ c.task = t /\ c.next = 1
    BY <1>2, ControlFields
  <1>4. Moves(d, c)
    BY <1>2, AcquireMoves
  <1>5. /\ dispatcher'[d] = c
        /\ \A e \in Dispatcher : e # d => dispatcher'[e] = dispatcher[e]
        /\ dispatcher' \in [Dispatcher -> DispatcherType]
    BY <1>4 DEF Moves
  <1>6. PICK m \in Nat \ {0} : m = ThreadCount[t]
    BY AgentAssumption
  <1>7. /\ signalValue' \in [Task -> Int] /\ signalValue'[t] = signalValue[t] + m
        /\ \A u \in Task : u # t => signalValue'[u] = signalValue[u]
    BY <1>6 DEF AcquireAqlPacket, AgentInv, TypeOK
  <1>8. TypeOK'
    BY <1>1, <1>5, <1>7 DEF AgentInv, TypeOK, DispatcherType
  <1>9. dispatcher[d].task = NoTask
    BY <1>1 DEF AgentInv, DispatchesApart, At, TypeOK
  <1>10. DispatchesApart'
    <2>1. \A e \in Dispatcher : readyqMutex # e
      BY <1>1, AgentAssumption
    <2>2. c.at # "idle" /\ c.at \in Reserving /\ c.next \in 1..ThreadCount[t]
      BY <1>3, <1>6 DEF Reserving
    <2>3. QED
      BY <1>1, <1>3, <1>4, <2>1, <2>2, ApartMoves
  <1>11. PlacesCounted'
    <2>1. Len(places'[t]) = c.next - 1 /\ Len(places'[t]) <= ThreadCount[t]
      BY <1>1, <1>3, <1>6
    <2>2. c.at \in Reserving /\ c.at # "idle"
      BY <1>3 DEF Reserving
    <2>3. QED
      BY <1>1, <1>3, <1>4, <1>9, <1>10, <2>1, <2>2, CountedMoves
  <1>12. StoredSame /\ StoredGrows /\ PlacesGrow
    <2>1. ASSUME NEW u \in Task, NEW i \in Nat
          PROVE  Stored(u, i)' <=> Stored(u, i)
      <3>1. CASE u # t
        BY <1>1, <1>3, <1>4, <1>9, <3>1, StoredOthers
      <3>2. CASE u = t
        BY <1>1, <3>2 DEF Stored, HasPlace
      <3>3. QED
        BY <3>1, <3>2
    <2>2. QED
      BY <1>1, <2>1 DEF StoredSame, StoredGrows, PlacesGrow
  <1>13. ReadersAdvance /\ \A p \in Queue : writeIndex'[p] >= writeIndex[p]
    BY <1>1 DEF AgentInv, TypeOK, ReadersAdvance
  <1>14. \A e \in Dispatcher : \A l \in {"room", "ring", "signal"} : At(e, l)' =>
           /\ At(e, l) /\ dispatcher'[e].index = dispatcher[e].index
           /\ CurrentQueue(e)' = CurrentQueue(e)
    <2> SUFFICES ASSUME NEW e \in Dispatcher, NEW l \in {"room", "ring", "signal"}, At(e, l)'
                 PROVE  /\ At(e, l) /\ dispatcher'[e].index = dispatcher[e].index
                        /\ CurrentQueue(e)' = CurrentQueue(e)
      OBVIOUS
    <2>1. e # d
      BY <1>3, <1>5 DEF At
    <2>2. dispatcher'[e] = dispatcher[e]
      BY <1>5, <2>1
    <2>3. QED
      BY <2>2 DEF At, CurrentQueue
  <1>15. PlacesDistinct'
    BY <1>1, <1>8, <1>13, <1>14, FrameDistinct
  <1>16. HeadersPlaced'
    BY <1>1, <1>12, FrameHeaders
  <1>17. RanInOrder'
    BY <1>1, <1>8, <1>12, <1>13, FrameRan
  <1>18. \A p \in Queue : Rung(p)' => Rung(p)
    BY <1>1, <1>14 DEF Rung
  <1>19. ReadBehindWrite'
    BY <1>1, <1>8, <1>13, <1>14, <1>18, FrameReads
  <1>20. SignalCovers'
    <2> SUFFICES ASSUME NEW u \in Task
                 PROVE  /\ signalValue'[u] >= 0
                        /\ (places'[u] # <<>> \/ \E e \in Dispatcher : dispatcher'[e].task = u) =>
                             signalValue'[u] >= Cardinality(Pending(u)')
      BY DEF SignalCovers
    <2>1. /\ signalValue[u] \in Int /\ signalValue[u] >= 0
          /\ (places[u] # <<>> \/ \E e \in Dispatcher : dispatcher[e].task = u) =>
               signalValue[u] >= Cardinality(Pending(u))
      BY DEF AgentInv, SignalCovers, TypeOK
    <2>2. Pending(u)' = Pending(u)
      BY <1>1 DEF Pending, HasPlace, PlaceIndex, PlaceQueue
    <2>3. CASE u # t
      <3>1. (\E e \in Dispatcher : dispatcher'[e].task = u) =>
              \E e \in Dispatcher : dispatcher[e].task = u
        BY <1>3, <1>5, <2>3
      <3>2. signalValue'[u] = signalValue[u] /\ places'[u] = places[u]
        BY <1>1, <1>7, <2>3
      <3>3. QED
        BY <2>1, <2>2, <3>1, <3>2
    <2>4. CASE u = t
      <3>1. Cardinality(Pending(t)) \in 0..m
        BY <1>6, PendingFinite
      <3>2. signalValue[t] + m >= 0 /\ signalValue[t] + m >= Cardinality(Pending(t))
        BY <2>1, <2>4, <3>1
      <3>3. QED
        BY <1>7, <2>2, <2>4, <3>2
    <2>5. QED
      BY <2>3, <2>4
  <1>21. \A e \in Dispatcher : \A p \in Queue : Touches(e, p)' => Touches(e, p)
    <2> SUFFICES ASSUME NEW e \in Dispatcher, NEW p \in Queue, Touches(e, p)'
                 PROVE  Touches(e, p)
      OBVIOUS
    <2>1. CASE e = d
      <3>1. DOMAIN places[t] = {}
        BY <1>1
      <3>2. ~Touches(d, p)'
        BY <1>1, <1>3, <1>5, <3>1 DEF Touches, At
      <3>3. QED
        BY <2>1, <3>2
    <2>2. CASE e # d
      <3>1. dispatcher'[e] = dispatcher[e]
        BY <1>5, <2>2
      <3>2. QED
        BY <1>1, <3>1 DEF Touches, At, CurrentQueue, PlaceQueue
    <2>3. QED
      BY <2>1, <2>2
  <1>22. Undisturbed'
    <2>1. \A p \in Queue : \A k \in Int : MayReach(p, k)' => MayReach(p, k)
      BY <1>1, <1>18 DEF MayReach
    <2>2. QED
      BY <1>1, <1>12, <1>14, <1>21, <2>1, FrameUndisturbed
  <1>23. QED
    BY <1>8, <1>10, <1>11, <1>15, <1>16, <1>17, <1>19, <1>20, <1>22 DEF AgentInv

LEMMA ReserveIndexStep ==
  ASSUME AgentInv, NEW d \in Dispatcher, ReserveIndex(d)
  PROVE  AgentInv'
  <1>1. /\ dispatcher[d].at = "reserve" /\ ~At(d, "idle") /\ dispatcher[d].at \in Reserving
        /\ UNCHANGED <<readIndex, header, completion, doorbell, workerSig, worker, readyqMutex,
                       places, signalValue, ran, finalizer>>
    BY DEF ReserveIndex, At, Reserving
  <1>2. PICK t \in Task, n \in Nat : /\ t = dispatcher[d].task /\ n = dispatcher[d].next
                                     /\ n \in 1..ThreadCount[t]
    BY <1>1, AtWork, AgentAssumption
  <1>3. PICK q \in Queue, w \in Nat : q = CurrentQueue(d) /\ w = writeIndex[q]
    BY <1>1, AtWork DEF AgentInv, TypeOK
  <1>4. PICK c : c = Control("room", dispatcher[d].task, dispatcher[d].next, w)
    OBVIOUS
  <1>5. c.at = "room" /\ c.task = t /\ c.next = n /\ c.index = w
    BY <1>2, <1>4, ControlFields
  <1>6. Moves(d, c)
    <2>1. Goto(d, "room", w) /\ "room" \in DispatcherLabel
      BY <1>3 DEF ReserveIndex, DispatcherLabel
    <2>2. QED
      BY <1>4, <2>1, GotoMoves
  <1>7. /\ dispatcher'[d] = c
        /\ \A e \in Dispatcher : e # d => dispatcher'[e] = dispatcher[e]
        /\ dispatcher' \in [Dispatcher -> DispatcherType]
    BY <1>6 DEF Moves
  <1>8. /\ writeIndex' \in [Queue -> Nat] /\ writeIndex'[q] = w + 1
        /\ \A p \in Queue : p # q => writeIndex'[p] = writeIndex[p]
    BY <1>3 DEF ReserveIndex, AgentInv, TypeOK
  <1>9. /\ disturbed' \subseteq Queue /\ disturbed \subseteq disturbed'
        /\ q \notin disturbed' => ~Overlaps(d, q)
    BY <1>3 DEF ReserveIndex, AgentInv, TypeOK
  <1>10. TypeOK'
    BY <1>1, <1>7, <1>8, <1>9 DEF AgentInv, TypeOK, DispatcherType
  <1>11. DispatchesApart'
    <2>1. c.at # "idle" /\ c.at \in Reserving /\ readyqMutex' = d /\ finalizer.at = "none"
      BY <1>1, <1>5 DEF Reserving, AgentInv, DispatchesApart
    <2>2. \A e \in Dispatcher : e # d => dispatcher[e].task # t
      BY <1>1, <1>2 DEF AgentInv, DispatchesApart
    <2>3. QED
      BY <1>1, <1>2, <1>5, <1>6, <2>1, <2>2, ApartMoves
  <1>12. PlacesCounted'
    <2>1. c.at # "idle" /\ c.at \in Reserving
      BY <1>5 DEF Reserving
    <2>2. Len(places'[t]) = c.next - 1 /\ Len(places'[t]) <= ThreadCount[t]
      BY <1>1, <1>2, <1>5 DEF AgentInv, PlacesCounted
    <2>3. QED
      BY <1>1, <1>2, <1>5, <1>6, <1>11, <2>1, <2>2, CountedMoves
  <1>13. StoredSame /\ StoredGrows /\ PlacesGrow
    BY <1>1, <1>2, <1>5, <1>6, StoredStays DEF Written
  <1>14. ReadersAdvance /\ \A p \in Queue : writeIndex'[p] >= writeIndex[p]
    <2>1. \A p \in Queue : readIndex[p] \in Nat /\ writeIndex[p] \in Nat
      BY DEF AgentInv, TypeOK
    <2>2. \A p \in Queue : writeIndex'[p] >= writeIndex[p]
      BY <1>3, <1>8, <2>1
    <2>3. \A p \in Queue : readIndex'[p] >= readIndex[p]
      BY <1>1, <2>1
    <2>4. QED
      BY <2>2, <2>3 DEF ReadersAdvance
  <1>15. \A e \in Dispatcher : e # d =>
           dispatcher'[e] = dispatcher[e] /\ CurrentQueue(e)' = CurrentQueue(e)
    BY <1>7 DEF CurrentQueue
  <1>16. CurrentQueue(d)' = q
    BY <1>2, <1>3, <1>5, <1>7 DEF CurrentQueue
  <1>17. PlacesDistinct'
    <2>1. ASSUME NEW u \in Task, NEW i \in DOMAIN places[u]
          PROVE  places[u][i] # <<q, w>>
      <3>1. PlaceIndex(u, i) < writeIndex[PlaceQueue(u, i)]
        BY DEF AgentInv, PlacesDistinct
      <3>2. places[u][i] = <<q, w>> => w < w
        BY <1>3, <3>1 DEF PlaceIndex, PlaceQueue
      <3>3. QED
        BY <3>2
    <2>2. w \in 0..writeIndex'[q] - 1
      BY <1>8
    <2>3. ASSUME NEW e \in Dispatcher, At(e, "room")'
          PROVE  \/ /\ At(e, "room") /\ dispatcher'[e].index = dispatcher[e].index
                    /\ CurrentQueue(e)' = CurrentQueue(e)
                 \/ /\ dispatcher'[e].index \in 0..writeIndex'[CurrentQueue(e)'] - 1
                    /\ \A u \in Task : \A i \in DOMAIN places'[u] :
                         places'[u][i] # <<CurrentQueue(e)', dispatcher'[e].index>>
      <3>1. CASE e = d
        BY <1>1, <1>5, <1>7, <1>16, <2>1, <2>2, <3>1
      <3>2. CASE e # d
        BY <1>15, <2>3, <3>2 DEF At
      <3>3. QED
        BY <3>1, <3>2
    <2>4. QED
      BY <1>1, <1>10, <1>14, <2>3, FrameDistinct
  <1>18. HeadersPlaced'
    BY <1>1, <1>13, FrameHeaders
  <1>19. RanInOrder'
    BY <1>1, <1>10, <1>13, <1>14, FrameRan
  <1>20. SignalCovers'
    <2>1. \A u \in Task : (\E e \in Dispatcher : dispatcher'[e].task = u) =>
            \E e \in Dispatcher : dispatcher[e].task = u
      BY <1>2, <1>5, <1>7
    <2>2. QED
      BY <1>1, <1>10, <1>13, <1>14, <2>1, FrameSignal
  <1>21. \A p \in Queue : Rung(p)' => Rung(p)
    <2>1. \A e \in Dispatcher : At(e, "signal")' => At(e, "signal") /\ e # d
      BY <1>5, <1>7 DEF At
    <2>2. QED
      BY <1>1, <1>15, <2>1 DEF Rung
  <1>22. ReadBehindWrite'
    <2>1. \A e \in Dispatcher : At(e, "ring")' => At(e, "ring") /\ e # d
      BY <1>5, <1>7 DEF At
    <2>2. QED
      BY <1>1, <1>10, <1>14, <1>15, <1>21, <2>1, FrameReads
  <1>23. Undisturbed'
    <2> SUFFICES ASSUME NEW p \in Queue, p \notin disturbed'
                 PROVE  /\ \A e, f \in Dispatcher : Touches(e, p)' /\ Touches(f, p)' => e = f
                        /\ \A e \in Dispatcher : At(e, "room")' /\ CurrentQueue(e)' = p =>
                             ~MayReach(p, dispatcher[e].index)'
                        /\ QueueUndisturbed(p)'
      BY DEF Undisturbed, QueueUndisturbed
    <2>1. p \notin disturbed
      BY <1>9
    <2>2. \A k \in Int : MayReach(p, k)' => MayReach(p, k)
      BY <1>1, <1>21 DEF MayReach
    <2>3. ASSUME NEW e \in Dispatcher, Touches(e, p)'
          PROVE  (e = d /\ p = q) \/ Touches(e, p)
      <3>1. CASE e = d /\ p # q
        <4>1. \E i \in DOMAIN places[t] : PlaceQueue(t, i) = p
          BY <1>1, <1>5, <1>7, <1>16, <2>3, <3>1 DEF Touches, PlaceQueue
        <4>2. QED
          BY <1>1, <1>2, <3>1, <4>1 DEF Touches
      <3>2. CASE e # d
        BY <1>1, <1>15, <2>3, <3>2 DEF Touches, At, PlaceQueue
      <3>3. QED
        BY <3>1, <3>2
    <2>4. ASSUME NEW e \in Dispatcher, e # d, Touches(e, p), p = q
          PROVE  FALSE
      <3>1. ~At(e, "idle")
        BY <2>4 DEF Touches, At
      <3>2. /\ dispatcher[e].task \in Task
            /\ dispatcher[e].next \in 1..ThreadCount[dispatcher[e].task]
        BY <3>1, AtWork
      <3>3. \E i \in 1..ThreadCount[dispatcher[e].task] : QueueOf(dispatcher[e].task, i) = q
        <4>1. CASE At(e, "room") /\ CurrentQueue(e) = q
          BY <3>2, <4>1 DEF CurrentQueue
        <4>2. CASE \E i \in DOMAIN places[dispatcher[e].task] :
                     PlaceQueue(dispatcher[e].task, i) = q
          BY <3>2, <4>2, PlacesHaveDispatch
        <4>3. QED
          BY <2>4, <4>1, <4>2 DEF Touches
      <3>4. Overlaps(d, q)
        BY <2>4, <3>2, <3>3, AgentAssumption DEF Overlaps
      <3>5. QED
        BY <1>9, <2>4, <3>4
    <2>5. \A e, f \in Dispatcher : Touches(e, p)' /\ Touches(f, p)' => e = f
      <3> SUFFICES ASSUME NEW e \in Dispatcher, NEW f \in Dispatcher,
                          Touches(e, p)', Touches(f, p)'
                   PROVE  e = f
        OBVIOUS
      <3>1. CASE p = q
        BY <2>3, <2>4, <3>1
      <3>2. CASE p # q
        <4>1. Touches(e, p) /\ Touches(f, p)
          BY <2>3, <3>2
        <4>2. QED
          BY <2>1, <4>1 DEF AgentInv, Undisturbed
      <3>3. QED
        BY <3>1, <3>2
    <2>6. ASSUME NEW e \in Dispatcher, NEW j \in Int,
                 At(e, "room")', CurrentQueue(e)' = p, dispatcher'[e].index = j
          PROVE  ~MayReach(p, j)'
      <3>1. CASE e # d
        <4>1. At(e, "room") /\ CurrentQueue(e) = p /\ dispatcher[e].index = j
          BY <1>15, <2>6, <3>1 DEF At
        <4>2. QED
          BY <2>1, <2>2, <4>1 DEF AgentInv, Undisturbed
      <3>2. CASE e = d
        <4>1. p = q /\ j = w
          BY <1>5, <1>7, <1>16, <2>6, <3>2
        <4>2. readIndex[q] \in Nat /\ doorbell[q] \in Nat
          BY DEF AgentInv, TypeOK
        <4>3. /\ readIndex[q] <= w
              /\ worker[q] \in Reading => readIndex[q] < w
              /\ Rung(q) => doorbell[q] < w \/ doorbell[q] = IntMax
          BY <1>3 DEF AgentInv, ReadBehindWrite
        <4>4. ~(w < readIndex[q]) /\ ~(w = readIndex[q] /\ worker[q] \in Reading)
          BY <4>2, <4>3
        <4>5. ~(Rung(q) /\ doorbell[q] # IntMax /\ w <= doorbell[q])
          BY <4>2, <4>3
        <4>6. ~MayReach(q, w)
          BY <4>4, <4>5 DEF MayReach
        <4>7. QED
          BY <2>2, <4>1, <4>6
      <3>3. QED
        BY <3>1, <3>2
    <2>7. ASSUME NEW u \in Task, NEW i \in DOMAIN places'[u], NEW j \in Nat,
                 places'[u][i] = <<p, j>>
          PROVE  /\ MayReach(p, j)' => Stored(u, i)'
                 /\ j < readIndex'[p] => <<u, i>> \in ran'
                 /\ j = readIndex'[p] /\ worker'[p] = "signal" => <<u, i>> \in ran'
                 /\ Stored(u, i)' /\ <<u, i>> \notin ran' => header'[p][j % QueueSize] = <<u, i>>
      <3>1. i \in DOMAIN places[u] /\ places[u][i] = <<p, j>>
        BY <1>1, <2>7
      <3>2. /\ i \in Nat
            /\ MayReach(p, j) => Stored(u, i)
            /\ j < readIndex[p] => <<u, i>> \in ran
            /\ j = readIndex[p] /\ worker[p] = "signal" => <<u, i>> \in ran
            /\ Stored(u, i) /\ <<u, i>> \notin ran => header[p][j % QueueSize] = <<u, i>>
        BY <2>1, <3>1, UndisturbedAt
      <3>3. Stored(u, i)' <=> Stored(u, i)
        BY <1>13, <3>2 DEF StoredSame
      <3>4. QED
        BY <1>1, <2>2, <3>2, <3>3
    <2>8. QED
      BY <1>10, <2>5, <2>6, <2>7, UndisturbedBy
  <1>24. QED
    BY <1>10, <1>11, <1>12, <1>17, <1>18, <1>19, <1>20, <1>22, <1>23 DEF AgentInv

LEMMA FindRoomStep ==
  ASSUME AgentInv, NEW d \in Dispatcher, FindRoom(d)
  PROVE  AgentInv'
  <1>1. /\ dispatcher[d].at = "room" /\ At(d, "room") /\ ~At(d, "idle")
        /\ dispatcher[d].at \in Reserving /\ readyqMutex = d /\ finalizer.at = "none"
        /\ UNCHANGED <<writeIndex, readIndex, header, completion, doorbell, workerSig, worker,
                       signalValue, ran, finalizer, disturbed>>
    BY DEF FindRoom, At, Reserving, queueVars, AgentInv, DispatchesApart
  <1>2. PICK t \in Task, n \in Nat, m \in Nat :
          /\ t = dispatcher[d].task /\ n = dispatcher[d].next /\ m = ThreadCount[t]
          /\ n \in 1..m
    BY <1>1, AtWork, AgentAssumption
  <1>3. PICK q \in Queue, k \in Int : q = CurrentQueue(d) /\ k = dispatcher[d].index
    BY <1>1, AtWork DEF DispatcherType
  <1>4. /\ k \in 0..writeIndex[q] - 1
        /\ \A u \in Task : \A i \in DOMAIN places[u] : places[u][i] # <<q, k>>
    BY <1>1, <1>3 DEF AgentInv, PlacesDistinct
  <1>5. k \in Nat /\ k < writeIndex[q] /\ k < readIndex[q] + QueueSize
    <2>1. writeIndex[q] \in Nat /\ readIndex[q] \in Nat /\ QueueSize \in Nat
      BY AgentAssumption DEF AgentInv, TypeOK
    <2>2. k - readIndex[q] < QueueSize
      BY <1>3 DEF FindRoom, Room
    <2>3. QED
      BY <1>4, <2>1, <2>2
  <1>6. PICK ps \in Seq(Queue \X Nat) : ps = places[t] /\ Len(ps) = n - 1
    BY <1>1, <1>2 DEF AgentInv, TypeOK, PlacesCounted
  <1>7. PICK qs : qs = Append(ps, <<q, k>>)
    OBVIOUS
  <1>8. /\ qs \in Seq(Queue \X Nat) /\ Len(qs) = n /\ DOMAIN qs = 1..n /\ qs[n] = <<q, k>>
        /\ \A i \in DOMAIN ps : i \in 1..n /\ i # n /\ qs[i] = ps[i]
        /\ \A i \in 1..n : i # n => i \in DOMAIN ps
    <2>1. PICK x \in Queue \X Nat : x = <<q, k>>
      BY <1>5
    <2>2. qs = Append(ps, x) /\ DOMAIN ps = 1..n - 1
      BY <1>2, <1>6, <1>7, <2>1
    <2>3. qs \in Seq(Queue \X Nat) /\ Len(qs) = Len(ps) + 1 /\ qs[Len(ps) + 1] = x
            /\ \A i \in 1..Len(ps) : qs[i] = ps[i]
      BY <2>2
    <2>4. Len(qs) = n /\ qs[n] = x
      BY <1>2, <1>6, <2>3
    <2>5. DOMAIN qs = 1..n
      BY <2>3, <2>4
    <2>6. \A i \in DOMAIN ps : i \in 1..n /\ i # n /\ qs[i] = ps[i]
      BY <1>2, <1>6, <2>2, <2>3
    <2>7. \A i \in 1..n : i # n => i \in DOMAIN ps
      BY <1>2, <2>2
    <2>8. QED
      BY <2>1, <2>3, <2>4, <2>5, <2>6, <2>7
  <1>9. /\ places' \in [Task -> Seq(Queue \X Nat)] /\ places'[t] = qs
        /\ \A u \in Task : u # t => places'[u] = places[u]
    BY <1>2, <1>3, <1>6, <1>7, <1>8 DEF FindRoom, AgentInv, TypeOK
  <1>10. PICK c : /\ Moves(d, c) /\ c.task = t /\ c.next \in 1..m
                  /\ \/ c.at = "reserve" /\ c.next = n + 1 /\ n # m /\ readyqMutex' = d
                     \/ c.at = "clear" /\ c.next = 1 /\ n = m /\ readyqMutex' = NoThread
    <2>1. NextPacket(d, "reserve", "clear") /\ "reserve" \in DispatcherLabel
            /\ "clear" \in DispatcherLabel
            /\ readyqMutex' = IF n = m THEN NoThread ELSE d
      BY <1>2 DEF FindRoom, DispatcherLabel
    <2>2. \/ n < m /\ Moves(d, Control("reserve", t, n + 1, k))
          \/ n = m /\ Moves(d, Control("clear", t, 1, k))
      BY <1>1, <1>2, <1>3, <2>1, NextPacketMoves
    <2>3. CASE n < m /\ Moves(d, Control("reserve", t, n + 1, k))
      <3>1. n + 1 \in 1..m /\ n # m
        BY <1>2, <2>3
      <3>2. PICK c : c = Control("reserve", t, n + 1, k)
        OBVIOUS
      <3>3. c.at = "reserve" /\ c.task = t /\ c.next = n + 1
        BY <3>2, ControlFields
      <3>4. QED
        BY <2>1, <2>3, <3>1, <3>2, <3>3
    <2>4. CASE n = m /\ Moves(d, Control("clear", t, 1, k))
      <3>1. 1 \in 1..m
        BY <1>2
      <3>2. PICK c : c = Control("clear", t, 1, k)
        OBVIOUS
      <3>3. c.at = "clear" /\ c.task = t /\ c.next = 1
        BY <3>2, ControlFields
      <3>4. QED
        BY <2>1, <2>4, <3>1, <3>2, <3>3
    <2>5. QED
      BY <2>2, <2>3, <2>4
  <1>11. /\ dispatcher'[d] = c
         /\ \A e \in Dispatcher : e # d => dispatcher'[e] = dispatcher[e]
         /\ dispatcher' \in [Dispatcher -> DispatcherType]
    BY <1>10 DEF Moves
  <1>12. TypeOK'
    BY <1>1, <1>9, <1>10, <1>11 DEF AgentInv, TypeOK, DispatcherType
  <1>13. \A e \in Dispatcher : e # d => dispatcher[e].task # t /\ dispatcher[e].at \notin Reserving
    BY <1>1, <1>2 DEF AgentInv, DispatchesApart
  <1>14. DispatchesApart'
    <2>1. c.at # "idle" /\ (c.at \in Reserving <=> readyqMutex' = d)
      BY <1>10, AgentAssumption DEF Reserving
    <2>2. \A e \in Dispatcher : e # d => (readyqMutex' = e <=> readyqMutex = e)
      BY <1>1, <1>10, AgentAssumption
    <2>3. QED
      BY <1>1, <1>2, <1>10, <1>13, <2>1, <2>2, ApartMoves
  <1>15. PlacesCounted'
    <2>1. Len(places'[t]) = IF c.at \in Reserving THEN c.next - 1 ELSE ThreadCount[t]
      BY <1>2, <1>8, <1>9, <1>10, SMTT(30) DEF Reserving
    <2>2. Len(places'[t]) <= ThreadCount[t] /\ c.at # "idle"
      BY <1>2, <1>8, <1>9, <1>10
    <2>3. QED
      BY <1>2, <1>9, <1>10, <1>14, <2>1, <2>2, CountedMoves
  <1>16. PlacesGrow
    BY <1>6, <1>8, <1>9 DEF PlacesGrow
  <1>17. StoredSame /\ StoredGrows
    <2>1. ASSUME NEW u \in Task, NEW i \in Nat
          PROVE  Stored(u, i)' <=> Stored(u, i)
      <3>1. CASE u # t
        BY <1>2, <1>9, <1>10, <3>1, StoredOthers
      <3>2. CASE u = t
        <4>1. ~Stored(t, i)
          BY <1>1, <1>2, StoredOwn DEF Written
        <4>2. HasPlace(t, i)' => i >= 1
          BY <1>8, <1>9 DEF HasPlace
        <4>3. HasPlace(t, i)' => ~Written(c, i)
          BY <1>10, <4>2 DEF Written
        <4>4. ~Stored(t, i)'
          BY <1>10, <1>13, <4>3, StoredOwnNext
        <4>5. QED
          BY <3>2, <4>1, <4>4
      <3>3. QED
        BY <3>1, <3>2
    <2>2. QED
      BY <2>1 DEF StoredSame, StoredGrows
  <1>18. ReadersAdvance /\ \A p \in Queue : writeIndex'[p] >= writeIndex[p]
    BY <1>1 DEF AgentInv, TypeOK, ReadersAdvance
  <1>19. \A e \in Dispatcher : dispatcher'[e].at # "room"
    BY <1>10, <1>11, <1>13 DEF Reserving
  <1>20. \A u \in Task : \A i \in DOMAIN places'[u] :
           \/ i \in DOMAIN places[u] /\ places'[u][i] = places[u][i]
           \/ u = t /\ i = n /\ places'[u][i] = <<q, k>>
    BY <1>6, <1>8, <1>9
  <1>21. PlacesDistinct'
    <2>1. ASSUME NEW u \in Task, NEW i \in DOMAIN places'[u]
          PROVE  /\ PlaceQueue(u, i)' = QueueOf(u, i)
                 /\ PlaceIndex(u, i)' < writeIndex'[PlaceQueue(u, i)']
                 /\ PlaceIndex(u, i)' < readIndex'[PlaceQueue(u, i)'] + QueueSize
      <3>1. CASE i \in DOMAIN places[u] /\ places'[u][i] = places[u][i]
        <4>1. PlaceQueue(u, i)' = PlaceQueue(u, i) /\ PlaceIndex(u, i)' = PlaceIndex(u, i)
          BY <3>1 DEF PlaceQueue, PlaceIndex
        <4>2. QED
          BY <1>1, <3>1, <4>1 DEF AgentInv, PlacesDistinct
      <3>2. CASE u = t /\ i = n /\ places'[u][i] = <<q, k>>
        <4>1. PlaceQueue(u, i)' = q /\ PlaceIndex(u, i)' = k
          BY <3>2 DEF PlaceQueue, PlaceIndex
        <4>2. QueueOf(u, i) = q
          BY <1>2, <1>3, <3>2 DEF CurrentQueue
        <4>3. QED
          BY <1>1, <1>5, <4>1, <4>2
      <3>3. QED
        BY <1>20, <3>1, <3>2
    <2>2. ASSUME NEW u \in Task, NEW v \in Task, NEW i \in DOMAIN places'[u],
                 NEW j \in DOMAIN places'[v], places'[u][i] = places'[v][j]
          PROVE  u = v /\ i = j
      <3>1. CASE /\ i \in DOMAIN places[u] /\ places'[u][i] = places[u][i]
                 /\ j \in DOMAIN places[v] /\ places'[v][j] = places[v][j]
        <4>1. places[u][i] = places[v][j] /\ PlacesDistinct
          BY <2>2, <3>1 DEF AgentInv
        <4>2. QED
          BY <3>1, <4>1 DEF PlacesDistinct
      <3>2. QED
        BY <1>4, <1>20, <2>2, <3>1
    <2>3. QED
      BY <1>19, <2>1, <2>2 DEF PlacesDistinct, At
  <1>22. HeadersPlaced'
    BY <1>1, <1>16, <1>17, FrameHeaders
  <1>23. RanInOrder'
    BY <1>1, <1>12, <1>16, <1>17, <1>18, FrameRan
  <1>24. SignalCovers'
    <2>1. \A u \in Task : (places'[u] # <<>> \/ \E e \in Dispatcher : dispatcher'[e].task = u) =>
            (places[u] # <<>> \/ \E e \in Dispatcher : dispatcher[e].task = u)
      <3> SUFFICES ASSUME NEW u \in Task, u # t,
                          places'[u] # <<>> \/ \E e \in Dispatcher : dispatcher'[e].task = u
                   PROVE  places[u] # <<>> \/ \E e \in Dispatcher : dispatcher[e].task = u
        BY <1>2
      <3>1. \A e \in Dispatcher : dispatcher'[e].task = u => dispatcher[e].task = u
        BY <1>10, <1>11
      <3>2. places'[u] = places[u]
        BY <1>9
      <3>3. QED
        BY <3>1, <3>2
    <2>2. QED
      BY <1>1, <1>12, <1>16, <1>18, <2>1, FrameSignal
  <1>25. \A e \in Dispatcher : \A l \in {"ring", "signal"} : At(e, l)' =>
           /\ At(e, l) /\ dispatcher'[e].index = dispatcher[e].index
           /\ CurrentQueue(e)' = CurrentQueue(e)
    <2> SUFFICES ASSUME NEW e \in Dispatcher, NEW l \in {"ring", "signal"}, At(e, l)'
                 PROVE  /\ At(e, l) /\ dispatcher'[e].index = dispatcher[e].index
                        /\ CurrentQueue(e)' = CurrentQueue(e)
      OBVIOUS
    <2>1. e # d
      BY <1>10, <1>11 DEF At
    <2>2. dispatcher'[e] = dispatcher[e]
      BY <1>11, <2>1
    <2>3. QED
      BY <2>2 DEF At, CurrentQueue
  <1>26. \A p \in Queue : Rung(p)' => Rung(p)
    BY <1>1, <1>25 DEF Rung
  <1>27. ReadBehindWrite'
    BY <1>1, <1>12, <1>18, <1>25, <1>26, FrameReads
  <1>28. Undisturbed'
    <2> SUFFICES ASSUME NEW p \in Queue, p \notin disturbed
                 PROVE  /\ \A e, f \in Dispatcher : Touches(e, p)' /\ Touches(f, p)' => e = f
                        /\ \A e \in Dispatcher : At(e, "room")' /\ CurrentQueue(e)' = p =>
                             ~MayReach(p, dispatcher[e].index)'
                        /\ QueueUndisturbed(p)'
      BY <1>1 DEF Undisturbed, QueueUndisturbed
    <2>1. \A j \in Int : MayReach(p, j)' => MayReach(p, j)
      BY <1>1, <1>26 DEF MayReach
    <2>2. ASSUME NEW e \in Dispatcher, Touches(e, p)' PROVE Touches(e, p)
      <3>1. PICK i : /\ i \in DOMAIN places'[dispatcher'[e].task]
                     /\ places'[dispatcher'[e].task][i][1] = p /\ ~At(e, "idle")'
        BY <1>19, <2>2 DEF Touches, PlaceQueue, At
      <3>2. CASE e # d
        <4>1. dispatcher'[e] = dispatcher[e] /\ dispatcher[e].task # t /\ ~At(e, "idle")
          BY <1>11, <1>13, <3>1, <3>2 DEF At
        <4>2. dispatcher[e].task \in Task
          BY <4>1, AtWork
        <4>3. QED
          BY <1>9, <3>1, <4>1, <4>2 DEF Touches, PlaceQueue
      <3>3. CASE e = d
        <4>1. i \in DOMAIN places'[t] /\ places'[t][i][1] = p
          BY <1>10, <1>11, <3>1, <3>3
        <4>2. CASE i \in DOMAIN places[t] /\ places'[t][i] = places[t][i]
          BY <1>1, <1>2, <3>3, <4>1, <4>2 DEF Touches, PlaceQueue
        <4>3. CASE places'[t][i] = <<q, k>>
          BY <1>1, <1>3, <3>3, <4>1, <4>3 DEF Touches
        <4>4. QED
          BY <1>20, <4>1, <4>2, <4>3
      <3>4. QED
        BY <3>2, <3>3
    <2>3. \A e, f \in Dispatcher : Touches(e, p)' /\ Touches(f, p)' => e = f
      BY <2>2 DEF AgentInv, Undisturbed
    <2>4. ASSUME NEW u \in Task, NEW i \in DOMAIN places'[u], NEW j \in Nat,
                 places'[u][i] = <<p, j>>
          PROVE  /\ MayReach(p, j)' => Stored(u, i)'
                 /\ j < readIndex'[p] => <<u, i>> \in ran'
                 /\ j = readIndex'[p] /\ worker'[p] = "signal" => <<u, i>> \in ran'
                 /\ Stored(u, i)' /\ <<u, i>> \notin ran' => header'[p][j % QueueSize] = <<u, i>>
      <3>1. CASE i \in DOMAIN places[u] /\ places[u][i] = <<p, j>>
        <4>1. /\ i \in Nat
              /\ MayReach(p, j) => Stored(u, i)
              /\ j < readIndex[p] => <<u, i>> \in ran
              /\ j = readIndex[p] /\ worker[p] = "signal" => <<u, i>> \in ran
              /\ Stored(u, i) /\ <<u, i>> \notin ran => header[p][j % QueueSize] = <<u, i>>
          BY <3>1, UndisturbedAt
        <4>2. Stored(u, i)' <=> Stored(u, i)
          BY <1>17, <4>1 DEF StoredSame
        <4>3. QED
          BY <1>1, <2>1, <4>1, <4>2
      <3>2. CASE u = t /\ i = n /\ p = q /\ j = k
        <4>1. ~MayReach(q, k)
          BY <1>1, <1>3, <3>2 DEF AgentInv, Undisturbed
        <4>2. ~MayReach(q, k)'
          BY <2>1, <3>2, <4>1
        <4>3. ~(k < readIndex[q]) /\ ~(k = readIndex[q] /\ worker[q] = "signal")
          BY <4>1 DEF MayReach, Reading
        <4>4. ~Stored(t, n)'
          <5>1. ~Stored(t, n)
            BY <1>1, <1>2, StoredOwn DEF Written
          <5>2. QED
            BY <1>2, <1>17, <5>1 DEF StoredSame
        <4>5. QED
          BY <1>1, <3>2, <4>2, <4>3, <4>4
      <3>3. QED
        BY <1>20, <2>4, <3>1, <3>2
    <2>5. QED
      BY <1>12, <1>19, <2>3, <2>4, UndisturbedBy DEF At
  <1>29. QED
    BY <1>12, <1>14, <1>15, <1>21, <1>22, <1>23, <1>24, <1>27, <1>28 DEF AgentInv

-------------------------------------------------------------------------------
LEMMA AgentInvInit == Init => AgentInv
  <1> SUFFICES ASSUME Init PROVE AgentInv
    OBVIOUS
  <1>1. NoCall \in DispatcherType
    BY DEF NoCall, Control, DispatcherType, DispatcherLabel
  <1>2. 1 \in Queue
    BY AgentAssumption DEF Queue
  <1>3. TypeOK
    <2>1. dispatcher \in [Dispatcher -> DispatcherType]
      BY <1>1 DEF Init
    <2>2. places \in [Task -> Seq(Queue \X Nat)]
      BY DEF Init
    <2>3. finalizer \in [at : {"none", "doorbell", "finish", "join", "over"}, queue : Queue]
      BY <1>2 DEF Init
    <2>4. /\ writeIndex \in [Queue -> Nat] /\ readIndex \in [Queue -> Nat]
          /\ doorbell \in [Queue -> Nat]
          /\ workerSig \in [Queue -> {PROCESS_PKT, FINISH, IDLE}]
          /\ worker \in [Queue -> WorkerLabel]
          /\ signalValue \in [Task -> Int]
      BY DEF Init, WorkerLabel
    <2>5. /\ header \in [Queue -> [0..QueueSize - 1 -> Packet \cup {Invalid, Cleared}]]
          /\ completion \in [Queue -> [0..QueueSize - 1 -> Task \cup {NoTask}]]
      BY DEF Init
    <2>6. readyqMutex \in Dispatcher \cup {NoThread} /\ ran \subseteq Packet
            /\ disturbed \subseteq Queue
      BY DEF Init
    <2>7. QED
      BY <2>1, <2>2, <2>3, <2>4, <2>5, <2>6 DEF TypeOK, DispatcherType
  <1>4. \A d \in Dispatcher : dispatcher[d] = NoCall /\ dispatcher[d].at = "idle"
                                /\ dispatcher[d].task = NoTask
    BY NoCallFields DEF Init
  <1>5. \A t \in Task : places[t] = <<>> /\ DOMAIN places[t] = {} /\ Len(places[t]) = 0
    BY DEF Init
  <1>6. DispatchesApart
    <2>1. readyqMutex \notin Dispatcher /\ finalizer.at = "none"
      BY AgentAssumption DEF Init
    <2>2. QED
      BY <1>4, <2>1, AgentAssumption DEF DispatchesApart, At, Reserving
  <1>7. PlacesCounted
    BY <1>4, <1>5, AgentAssumption DEF PlacesCounted, At
  <1>8. PlacesDistinct
    BY <1>4, <1>5 DEF PlacesDistinct, At
  <1>9. \A q \in Queue : readIndex[q] = 0 /\ writeIndex[q] = 0 /\ worker[q] = "asleep"
                           /\ ~Rung(q)
    BY <1>4 DEF Init, Rung, Reading, At, IDLE, PROCESS_PKT
  <1>10. ReadBehindWrite
    <2>1. 0 <= QueueSize
      BY AgentAssumption
    <2>2. \A q \in Queue : worker[q] \notin Reading
      BY <1>9 DEF Reading
    <2>3. \A d \in Dispatcher : ~At(d, "ring")
      BY <1>4 DEF At
    <2>4. QED
      BY <1>9, <2>1, <2>2, <2>3 DEF ReadBehindWrite
  <1>11. HeadersPlaced
    <2>1. \A q \in Queue : \A s \in 0..QueueSize - 1 : \A t \in Task :
            completion[q][s] # t /\ \A i \in 1..ThreadCount[t] : header[q][s] # <<t, i>>
      <3> SUFFICES ASSUME NEW q \in Queue, NEW s \in 0..QueueSize - 1, NEW t \in Task
                   PROVE  completion[q][s] # t
                            /\ \A i \in 1..ThreadCount[t] : header[q][s] # <<t, i>>
        OBVIOUS
      <3>1. completion[q][s] = NoTask /\ header[q][s] = Invalid
        BY DEF Init
      <3>2. \A i \in 1..ThreadCount[t] : <<t, i>> \in Packet
        BY DEF Packet, PacketsOf
      <3>3. QED
        BY <3>1, <3>2, AgentAssumption, HeaderAssumption
    <2>2. QED
      BY <2>1 DEF HeadersPlaced
  <1>12. RanInOrder
    BY DEF Init, RanInOrder
  <1>13. SignalCovers
    BY <1>4, <1>5, AgentAssumption DEF Init, SignalCovers
  <1>14. Undisturbed
    BY <1>4, <1>5 DEF Undisturbed, Touches, At
  <1>15. QED
    BY <1>3, <1>6, <1>7, <1>8, <1>10, <1>11, <1>12, <1>13, <1>14 DEF AgentInv

LEMMA AgentInvStutter ==
  ASSUME AgentInv, UNCHANGED vars
  PROVE  AgentInv'
  <1>1. UNCHANGED <<writeIndex, readIndex, header, completion, doorbell, workerSig, worker,
                    dispatcher, readyqMutex, places, signalValue, ran, finalizer, disturbed>>
    BY DEF vars, queueVars
  <1>2. TypeOK'
    BY <1>1 DEF AgentInv, TypeOK
  <1>3. /\ DispatchesApart' /\ PlacesCounted' /\ PlacesDistinct'
        /\ HeadersPlaced' /\ RanInOrder' /\ SignalCovers'
        /\ StoredSame /\ StoredGrows /\ PlacesGrow /\ ReadersAdvance
    BY <1>1, <1>2, ControlFrame
  <1>4. \A p \in Queue : Rung(p)' <=> Rung(p)
    BY <1>1 DEF Rung, At, CurrentQueue
  <1>5. ReadBehindWrite'
    BY <1>1, <1>4 DEF AgentInv, ReadBehindWrite, At, CurrentQueue
  <1>6. Undisturbed'
    <2>1. \A p \in Queue : \A k \in Int : MayReach(p, k)' => MayReach(p, k)
      BY <1>1, <1>4 DEF MayReach
    <2>2. \A e \in Dispatcher : \A p \in Queue : Touches(e, p)' => Touches(e, p)
      BY <1>1 DEF Touches, At, CurrentQueue, PlaceQueue
    <2>3. QED
      BY <1>1, <1>3, <2>1, <2>2, FrameUndisturbed DEF At, CurrentQueue
  <1>7. QED
    BY <1>2, <1>3, <1>5, <1>6 DEF AgentInv

LEMMA AgentInvNext == AgentInv /\ [Next]_vars => AgentInv'
  <1> SUFFICES ASSUME AgentInv, [Next]_vars PROVE AgentInv'
    OBVIOUS
  <1>1. ASSUME NEW d \in Dispatcher, NEW t \in Task, AcquireAqlPacket(d, t) PROVE AgentInv'
    BY <1>1, AcquireStep
  <1>2. ASSUME NEW d \in Dispatcher, DispatcherStep(d) PROVE AgentInv'
    BY <1>2, ReserveIndexStep, FindRoomStep, ClearPacketStep, FillPacketStep, StoreHeaderStep,
       LoadIndexStep, RingDoorbellStep, SignalWorkerStep DEF DispatcherStep
  <1>3. ASSUME NEW q \in Queue, WorkerStep(q) PROVE AgentInv'
    BY <1>3, WakeUpStep, AcceptWorkStep, LeaveLoopStep, SeeDoorbellStep, ReadHeaderStep,
       RunPacketStep, PassOverStep, SignalCompletionStep DEF WorkerStep
  <1>4. CASE AgentFini
    BY <1>4, AgentFiniStep
  <1>5. CASE FinalizerStep
    BY <1>5, StoreIntMaxStep, StoreFinishStep, JoinWorkerStep DEF FinalizerStep
  <1>6. CASE Over \/ UNCHANGED vars
    BY <1>6, AgentInvStutter DEF Over
  <1>7. QED
    BY <1>1, <1>2, <1>3, <1>4, <1>5, <1>6 DEF Next

LEMMA AgentInvAlways == Spec => []AgentInv
  BY AgentInvInit, AgentInvNext, PTL DEF Spec

(***************************************************************************)
(* The queues, threads and signals of the CPU agents keep their types: in  *)
(* particular the doorbell stored by dispatch ("one lesser value",         *)
(* LastIndex) is never negative, whatever the dispatches do.               *)
(***************************************************************************)
THEOREM AgentTypeCorrect == Spec => []TypeOK
  <1>1. AgentInv => TypeOK
    BY DEF AgentInv
  <1>2. QED
    BY <1>1, AgentInvAlways, PTL

(***************************************************************************)
(* From the store of its header by dispatch to its run by process_packet   *)
(* no packet is overwritten, for any size of the ring, any round-robin and *)
(* any number of threads, while no other dispatch overlaps on its queue.   *)
(***************************************************************************)
THEOREM PacketsAreKept == Spec => []PacketsKept
  <1>1. ASSUME AgentInv PROVE PacketsKept
    <2> SUFFICES ASSUME NEW t \in Task, NEW i \in 1..ThreadCount[t],
                        Stored(t, i), places[t][i][1] \notin disturbed, <<t, i>> \notin ran
                 PROVE  header[places[t][i][1]][places[t][i][2] % QueueSize] = <<t, i>>
      BY DEF PacketsKept
    <2>1. i \in DOMAIN places[t]
      BY DEF Stored, HasPlace
    <2>2. PlaceQueue(t, i) \in Queue \ disturbed
      BY <1>1, <2>1, PlacesType DEF AgentInv, PlaceQueue
    <2>3. header[PlaceQueue(t, i)][PlaceIndex(t, i) % QueueSize] = <<t, i>>
      BY <1>1, <2>1, <2>2 DEF AgentInv, Undisturbed
    <2>4. QED
      BY <2>3 DEF PlaceQueue, PlaceIndex
  <1>2. QED
    BY <1>1, AgentInvAlways, PTL

(***************************************************************************)
(* A worker goes beyond the index of a packet that has not run only on a   *)
(* queue for which two dispatches overlapped: what process_packet's wait   *)
(* for the header promises holds whenever one dispatch at a time uses the  *)
(* queue.                                                                  *)
(***************************************************************************)
THEOREM UndisturbedAreNotPassedOver == Spec => []UndisturbedNotPassedOver
  <1>1. ASSUME AgentInv PROVE UndisturbedNotPassedOver
    <2> SUFFICES ASSUME NEW t \in Task, NEW i \in 1..ThreadCount[t],
                        PassedOver(t, i), places[t][i][1] \notin disturbed
                 PROVE  FALSE
      BY DEF UndisturbedNotPassedOver
    <2>1. i \in DOMAIN places[t]
      BY DEF PassedOver, HasPlace
    <2>2. PlaceQueue(t, i) \in Queue \ disturbed
      BY <1>1, <2>1, PlacesType DEF AgentInv, PlaceQueue
    <2>3. PlaceIndex(t, i) < readIndex[PlaceQueue(t, i)] => <<t, i>> \in ran
      BY <1>1, <2>1, <2>2 DEF AgentInv, Undisturbed
    <2>4. QED
      BY <2>3 DEF PassedOver, PlaceQueue, PlaceIndex
  <1>2. QED
    BY <1>1, AgentInvAlways, PTL

(***************************************************************************)
(* The completion signal of a CPU task is never negative, and when it is   *)
(* zero after the dispatch every thread of the task has run, unless two    *)
(* dispatches overlapped on one of its queues: acquireAqlPacket adds as    *)
(* many as SignalCompletion will take away.                                *)
(***************************************************************************)
THEOREM CompletedTasksHaveRun == Spec => []CompletedHaveRun
  <1>1. ASSUME AgentInv PROVE CompletedHaveRun
    <2> SUFFICES ASSUME NEW t \in Task
                 PROVE  /\ signalValue[t] >= 0
                        /\ (/\ Len(places[t]) = ThreadCount[t] /\ signalValue[t] = 0
                            /\ \A i \in 1..ThreadCount[t] : places[t][i][1] \notin disturbed)
                           => PacketsOf(t) \subseteq ran
      BY DEF CompletedHaveRun
    <2>1. signalValue[t] >= 0
      BY <1>1 DEF AgentInv, SignalCovers
    <2>2. ASSUME Len(places[t]) = ThreadCount[t], signalValue[t] = 0,
                 \A i \in 1..ThreadCount[t] : places[t][i][1] \notin disturbed,
                 NEW i \in 1..ThreadCount[t]
          PROVE  <<t, i>> \in ran
      <3>1. PICK ps \in Seq(Queue \X Nat) : ps = places[t]
        BY <1>1 DEF AgentInv, TypeOK
      <3>2. i \in DOMAIN places[t] /\ places[t] # <<>>
        BY <2>2, <3>1
      <3>3. Cardinality(Pending(t)) <= 0
        BY <1>1, <2>2, <3>2 DEF AgentInv, SignalCovers
      <3>4. IsFiniteSet(Pending(t)) /\ Cardinality(Pending(t)) \in Nat
        BY PendingFinite, AgentAssumption
      <3>5. Pending(t) = {}
        BY <3>3, <3>4, FS_EmptySet
      <3>6. ~(PlaceIndex(t, i) >= readIndex[PlaceQueue(t, i)])
        BY <2>2, <3>2, <3>5 DEF Pending, HasPlace
      <3>7. PICK q \in Queue, k \in Nat : q = PlaceQueue(t, i) /\ k = PlaceIndex(t, i)
        BY <1>1, <3>2, PlacesType DEF AgentInv
      <3>8. q \notin disturbed
        BY <2>2, <3>7 DEF PlaceQueue
      <3>9. readIndex[q] \in Nat
        BY <1>1 DEF AgentInv, TypeOK
      <3>10. PlaceIndex(t, i) < readIndex[q]
        BY <3>6, <3>7, <3>9
      <3>11. QED
        BY <1>1, <3>2, <3>7, <3>8, <3>10 DEF AgentInv, Undisturbed
    <2>3. QED
      BY <2>1, <2>2 DEF PacketsOf
  <1>2. QED
    BY <1>1, AgentInvAlways, PTL

====

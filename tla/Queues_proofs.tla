--------------------------- MODULE Queues_proofs ---------------------------
(***************************************************************************)
(* Proofs about the two queues of the server.                              *)
(*                                                                         *)
(* The event queue, for a ring of any size: the types, and, for a server   *)
(* with one screen, that events keep the order in which they happened and  *)
(* that the ring implements InputFifo.                                     *)
(*                                                                         *)
(* The work queue, for any number of clients and of nodes: that its list   *)
(* is whole however the loops nest, that no client that sleeps and no node *)
(* of a client that was closed is forgotten.                               *)
(***************************************************************************)
EXTENDS EventQueue, WorkQueue, FiniteSetTheorems, SequenceTheorems, WellFoundedInduction, TLAPS

OneScreen == Screens = {FirstScreen}

(* The number of the input that caused an event.                           *)
Cause(e) == IF IsButton(e) THEN e.serial ELSE e.pos

(* The events are queued in the order of their causes, of which s was the  *)
(* last.                                                                   *)
Ordered(q, s) ==
    \A k \in Ranks(q) :
        /\ Cause(EventAt(q, k)) <= s
        /\ \A j \in Ranks(q) : j < k => Cause(EventAt(q, j)) < Cause(EventAt(q, k))

(* No motion is next to another, since it would have replaced it;          *)
(* lastMotion tells of the last one queued.                                *)
Merged(q) ==
    /\ \A k \in Ranks(q) : k + 1 \in Ranks(q) =>
         IsButton(EventAt(q, k)) \/ IsButton(EventAt(q, k + 1))
    /\ q.head # q.tail => q.lastMotion = ~IsButton(EventAt(q, Occupied(q) - 1))

(* What dix has seen: the last motion and the last button event.           *)
Seen(n) == sprite.hot.pos < n /\ processed < n

Queue == xf86EventQueue

RingInv ==
    /\ happened <= serial
    /\ Ordered(Queue, serial) /\ Merged(Queue)
    /\ \A k \in Ranks(Queue) : Seen(Cause(EventAt(Queue, k)))

(* The main program's copy: while the slot it comes from is still queued,  *)
(* the handler can only have put a later motion into it.                   *)
CopyInv ==
    /\ pc \notin {"switch", "read", "skip", "newScreen"}
    /\ pc \in {"copy", "advance"} => NotEmpty
    /\ pc = "advance" =>
         /\ Seen(Cause(xe))
         /\ IsButton(xe) => EventAt(Queue, 0) = xe
         /\ ~IsButton(xe) => ~IsButton(EventAt(Queue, 0)) /\ xe.pos <= EventAt(Queue, 0).pos
    /\ pc = "process" =>
         /\ Seen(Cause(xe))
         /\ Cause(xe) <= serial
         /\ \A k \in Ranks(Queue) : Cause(xe) < Cause(EventAt(Queue, k))
    /\ sprite.hotPhys = sprite.hot /\ sprite.hot.pos <= serial /\ processed <= serial

IInv == TypeOK /\ RingInv /\ CopyInv

---------------------------------------------------------------------------
(* The ring as a sequence of events.                                       *)

LEMMA SizeFacts == QUEUE_SIZE \in Nat /\ QUEUE_SIZE >= 2
  BY EventQueueAssumption

LEMMA ConstantFacts ==
    (\A s \in WarpScreens : s \in Screens) /\ (\A p \in UninitPositions : p \in Positions)
<1>1. WarpScreens \subseteq Screens /\ UninitPositions \subseteq Positions
  BY EventQueueAssumption DEF Positions
<1> QED BY <1>1

LEMMA OccupiedRange ==
    ASSUME NEW q \in QueueRecords
    PROVE  /\ Occupied(q) \in 0 .. QUEUE_SIZE - 1
           /\ Occupied(q) = 0 <=> q.head = q.tail
           /\ Ranks(q) \subseteq 0 .. QUEUE_SIZE - 2
<1>1. PICK h \in Slots, t \in Slots : q.head = h /\ q.tail = t
  BY DEF QueueRecords
<1> QED BY <1>1, SizeFacts DEF Occupied, Slots, Ranks

(* The slots from head on are different ones, the last is the one before   *)
(* tail, and the next to be filled is tail.                                *)
LEMMA SlotFacts ==
    ASSUME NEW q \in QueueRecords
    PROVE  /\ \A k \in 0 .. QUEUE_SIZE - 1 : SlotAt(q, k) \in Slots
           /\ \A j, k \in 0 .. QUEUE_SIZE - 1 : SlotAt(q, j) = SlotAt(q, k) => j = k
           /\ SlotAt(q, 0) = q.head
           /\ SlotAt(q, Occupied(q)) = q.tail
           /\ q.head # q.tail => SlotAt(q, Occupied(q) - 1) = Predecessor(q.tail)
<1>1. PICK h \in Slots, t \in Slots : q.head = h /\ q.tail = t
  BY DEF QueueRecords
<1> QED BY <1>1, SizeFacts DEF SlotAt, Occupied, Slots, Predecessor

(* e was put into the ring, stamped with a time and a screen, as p.        *)
Stamped(p, e) == p.type = e.type /\ p.pos = e.pos /\ p.serial = e.serial

Tossed(q, r) == r = q /\ Occupied(q) = QUEUE_SIZE - 1

Appended(q, r, e) ==
    /\ e.type = "Motion" /\ q.head # q.tail => ~q.lastMotion
    /\ Occupied(r) = Occupied(q) + 1
    /\ \A k \in Ranks(q) : EventAt(r, k) = EventAt(q, k)
    /\ Stamped(EventAt(r, Occupied(q)), e)

Replaced(q, r, e) ==
    /\ e.type = "Motion" /\ q.head # q.tail /\ q.lastMotion
    /\ Occupied(r) = Occupied(q)
    /\ \A k \in Ranks(q) : k # Occupied(q) - 1 => EventAt(r, k) = EventAt(q, k)
    /\ Stamped(EventAt(r, Occupied(q) - 1), e)

LEMMA StampType ==
    ASSUME NEW q \in QueueRecords, NEW e \in Events, NEW s \in Screens
    PROVE  /\ [Stamp(q, e) EXCEPT !.pScreen = s] \in Events
           /\ Stamped([Stamp(q, e) EXCEPT !.pScreen = s], e)
  BY DEF Stamp, Stamped, Events, QueueRecords

(* xf86eqEnqueue tosses an event if no slot is free, puts it behind the    *)
(* others, or puts a motion in the place of the last one.                  *)
LEMMA EnqueueFacts ==
    ASSUME NEW q \in QueueRecords, NEW e \in Events, NEW r, r = Enqueue(q, e)
    PROVE  /\ r \in QueueRecords /\ r.head = q.head
           /\ \/ Tossed(q, r)
              \/ Appended(q, r, e) /\ r.lastMotion = (e.type = "Motion")
              \/ Replaced(q, r, e) /\ r.lastMotion = (e.type = "Motion")
<1> DEFINE replaces == e.type = "Motion" /\ q.lastMotion /\ q.tail # q.head
           slot == IF replaces THEN Predecessor(q.tail) ELSE q.tail
           newtail == IF replaces THEN q.tail ELSE Successor(q.tail)
           put == [Stamp(q, e) EXCEPT !.pScreen = q.pEnqueueScreen]
<1>1. q.head \in Slots /\ q.tail \in Slots /\ q.pEnqueueScreen \in Screens
  BY DEF QueueRecords
<1>2. put \in Events /\ Stamped(put, e)
  BY <1>1, StampType
<1>3. slot \in Slots /\ newtail \in Slots
  BY <1>1, SizeFacts DEF Slots, Predecessor, Successor
<1>4. r = IF ~replaces /\ newtail = q.head THEN q
          ELSE [q EXCEPT !.tail = newtail, !.lastMotion = (e.type = "Motion"),
                         !.events[slot] = put]
  BY DEF Enqueue
<1>5. CASE ~replaces /\ newtail = q.head
  <2>1. Occupied(q) = QUEUE_SIZE - 1
    BY <1>1, <1>5, SizeFacts DEF Occupied, Successor, Slots
  <2> QED BY <1>4, <1>5, <2>1 DEF Tossed
<1>6. CASE ~(~replaces /\ newtail = q.head)
  <2> HIDE DEF put, slot, newtail
  <2>1. r = [q EXCEPT !.tail = newtail, !.lastMotion = (e.type = "Motion"),
                      !.events[slot] = put]
    BY <1>4, <1>6
  <2> DEFINE events == [q.events EXCEPT ![slot] = put]
  <2>0. events \in [Slots -> Events] /\ (e.type = "Motion") \in BOOLEAN
    BY <1>2, <1>3 DEF QueueRecords
  <2>2. /\ r \in QueueRecords /\ r.head = q.head /\ r.tail = newtail
        /\ r.lastMotion = (e.type = "Motion") /\ r.events = events
    <3>1. r = [q EXCEPT !.tail = newtail, !.lastMotion = (e.type = "Motion"), !.events = events]
      BY <2>1 DEF QueueRecords
    <3> HIDE DEF events
    <3> QED BY <1>3, <2>0, <3>1 DEF QueueRecords
  <2>3. /\ q.events \in [Slots -> Events] /\ r.events[slot] = put
        /\ \A i \in Slots : i # slot => r.events[i] = q.events[i]
    BY <1>2, <1>3, <2>2 DEF QueueRecords
  <2>4. \A k : SlotAt(r, k) = SlotAt(q, k)
    BY <2>2 DEF SlotAt
  <2>5. Ranks(q) \subseteq 0 .. QUEUE_SIZE - 1 /\ Occupied(q) \in 0 .. QUEUE_SIZE - 1
    BY OccupiedRange, SizeFacts
  <2>6. CASE replaces
    <3>1. slot = SlotAt(q, Occupied(q) - 1) /\ Occupied(r) = Occupied(q)
      <4>1. slot = Predecessor(q.tail) /\ r.tail = q.tail /\ q.head # q.tail
        BY <2>2, <2>6 DEF slot, newtail
      <4> QED BY <2>2, <4>1, SlotFacts DEF Occupied
    <3>2. Occupied(q) - 1 \in 0 .. QUEUE_SIZE - 1
      <4>1. Occupied(q) # 0
        BY <2>6, OccupiedRange
      <4> QED BY <2>5, <4>1, SizeFacts
    <3>3. \A k \in Ranks(q) : k # Occupied(q) - 1 => EventAt(r, k) = EventAt(q, k)
      BY <2>3, <2>4, <2>5, <3>1, <3>2, SlotFacts DEF EventAt
    <3>4. EventAt(r, Occupied(q) - 1) = put
      BY <2>3, <2>4, <3>1 DEF EventAt
    <3> QED BY <1>2, <2>2, <2>6, <3>1, <3>3, <3>4 DEF Replaced
  <2>7. CASE ~replaces
    <3>1. slot = SlotAt(q, Occupied(q))
      BY <2>7, SlotFacts DEF slot
    <3>2. Occupied(r) = Occupied(q) + 1
      BY <1>1, <1>6, <2>2, <2>7, SizeFacts DEF newtail, Occupied, Successor, Slots
    <3>3. \A k \in Ranks(q) : k # Occupied(q)
      BY <2>5 DEF Ranks
    <3>4. \A k \in Ranks(q) : EventAt(r, k) = EventAt(q, k)
      BY <2>3, <2>4, <2>5, <3>1, <3>3, SlotFacts DEF EventAt
    <3>5. EventAt(r, Occupied(q)) = put
      BY <2>3, <2>4, <3>1 DEF EventAt
    <3> QED BY <1>2, <2>2, <2>7, <3>2, <3>4, <3>5 DEF Appended
  <2> QED BY <2>6, <2>7
<1> QED BY <1>5, <1>6

(* Advancing head takes the first event off.                               *)
LEMMA AdvanceFacts ==
    ASSUME NEW q \in QueueRecords, q.head # q.tail,
           NEW r, r = [q EXCEPT !.head = Successor(@)]
    PROVE  /\ r \in QueueRecords /\ r.lastMotion = q.lastMotion
           /\ Occupied(r) = Occupied(q) - 1
           /\ \A k \in Ranks(r) : k + 1 \in Ranks(q) /\ EventAt(r, k) = EventAt(q, k + 1)
<1>1. PICK h \in Slots, t \in Slots : q.head = h /\ q.tail = t
  BY DEF QueueRecords
<1>2. Successor(h) \in Slots
  BY SizeFacts DEF Slots, Successor
<1>3. /\ r \in QueueRecords /\ r.lastMotion = q.lastMotion /\ r.events = q.events
      /\ r.head = Successor(h) /\ r.tail = t
  BY <1>1, <1>2 DEF QueueRecords
<1>4. Occupied(r) = Occupied(q) - 1
  BY <1>1, <1>3, SizeFacts DEF Occupied, Slots, Successor
<1>5. ASSUME NEW k \in Ranks(r)
      PROVE  k + 1 \in Ranks(q) /\ EventAt(r, k) = EventAt(q, k + 1)
  <2>1. k \in 0 .. QUEUE_SIZE - 2 /\ k + 1 \in Ranks(q)
    BY <1>3, <1>4, OccupiedRange, SizeFacts DEF Ranks
  <2>2. SlotAt(r, k) = SlotAt(q, k + 1)
    BY <1>1, <1>3, <2>1, SizeFacts DEF SlotAt, Slots, Successor
  <2> QED BY <1>3, <2>1, <2>2 DEF EventAt
<1> QED BY <1>3, <1>4, <1>5

LEMMA CauseFacts ==
    /\ \A e \in Events : Cause(e) \in Nat
    /\ \A p, e : Stamped(p, e) => Cause(p) = Cause(e) /\ IsButton(p) = IsButton(e)
  BY DEF Cause, IsButton, Stamped, Events, Positions

LEMMA EventAtType ==
    ASSUME NEW q \in QueueRecords, NEW k \in Ranks(q)
    PROVE  EventAt(q, k) \in Events /\ Cause(EventAt(q, k)) \in Nat
<1>1. k \in 0 .. QUEUE_SIZE - 1
  BY OccupiedRange, SizeFacts
<1>2. SlotAt(q, k) \in Slots
  BY <1>1, SlotFacts
<1> QED BY <1>2, CauseFacts DEF EventAt, QueueRecords

(* A new event is the last of the order, and changes the first event of a  *)
(* ring that is not empty only if both are motions.                        *)
LEMMA EnqueueOrdered ==
    ASSUME NEW q \in QueueRecords, NEW e \in Events, NEW s \in Nat,
           Ordered(q, s), Merged(q), Cause(e) = s + 1, NEW r, r = Enqueue(q, e)
    PROVE  /\ Ordered(r, s + 1) /\ Merged(r)
           /\ \A k \in Ranks(r) : \/ Cause(EventAt(r, k)) = s + 1
                                  \/ k \in Ranks(q) /\ EventAt(r, k) = EventAt(q, k)
           /\ q.head # q.tail =>
                /\ r.head # r.tail
                /\ \/ EventAt(r, 0) = EventAt(q, 0)
                   \/ /\ ~IsButton(EventAt(q, 0)) /\ ~IsButton(EventAt(r, 0))
                      /\ Cause(EventAt(r, 0)) = s + 1
<1> DEFINE n == Occupied(q)
<1>1. /\ n \in Nat /\ (n = 0 <=> q.head = q.tail) /\ Ranks(q) = 0 .. n - 1
      /\ \A k \in Ranks(q) : Cause(EventAt(q, k)) \in Nat
  BY OccupiedRange, SizeFacts, EventAtType DEF Ranks
<1>2. r \in QueueRecords /\ Ranks(r) = 0 .. Occupied(r) - 1 /\ Occupied(r) \in Nat
      /\ (Occupied(r) = 0 <=> r.head = r.tail)
  BY EnqueueFacts, OccupiedRange, SizeFacts DEF Ranks
<1>3. CASE Tossed(q, r)
  <2>1. r = q
    BY <1>3 DEF Tossed
  <2>2. Ordered(q, s + 1)
    BY <1>1 DEF Ordered
  <2> QED BY <2>1, <2>2
<1>4. CASE Appended(q, r, e) /\ r.lastMotion = (e.type = "Motion")
  <2> DEFINE p == EventAt(r, n)
  <2>1. /\ Occupied(r) = n + 1 /\ \A k \in 0 .. n - 1 : EventAt(r, k) = EventAt(q, k)
        /\ Cause(p) = s + 1 /\ IsButton(p) = IsButton(e)
    BY <1>1, <1>4, CauseFacts DEF Appended
  <2>2. Ranks(r) = 0 .. n /\ Ranks(q) = 0 .. n - 1
    BY <1>1, <1>2, <2>1
  <2>3. Ordered(r, s + 1)
    BY <1>1, <2>1, <2>2 DEF Ordered
  <2>4. Merged(r)
    <3>1. n > 0 /\ ~IsButton(p) => IsButton(EventAt(r, n - 1))
      <4> SUFFICES ASSUME n > 0, ~IsButton(p) PROVE IsButton(EventAt(r, n - 1))
        OBVIOUS
      <4>1. ~IsButton(e) /\ q.head # q.tail
        BY <1>1, <2>1
      <4>2. ~q.lastMotion
        BY <1>4, <4>1 DEF Appended, IsButton
      <4>3. IsButton(EventAt(q, n - 1))
        BY <4>1, <4>2 DEF Merged
      <4>4. n - 1 \in 0 .. n - 1
        BY <1>1
      <4> QED BY <2>1, <4>3, <4>4
    <3>2. ASSUME NEW k \in Ranks(r), k + 1 \in Ranks(r)
          PROVE  IsButton(EventAt(r, k)) \/ IsButton(EventAt(r, k + 1))
      <4>1. CASE k + 1 = n
        <5>1. k = n - 1
          BY <1>1, <2>2, <4>1
        <5> QED BY <1>1, <2>2, <3>1, <4>1, <5>1
      <4>2. CASE k + 1 # n
        BY <1>1, <2>1, <2>2, <3>2, <4>2 DEF Merged
      <4> QED BY <4>1, <4>2
    <3>3. r.lastMotion = ~IsButton(EventAt(r, Occupied(r) - 1))
      <4>1. Occupied(r) - 1 = n
        BY <1>1, <2>1
      <4> QED BY <1>4, <2>1, <4>1 DEF IsButton
    <3> QED BY <3>2, <3>3 DEF Merged
  <2>5. ASSUME NEW k \in Ranks(r)
        PROVE  \/ Cause(EventAt(r, k)) = s + 1
               \/ k \in Ranks(q) /\ EventAt(r, k) = EventAt(q, k)
    <3>1. CASE k = n
      BY <2>1, <3>1
    <3>2. CASE k # n
      <4>1. k \in 0 .. n - 1 /\ k \in Ranks(q)
        BY <1>1, <2>2, <3>2
      <4> QED BY <2>1, <4>1
    <3> QED BY <3>1, <3>2
  <2>6. q.head # q.tail => r.head # r.tail /\ EventAt(r, 0) = EventAt(q, 0)
    BY <1>1, <1>2, <2>1
  <2> QED BY <2>3, <2>4, <2>5, <2>6
<1>5. CASE Replaced(q, r, e) /\ r.lastMotion = (e.type = "Motion")
  <2> DEFINE p == EventAt(r, n - 1)
  <2>1. /\ Occupied(r) = n /\ n > 0 /\ r.lastMotion = TRUE
        /\ \A k \in 0 .. n - 2 : EventAt(r, k) = EventAt(q, k)
        /\ Cause(p) = s + 1 /\ ~IsButton(p) /\ ~IsButton(EventAt(q, n - 1))
    <3>1. Cause(p) = Cause(e) /\ IsButton(p) = IsButton(e)
      BY <1>5, CauseFacts DEF Replaced
    <3>2. ~IsButton(e) /\ q.head # q.tail /\ q.lastMotion
      BY <1>5 DEF Replaced, IsButton
    <3>3. ~IsButton(EventAt(q, n - 1))
      BY <3>2 DEF Merged
    <3>4. Occupied(r) = n /\ n > 0 /\ r.lastMotion = TRUE
      <4>1. e.type = "Motion"
        BY <3>2 DEF IsButton
      <4>2. Occupied(r) = n /\ n > 0
        BY <1>1, <1>5, <3>2 DEF Replaced
      <4> QED BY <1>5, <4>1, <4>2
    <3>5. \A k \in 0 .. n - 2 : EventAt(r, k) = EventAt(q, k)
      BY <1>1, <1>5 DEF Replaced
    <3> QED BY <3>1, <3>2, <3>3, <3>4, <3>5
  <2>2. Ranks(r) = 0 .. n - 1 /\ Ranks(q) = 0 .. n - 1
    BY <1>1, <1>2, <2>1
  <2>3. Ordered(r, s + 1)
    BY <1>1, <2>1, <2>2 DEF Ordered
  <2>4. Merged(r)
    <3>1. ASSUME NEW k \in Ranks(r), k + 1 \in Ranks(r)
          PROVE  IsButton(EventAt(r, k)) \/ IsButton(EventAt(r, k + 1))
      <4>1. IsButton(EventAt(q, k)) \/ IsButton(EventAt(q, k + 1))
        BY <2>2, <3>1 DEF Merged
      <4>2. k \in 0 .. n - 2 /\ (k + 1 \in 0 .. n - 2 \/ k + 1 = n - 1)
        BY <1>1, <2>2, <3>1
      <4> QED BY <2>1, <4>1, <4>2
    <3> QED BY <2>1, <3>1 DEF Merged
  <2>5. ASSUME NEW k \in Ranks(r)
        PROVE  \/ Cause(EventAt(r, k)) = s + 1
               \/ k \in Ranks(q) /\ EventAt(r, k) = EventAt(q, k)
    <3>1. CASE k = n - 1
      BY <2>1, <3>1
    <3>2. CASE k # n - 1
      <4>1. k \in 0 .. n - 2 /\ k \in Ranks(q)
        BY <1>1, <2>2, <3>2
      <4> QED BY <2>1, <4>1
    <3> QED BY <3>1, <3>2
  <2>6. r.head # r.tail
    BY <1>2, <2>1
  <2>7. \/ EventAt(r, 0) = EventAt(q, 0)
        \/ ~IsButton(EventAt(q, 0)) /\ ~IsButton(EventAt(r, 0)) /\ Cause(EventAt(r, 0)) = s + 1
    <3>1. CASE n = 1
      BY <2>1, <3>1
    <3>2. CASE n # 1
      BY <1>1, <2>1, <3>2
    <3> QED BY <3>1, <3>2
  <2> QED BY <2>3, <2>4, <2>5, <2>6, <2>7
<1> QED BY <1>3, <1>4, <1>5, EnqueueFacts

(* Taking the first event off keeps the order of the others.               *)
LEMMA AdvanceOrdered ==
    ASSUME NEW q \in QueueRecords, q.head # q.tail, NEW s \in Nat, Ordered(q, s), Merged(q),
           NEW r, r = [q EXCEPT !.head = Successor(@)]
    PROVE  /\ Ordered(r, s) /\ Merged(r)
           /\ \A k \in Ranks(r) : Cause(EventAt(q, 0)) < Cause(EventAt(r, k))
<1> DEFINE n == Occupied(q)
<1>1. /\ n \in Nat /\ n > 0 /\ Ranks(q) = 0 .. n - 1
      /\ \A k \in Ranks(q) : Cause(EventAt(q, k)) \in Nat
  BY OccupiedRange, SizeFacts, EventAtType DEF Ranks
<1>2. /\ r \in QueueRecords /\ r.lastMotion = q.lastMotion /\ Occupied(r) = n - 1
      /\ \A k \in Ranks(r) : k + 1 \in Ranks(q) /\ EventAt(r, k) = EventAt(q, k + 1)
  BY AdvanceFacts
<1>3. Ranks(r) = 0 .. n - 2 /\ (Occupied(r) = 0 <=> r.head = r.tail)
  <2>1. Ranks(r) = 0 .. n - 1 - 1
    BY <1>2 DEF Ranks
  <2>2. 0 .. n - 1 - 1 = 0 .. n - 2
    BY <1>1
  <2>3. Occupied(r) = 0 <=> r.head = r.tail
    BY <1>2, OccupiedRange
  <2> QED BY <2>1, <2>2, <2>3
<1>4. Ordered(r, s)
  BY <1>1, <1>2, <1>3 DEF Ordered
<1>5. \A k \in Ranks(r) : Cause(EventAt(q, 0)) < Cause(EventAt(r, k))
  BY <1>1, <1>2, <1>3 DEF Ordered
<1>6. Merged(r)
  <2>1. ASSUME NEW k \in Ranks(r), k + 1 \in Ranks(r)
        PROVE  IsButton(EventAt(r, k)) \/ IsButton(EventAt(r, k + 1))
    BY <1>1, <1>2, <1>3, <2>1 DEF Merged
  <2>2. r.head # r.tail => EventAt(r, Occupied(r) - 1) = EventAt(q, n - 1)
    <3> SUFFICES ASSUME r.head # r.tail PROVE EventAt(r, Occupied(r) - 1) = EventAt(q, n - 1)
      OBVIOUS
    <3>1. Occupied(r) - 1 \in Ranks(r) /\ Occupied(r) - 1 + 1 = n - 1
      BY <1>1, <1>2, <1>3
    <3> QED BY <1>2, <3>1
  <2> QED BY <1>2, <2>1, <2>2 DEF Merged
<1> QED BY <1>4, <1>5, <1>6

---------------------------------------------------------------------------
(* Every step keeps the types, on any number of screens.                   *)

LEMMA EventTypes ==
    /\ NoEvent \in Events
    /\ \A p \in Positions, t \in Times : Motion(p, t) \in Events
    /\ \A down \in BOOLEAN, n \in Positions, p \in Positions, t \in Times :
         Button(down, n, p, t) \in Events
<1>1. NoEvent \in Events
  <2>1. (CHOOSE t \in Times : TRUE) \in Times
    BY EventQueueAssumption
  <2>2. 0 \in Positions /\ FirstScreen \in Screens
    BY EventQueueAssumption DEF Positions
  <2> QED BY <2>1, <2>2 DEF NoEvent, Events
<1> QED BY <1>1 DEF Motion, Button, Events

(* Moving the pointer, with or without a change of screens.                *)
LEMMA MovePointerTypes ==
    ASSUME TypeOK, NEW s \in Screens, NEW p \in Positions, NEW t \in Times,
           NEW fromDIX \in BOOLEAN, MovePointer(s, p, t, fromDIX)
    PROVE  xf86EventQueue' \in QueueRecords /\ miPointer' \in Points
<1> DEFINE q == IF s = miPointer.pScreen THEN xf86EventQueue
                ELSE SwitchScreen(xf86EventQueue, s, fromDIX)
<1>1. q \in QueueRecords
  BY DEF TypeOK, QueueRecords, SwitchScreen
<1>2. Motion(p, t) \in Events
  BY EventTypes
<1>3. xf86EventQueue' = Enqueue(q, Motion(p, t)) /\ miPointer' = [pScreen |-> s, pos |-> p]
  BY DEF MovePointer
<1> HIDE DEF q
<1> QED BY <1>1, <1>2, <1>3, EnqueueFacts DEF Points

LEMMA NextSerial ==
    ASSUME TypeOK, NextInput
    PROVE  serial + 1 \in Positions /\ serial' = serial + 1
<1>1. serial \in Positions
  BY DEF TypeOK
<1> QED BY <1>1, EventQueueAssumption DEF NextInput, Positions

LEMMA InitType == Init => TypeOK
<1> SUFFICES ASSUME Init PROVE TypeOK
  OBVIOUS
<1>1. 0 \in Slots /\ 0 \in Positions /\ FirstScreen \in Screens
  BY SizeFacts, EventQueueAssumption DEF Slots, Positions
<1>2. xf86EventQueue \in QueueRecords /\ currentTime \in Times
  BY <1>1, EventTypes DEF Init, QueueRecords
<1>3. InitialPoint \in Points
  BY <1>1 DEF InitialPoint, Points
<1> QED BY <1>1, <1>2, <1>3, EventTypes DEF Init, TypeOK

LEMMA TypeStep ==
    ASSUME TypeOK, [Step]_vars
    PROVE  TypeOK'
<1> USE DEF TypeOK, handlerVars, dixVars, Goto
<1>1. ASSUME NEW t \in Times, NEW s \in Screens, PostMotionEvent(s, t) PROVE TypeOK'
  <2>1. xf86EventQueue' \in QueueRecords /\ miPointer' \in Points
    BY <1>1, NextSerial, MovePointerTypes DEF PostMotionEvent
  <2> QED BY <1>1, <2>1, NextSerial DEF PostMotionEvent, EndsSelect
<1>2. ASSUME NEW t \in Times, NEW p \in UninitPositions, PostButtonEvent(p, t) PROVE TypeOK'
  <2>1. Button(xf86CoreButtonState', serial + 1, p, t) \in Events
    <3>1. p \in Positions /\ xf86CoreButtonState' \in BOOLEAN
      <4>1. p \in Positions
        BY ConstantFacts
      <4> QED BY <1>2, <4>1 DEF PostButtonEvent
    <3> QED BY <1>2, <3>1, NextSerial, EventTypes DEF PostButtonEvent
  <2>2. xf86EventQueue' \in QueueRecords
    BY <1>2, <2>1, EnqueueFacts DEF PostButtonEvent
  <2> QED BY <1>2, <2>2, NextSerial DEF PostButtonEvent, EndsSelect
<1>3. CASE NoInput \/ CallSelect \/ SelectReturns \/ ProcOther
  BY <1>3 DEF NoInput, CallSelect, SelectReturns, ProcOther
<1>4. ASSUME NEW s \in WarpScreens, NEW t \in Times, ProcWarpPointer(s, t) PROVE TypeOK'
  <2>1. s \in Screens
    BY ConstantFacts
  <2>2. xf86EventQueue' \in QueueRecords /\ miPointer' \in Points
    BY <1>4, <2>1, NextSerial, MovePointerTypes DEF ProcWarpPointer
  <2>3. sprite' \in [hotPhys: Points, hot: Points]
    BY <1>4, <2>1, NextSerial DEF ProcWarpPointer, Points
  <2> QED BY <1>4, <2>2, <2>3, NextSerial DEF ProcWarpPointer
<1>5. CASE CompareScreens
  BY <1>5 DEF CompareScreens
<1>6. CASE CopyEvent
  <2>1. SlotAtHead \in Events
    BY DEF SlotAtHead, QueueRecords
  <2> QED BY <1>6, <2>1 DEF CopyEvent
<1>7. CASE TakeEvent \/ SkipEvent
  <2>1. xf86EventQueue' \in QueueRecords
    <3>1. xf86EventQueue' = [xf86EventQueue EXCEPT !.head = Successor(@)]
      BY <1>7 DEF TakeEvent, SkipEvent, AdvanceHead
    <3>2. Successor(xf86EventQueue.head) \in Slots
      BY SizeFacts DEF Slots, Successor, QueueRecords
    <3> QED BY <3>1, <3>2 DEF QueueRecords
  <2> QED BY <1>7, <2>1 DEF TakeEvent, SkipEvent
<1>8. CASE ProcessEvent
  <2>1. currentTime' \in Times
    BY <1>8 DEF ProcessEvent, NoticeTime, Events
  <2>2. sprite' \in [hotPhys: Points, hot: Points]
    BY <1>8 DEF ProcessEvent, Points, Events
  <2>3. buttonDown' \in BOOLEAN /\ processed' \in Positions
    BY <1>8 DEF ProcessEvent, Events
  <2> QED BY <1>8, <2>1, <2>2, <2>3, EventTypes DEF ProcessEvent
<1>9. CASE SwitchDequeueScreen
  <2>1. SlotAtHead.pScreen \in Screens
    BY DEF SlotAtHead, QueueRecords, Events
  <2>2. xf86EventQueue' \in QueueRecords
    BY <1>9, <2>1 DEF SwitchDequeueScreen, QueueRecords
  <2> QED BY <1>9, <2>2 DEF SwitchDequeueScreen
<1>10. CASE ReadPosition
  <2>1. SlotAtHead.pos \in Positions
    BY DEF SlotAtHead, QueueRecords, Events
  <2> QED BY <1>10, <2>1 DEF ReadPosition
<1>11. ASSUME NEW t \in Times, NewCurrentScreen(t) PROVE TypeOK'
  <2> DEFINE s == xf86EventQueue.pDequeueScreen
  <2>1. s \in Screens /\ xy \in Positions /\ 0 \in Positions
    BY EventQueueAssumption DEF Positions, QueueRecords
  <2>2. xf86EventQueue' \in QueueRecords /\ miPointer' \in Points
    <3>1. CASE s = sprite.hotPhys.pScreen
      BY <1>11, <3>1 DEF NewCurrentScreen
    <3>2. CASE s # sprite.hotPhys.pScreen
      BY <1>11, <2>1, <3>2, MovePointerTypes DEF NewCurrentScreen
    <3> QED BY <3>1, <3>2
  <2>3. sprite' \in [hotPhys: Points, hot: Points]
    BY <1>11, <2>1 DEF NewCurrentScreen, Points
  <2> QED BY <1>11, <2>1, <2>2, <2>3 DEF NewCurrentScreen
<1>12. CASE UNCHANGED vars
  BY <1>12 DEF vars
<1> QED BY <1>1, <1>2, <1>3, <1>4, <1>5, <1>6, <1>7, <1>8, <1>9, <1>10, <1>11, <1>12
        DEF Step, Handler, MainProgram, ProcessInputEvents, Request

---------------------------------------------------------------------------
(* Every step keeps the order, on one screen.                              *)

LEMMA OneScreenFacts ==
    ASSUME OneScreen, TypeOK
    PROVE  /\ miPointer.pScreen = FirstScreen /\ sprite.hotPhys.pScreen = FirstScreen
           /\ \A s \in Screens : s = FirstScreen
           /\ NotEmpty => SlotAtHead.pScreen = xf86EventQueue.pDequeueScreen
<1>1. \A s \in Screens : s = FirstScreen
  BY DEF OneScreen
<1>2. miPointer.pScreen \in Screens /\ sprite.hotPhys.pScreen \in Screens
  BY DEF TypeOK, Points
<1>3. SlotAtHead.pScreen \in Screens /\ xf86EventQueue.pDequeueScreen \in Screens
  BY DEF TypeOK, QueueRecords, Events, SlotAtHead
<1> QED BY <1>1, <1>2, <1>3

(* What the invariant says of numbers.                                     *)
LEMMA HistoryFacts ==
    ASSUME IInv
    PROVE  /\ serial \in Nat /\ happened \in Nat /\ processed \in Nat /\ sprite.hot.pos \in Nat
           /\ sprite.hot.pos <= serial /\ processed <= serial /\ happened <= serial
           /\ xe \in Events /\ xf86EventQueue \in QueueRecords
           /\ NotEmpty <=> Occupied(xf86EventQueue) # 0
<1>1. {serial, happened, processed} \subseteq Positions /\ sprite.hot.pos \in Positions
  BY DEF IInv, TypeOK, Points
<1>2. serial \in Nat /\ happened \in Nat /\ processed \in Nat /\ sprite.hot.pos \in Nat
  BY <1>1 DEF Positions
<1>3. happened <= serial /\ processed <= serial /\ sprite.hot.pos <= serial
  BY DEF IInv, RingInv, CopyInv
<1>4. xe \in Events /\ xf86EventQueue \in QueueRecords
  BY DEF IInv, TypeOK
<1> QED BY <1>2, <1>3, <1>4, OccupiedRange DEF NotEmpty

(* The event of a new input goes to the end, wherever the main program is. *)
LEMMA NewEvent ==
    ASSUME IInv, NEW e \in Events, Cause(e) = serial + 1,
           xf86EventQueue' = Enqueue(xf86EventQueue, e),
           serial' = serial + 1, happened' \in {happened, serial + 1},
           sprite' = sprite, processed' = processed, xe' = xe,
           pc' = pc \/ pc' \in {"idle", "wait"}
    PROVE  RingInv' /\ CopyInv'
<1> DEFINE q == xf86EventQueue
           r == xf86EventQueue'
<1>1. q \in QueueRecords /\ serial \in Nat /\ Ordered(q, serial) /\ Merged(q)
  BY HistoryFacts DEF IInv, RingInv, Queue
<1>2. /\ Ordered(r, serial + 1) /\ Merged(r)
      /\ \A k \in Ranks(r) : \/ Cause(EventAt(r, k)) = serial + 1
                             \/ k \in Ranks(q) /\ EventAt(r, k) = EventAt(q, k)
      /\ q.head # q.tail =>
           /\ r.head # r.tail
           /\ \/ EventAt(r, 0) = EventAt(q, 0)
              \/ /\ ~IsButton(EventAt(q, 0)) /\ ~IsButton(EventAt(r, 0))
                 /\ Cause(EventAt(r, 0)) = serial + 1
  BY <1>1, EnqueueOrdered
<1>3. ASSUME NEW k \in Ranks(r)
      PROVE  sprite.hot.pos < Cause(EventAt(r, k)) /\ processed < Cause(EventAt(r, k))
  <2>1. CASE Cause(EventAt(r, k)) = serial + 1
    BY <2>1, HistoryFacts
  <2>2. CASE k \in Ranks(q) /\ EventAt(r, k) = EventAt(q, k)
    BY <2>2 DEF IInv, RingInv, Queue, Seen
  <2> QED BY <1>2, <2>1, <2>2
<1>4. RingInv'
  <2>1. happened' <= serial'
    BY HistoryFacts
  <2> QED BY <1>2, <1>3, <2>1 DEF RingInv, Queue, Seen
<1>5. pc' \in {"copy", "advance"} => r.head # r.tail
  BY <1>2 DEF IInv, CopyInv, NotEmpty
<1>6. ASSUME pc' = "advance"
      PROVE  /\ sprite.hot.pos < Cause(xe) /\ processed < Cause(xe)
             /\ IsButton(xe) => EventAt(r, 0) = xe
             /\ ~IsButton(xe) => ~IsButton(EventAt(r, 0)) /\ xe.pos <= EventAt(r, 0).pos
  <2>1. /\ Seen(Cause(xe)) /\ q.head # q.tail
        /\ IsButton(xe) => EventAt(q, 0) = xe
        /\ ~IsButton(xe) => ~IsButton(EventAt(q, 0)) /\ xe.pos <= EventAt(q, 0).pos
    BY <1>6 DEF IInv, CopyInv, NotEmpty, Queue
  <2>2. CASE EventAt(r, 0) = EventAt(q, 0)
    BY <2>1, <2>2 DEF Seen
  <2>3. CASE /\ ~IsButton(EventAt(q, 0)) /\ ~IsButton(EventAt(r, 0))
             /\ Cause(EventAt(r, 0)) = serial + 1
    <3>1. EventAt(r, 0).pos = serial + 1 /\ ~IsButton(xe)
      BY <2>1, <2>3 DEF Cause
    <3>2. 0 \in Ranks(q) /\ EventAt(q, 0) \in Events
      BY <1>1, <2>1, OccupiedRange, EventAtType DEF Ranks
    <3>3. EventAt(q, 0).pos <= serial
      BY <2>3, <3>2 DEF IInv, RingInv, Ordered, Queue, Cause
    <3>4. xe.pos \in Nat /\ EventAt(q, 0).pos \in Nat
      BY <3>2, HistoryFacts DEF Events, Positions
    <3> QED BY <2>1, <2>3, <3>1, <3>3, <3>4, HistoryFacts DEF Seen
  <2> QED BY <1>2, <2>1, <2>2, <2>3
<1>7. ASSUME pc' = "process"
      PROVE  /\ sprite.hot.pos < Cause(xe) /\ processed < Cause(xe)
             /\ Cause(xe) <= serial + 1
             /\ \A k \in Ranks(r) : Cause(xe) < Cause(EventAt(r, k))
  <2>1. Seen(Cause(xe)) /\ \A k \in Ranks(q) : Cause(xe) < Cause(EventAt(q, k))
    BY <1>7 DEF IInv, CopyInv, Queue
  <2>2. Cause(xe) <= serial
    BY <1>7 DEF IInv, CopyInv
  <2> QED BY <1>2, <2>1, <2>2, HistoryFacts, CauseFacts DEF Seen
<1>8. CopyInv'
  <2>1. /\ pc' \notin {"switch", "read", "skip", "newScreen"}
        /\ sprite.hotPhys = sprite.hot /\ sprite.hot.pos <= serial + 1 /\ processed <= serial + 1
    BY HistoryFacts DEF IInv, CopyInv
  <2>2. /\ NotEmpty' = (r.head # r.tail)
        /\ Seen(Cause(xe))' = (sprite.hot.pos < Cause(xe) /\ processed < Cause(xe))
    BY DEF NotEmpty, Seen
  <2>3. pc' = "advance" =>
          /\ Seen(Cause(xe))'
          /\ IsButton(xe') => EventAt(r, 0) = xe'
          /\ ~IsButton(xe') => ~IsButton(EventAt(r, 0)) /\ xe'.pos <= EventAt(r, 0).pos
    BY <1>6, <2>2
  <2>4. pc' = "process" =>
          /\ Seen(Cause(xe))' /\ Cause(xe') <= serial'
          /\ \A k \in Ranks(r) : Cause(xe') < Cause(EventAt(r, k))
    BY <1>7, <2>2
  <2> QED BY <1>5, <2>1, <2>2, <2>3, <2>4 DEF CopyInv, Queue
<1> QED BY <1>4, <1>8

(* The first event, when there is one, is the next that dix will see.      *)
LEMMA HeadFacts ==
    ASSUME IInv, NotEmpty
    PROVE  /\ 0 \in Ranks(xf86EventQueue) /\ EventAt(xf86EventQueue, 0) = SlotAtHead
           /\ SlotAtHead \in Events /\ Cause(SlotAtHead) <= serial /\ Seen(Cause(SlotAtHead))
<1>1. xf86EventQueue \in QueueRecords /\ Occupied(xf86EventQueue) # 0
  BY HistoryFacts
<1>2. 0 \in Ranks(xf86EventQueue)
  BY <1>1, OccupiedRange DEF Ranks
<1>3. EventAt(xf86EventQueue, 0) = SlotAtHead
  BY <1>1, SlotFacts DEF EventAt, SlotAtHead
<1>4. EventAt(xf86EventQueue, 0) \in Events
  BY <1>1, <1>2, EventAtType
<1> QED BY <1>2, <1>3, <1>4 DEF IInv, RingInv, Ordered, Queue

LEMMA CopyStep ==
    ASSUME IInv, CopyEvent
    PROVE  RingInv' /\ CopyInv'
<1>1. /\ UNCHANGED <<xf86EventQueue, sprite, processed, serial, happened>>
      /\ pc' = "advance" /\ xe' = SlotAtHead
  BY DEF CopyEvent, Goto, handlerVars, dixVars
<1>2. RingInv'
  BY <1>1 DEF IInv, RingInv, Queue, Seen
<1>3. NotEmpty
  BY DEF IInv, CopyInv, CopyEvent, Goto
<1>4. SlotAtHead.pos \in Nat
  BY <1>3, HeadFacts DEF Events, Positions
<1>5. Seen(Cause(xe))' /\ NotEmpty'
  <2>1. sprite.hot.pos < Cause(xe') /\ processed < Cause(xe')
    BY <1>1, <1>3, HeadFacts DEF Seen
  <2> QED BY <1>1, <1>3, <2>1 DEF Seen, NotEmpty
<1>6. /\ IsButton(xe') => EventAt(xf86EventQueue', 0) = xe'
      /\ ~IsButton(xe') => /\ ~IsButton(EventAt(xf86EventQueue', 0))
                           /\ xe'.pos <= EventAt(xf86EventQueue', 0).pos
  <2>1. EventAt(xf86EventQueue', 0) = SlotAtHead
    BY <1>1, <1>3, HeadFacts
  <2> QED BY <1>1, <1>4, <2>1
<1>7. sprite'.hotPhys = sprite'.hot /\ sprite'.hot.pos <= serial' /\ processed' <= serial'
  BY <1>1 DEF IInv, CopyInv
<1> QED BY <1>1, <1>2, <1>5, <1>6, <1>7 DEF CopyInv, Queue

LEMMA TakeStep ==
    ASSUME IInv, TakeEvent
    PROVE  RingInv' /\ CopyInv'
<1> DEFINE q == xf86EventQueue
           r == xf86EventQueue'
<1>1. /\ UNCHANGED <<sprite, processed, serial, happened, xe>>
      /\ pc = "advance" /\ pc' = "process" /\ r = [q EXCEPT !.head = Successor(@)]
  BY DEF TakeEvent, AdvanceHead, Goto, handlerVars, dixVars
<1>2. /\ NotEmpty /\ Seen(Cause(xe))
      /\ IsButton(xe) => EventAt(q, 0) = xe
      /\ ~IsButton(xe) => ~IsButton(EventAt(q, 0)) /\ xe.pos <= EventAt(q, 0).pos
  BY <1>1 DEF IInv, CopyInv, Queue
<1>3. /\ q \in QueueRecords /\ q.head # q.tail /\ serial \in Nat
      /\ Ordered(q, serial) /\ Merged(q)
  BY <1>2, HistoryFacts DEF IInv, RingInv, Queue, NotEmpty
<1>4. /\ Ordered(r, serial) /\ Merged(r)
      /\ \A k \in Ranks(r) : Cause(EventAt(q, 0)) < Cause(EventAt(r, k))
  BY <1>1, <1>3, AdvanceOrdered
<1>5. r \in QueueRecords
  BY <1>1, <1>3, AdvanceFacts
<1>6. EventAt(q, 0) \in Events /\ Cause(EventAt(q, 0)) <= serial /\ Seen(Cause(EventAt(q, 0)))
  BY <1>2, HeadFacts
<1>7. Cause(xe) <= Cause(EventAt(q, 0))
  <2>1. Cause(xe) \in Nat
    BY HistoryFacts, CauseFacts
  <2> QED BY <1>2, <2>1 DEF Cause
<1>8. /\ Cause(xe) \in Nat /\ Cause(EventAt(q, 0)) \in Nat
      /\ \A k \in Ranks(r) : Cause(EventAt(r, k)) \in Nat
  BY <1>5, <1>6, HistoryFacts, CauseFacts, EventAtType
<1>9. \A k \in Ranks(r) : /\ sprite.hot.pos < Cause(EventAt(r, k))
                          /\ processed < Cause(EventAt(r, k))
                          /\ Cause(xe) < Cause(EventAt(r, k))
  BY <1>4, <1>6, <1>7, <1>8, HistoryFacts DEF Seen
<1>10. RingInv'
  BY <1>1, <1>4, <1>9, HistoryFacts DEF RingInv, Queue, Seen
<1>11. Seen(Cause(xe))' /\ Cause(xe') <= serial'
  <2>1. sprite'.hot.pos < Cause(xe') /\ processed' < Cause(xe') /\ Cause(xe') <= serial'
    BY <1>1, <1>2, <1>6, <1>7, <1>8, HistoryFacts DEF Seen
  <2> QED BY <1>1, <2>1 DEF Seen
<1>12. \A k \in Ranks(r) : Cause(xe') < Cause(EventAt(r, k))
  BY <1>1, <1>9
<1>13. sprite'.hotPhys = sprite'.hot /\ sprite'.hot.pos <= serial' /\ processed' <= serial'
  BY <1>1 DEF IInv, CopyInv
<1> QED BY <1>1, <1>10, <1>11, <1>12, <1>13 DEF CopyInv, Queue

LEMMA ProcessStep ==
    ASSUME IInv, ProcessEvent
    PROVE  RingInv' /\ CopyInv'
<1> DEFINE q == xf86EventQueue
<1>1. /\ UNCHANGED <<xf86EventQueue, serial, happened>>
      /\ pc = "process" /\ pc' = "idle"
      /\ \/ sprite' = sprite /\ processed' = Cause(xe)
         \/ /\ sprite'.hot.pos = Cause(xe) /\ sprite'.hotPhys = sprite'.hot
            /\ processed' = processed
  <2>1. CASE xe.type = "Motion"
    <3>1. /\ sprite' = [hotPhys |-> [sprite.hotPhys EXCEPT !.pos = xe.pos],
                       hot |-> [sprite.hotPhys EXCEPT !.pos = xe.pos]]
          /\ processed' = processed
      BY <2>1 DEF ProcessEvent
    <3>2. sprite'.hot.pos = xe.pos /\ sprite'.hotPhys = sprite'.hot
      BY <3>1 DEF IInv, TypeOK, Points
    <3> QED BY <2>1, <3>1, <3>2 DEF ProcessEvent, Goto, handlerVars, Cause, IsButton
  <2>2. CASE xe.type # "Motion"
    BY <2>2 DEF ProcessEvent, Goto, handlerVars, Cause, IsButton
  <2> QED BY <2>1, <2>2
<1>2. /\ Seen(Cause(xe)) /\ Cause(xe) <= serial
      /\ \A k \in Ranks(q) : Cause(xe) < Cause(EventAt(q, k))
  BY <1>1 DEF IInv, CopyInv, Queue
<1>3. \A k \in Ranks(q) : sprite'.hot.pos < Cause(EventAt(q, k))
                        /\ processed' < Cause(EventAt(q, k))
  BY <1>1, <1>2 DEF IInv, RingInv, Queue, Seen
<1>4. RingInv'
  BY <1>1, <1>3 DEF IInv, RingInv, Queue, Seen
<1>5. CopyInv'
  BY <1>1, <1>2, HistoryFacts DEF IInv, CopyInv
<1> QED BY <1>4, <1>5

LEMMA OrderStep ==
    ASSUME OneScreen, IInv, [Step]_vars
    PROVE  RingInv' /\ CopyInv'
<1>1. TypeOK /\ serial \in Nat
  BY HistoryFacts DEF IInv
<1>2. ASSUME NEW s \in Screens, NEW t \in Times,
             PostMotionEvent(s, t) \/ ProcWarpPointer(s, t)
      PROVE  RingInv' /\ CopyInv'
  <2> DEFINE e == Motion(serial + 1, t)
  <2>1. serial' = serial + 1 /\ serial + 1 \in Positions
    BY <1>1, <1>2, NextSerial DEF PostMotionEvent, ProcWarpPointer
  <2>2. e \in Events /\ Cause(e) = serial + 1
    BY <2>1, EventTypes DEF Motion, NoEvent, Cause, IsButton
  <2>3. s = miPointer.pScreen /\ s = sprite.hotPhys.pScreen
    BY <1>1, OneScreenFacts
  <2>4. xf86EventQueue' = Enqueue(xf86EventQueue, e)
    BY <1>2, <2>3 DEF PostMotionEvent, ProcWarpPointer, MovePointer
  <2>5. /\ UNCHANGED <<happened, sprite, processed, xe>>
        /\ pc' = pc \/ pc' \in {"idle", "wait"}
    BY <1>2, <2>3 DEF PostMotionEvent, ProcWarpPointer, EndsSelect, Goto, dixVars
  <2> HIDE DEF e
  <2> QED BY <2>1, <2>2, <2>4, <2>5, NewEvent
<1>3. ASSUME NEW p \in UninitPositions, NEW t \in Times, PostButtonEvent(p, t)
      PROVE  RingInv' /\ CopyInv'
  <2> DEFINE e == Button(xf86CoreButtonState', serial + 1, p, t)
  <2>1. serial' = serial + 1 /\ serial + 1 \in Positions
    BY <1>1, <1>3, NextSerial DEF PostButtonEvent
  <2>2. e \in Events /\ Cause(e) = serial + 1
    <3>1. xf86CoreButtonState' \in BOOLEAN /\ p \in Positions
      BY <1>1, <1>3, ConstantFacts DEF TypeOK, PostButtonEvent
    <3> QED BY <2>1, <3>1, EventTypes DEF Button, NoEvent, Cause, IsButton
  <2>3. /\ xf86EventQueue' = Enqueue(xf86EventQueue, e)
        /\ UNCHANGED <<sprite, processed, xe>> /\ happened' = serial + 1
        /\ pc' = pc \/ pc' \in {"idle", "wait"}
    BY <1>3 DEF PostButtonEvent, EndsSelect, dixVars
  <2> HIDE DEF e
  <2> QED BY <2>1, <2>2, <2>3, NewEvent
<1>4. CASE CompareScreens
  <2>1. /\ UNCHANGED <<xf86EventQueue, sprite, processed, serial, happened>>
        /\ NotEmpty /\ pc' = "copy"
    BY <1>1, <1>4, OneScreenFacts DEF CompareScreens, Goto, handlerVars, dixVars
  <2> QED BY <2>1 DEF IInv, RingInv, CopyInv, Queue, Seen, NotEmpty
<1>5. CASE NoInput \/ CallSelect \/ SelectReturns \/ ProcOther
  <2>1. /\ UNCHANGED <<xf86EventQueue, sprite, processed, serial, happened>>
        /\ pc' \in {"idle", "wait", "select", "request"}
    BY <1>5 DEF NoInput, CallSelect, SelectReturns, ProcOther, Goto, handlerVars, dixVars
  <2> QED BY <2>1 DEF IInv, RingInv, CopyInv, Queue, Seen
<1>6. CASE CopyEvent
  BY <1>6, CopyStep
<1>7. CASE TakeEvent
  BY <1>7, TakeStep
<1>8. CASE ProcessEvent
  BY <1>8, ProcessStep
<1>9. CASE UNCHANGED vars
  BY <1>9 DEF IInv, RingInv, CopyInv, Queue, Seen, NotEmpty, vars
<1>10. ~SwitchDequeueScreen /\ ~ReadPosition /\ ~SkipEvent /\ \A t \in Times : ~NewCurrentScreen(t)
  BY DEF IInv, CopyInv, SwitchDequeueScreen, ReadPosition, SkipEvent, NewCurrentScreen, Goto
<1> QED BY <1>2, <1>3, <1>4, <1>5, <1>6, <1>7, <1>8, <1>9, <1>10, ConstantFacts
        DEF Step, Handler, MainProgram, ProcessInputEvents, Request

---------------------------------------------------------------------------
(* The button events of the ring, and InputFifo.                           *)

LEMMA ButtonsFinite ==
    ASSUME NEW q \in QueueRecords
    PROVE  /\ IsFiniteSet(WaitingButtons(q)) /\ WaitingButtons(q) \subseteq Nat
           /\ Cardinality(WaitingButtons(q)) \in Nat
<1>1. WaitingButtons(q) \subseteq 0 .. MaxInputs
  <2>1. \A k \in Ranks(q) : EventAt(q, k).serial \in 0 .. MaxInputs
    BY EventAtType DEF Events, Positions
  <2> QED BY <2>1 DEF WaitingButtons
<1>2. IsFiniteSet(0 .. MaxInputs)
  <2>1. 0 \in Int /\ MaxInputs \in Int
    BY EventQueueAssumption
  <2> QED BY <2>1, FS_Interval
<1>3. IsFiniteSet(WaitingButtons(q))
  BY <1>1, <1>2, FS_Subset
<1> QED BY <1>1, <1>3, FS_CardinalityType

(* A full ring holds a button event in each pair of slots.                 *)
LEMMA FullOfButtons ==
    ASSUME NEW q \in QueueRecords, NEW s \in Nat, Ordered(q, s), Merged(q),
           Occupied(q) = QUEUE_SIZE - 1
    PROVE  Cardinality(WaitingButtons(q)) >= (QUEUE_SIZE - 1) \div 2
<1>1. PICK n \in Nat : n = QUEUE_SIZE - 1 /\ Ranks(q) = 0 .. n - 1
  BY SizeFacts DEF Ranks
<1>2. PICK c \in Nat : c = (QUEUE_SIZE - 1) \div 2 /\ 2 * c <= n
  BY <1>1
<1> DEFINE g[m \in 1 .. c] == IF IsButton(EventAt(q, 2 * m - 2)) THEN 2 * m - 2 ELSE 2 * m - 1
           f == [m \in 1 .. c |-> EventAt(q, g[m]).serial]
<1>3. ASSUME NEW m \in 1 .. c
      PROVE  /\ g[m] \in Ranks(q) /\ IsButton(EventAt(q, g[m]))
             /\ g[m] \in {2 * m - 2, 2 * m - 1}
  <2>1. 2 * m - 2 \in Ranks(q) /\ 2 * m - 1 \in Ranks(q) /\ (2 * m - 2) + 1 = 2 * m - 1
    BY <1>1, <1>2
  <2>2. IsButton(EventAt(q, 2 * m - 2)) \/ IsButton(EventAt(q, 2 * m - 1))
    <3>1. IsButton(EventAt(q, 2 * m - 2)) \/ IsButton(EventAt(q, (2 * m - 2) + 1))
      BY <2>1 DEF Merged
    <3> QED BY <2>1, <3>1
  <2>3. g[m] = IF IsButton(EventAt(q, 2 * m - 2)) THEN 2 * m - 2 ELSE 2 * m - 1
    OBVIOUS
  <2> QED BY <2>1, <2>2, <2>3
<1> HIDE DEF g
<1>4. ASSUME NEW m \in 1 .. c, NEW l \in 1 .. c, m < l
      PROVE  f[m] < f[l]
  <2>1. g[m] < g[l] /\ g[m] \in Ranks(q) /\ g[l] \in Ranks(q)
    BY <1>3, <1>4
  <2>2. Cause(EventAt(q, g[m])) < Cause(EventAt(q, g[l]))
    BY <2>1 DEF Ordered
  <2> QED BY <1>3, <2>2 DEF Cause
<1>5. f \in Injection(1 .. c, WaitingButtons(q))
  <2>1. \A m \in 1 .. c : f[m] \in WaitingButtons(q) /\ f[m] \in Nat
    BY <1>3, ButtonsFinite DEF WaitingButtons
  <2>2. \A m, l \in 1 .. c : f[m] = f[l] => m = l
    BY <1>4, <2>1
  <2> QED BY <2>1, <2>2 DEF Injection, IsInjective
<1>6. Cardinality(1 .. c) <= Cardinality(WaitingButtons(q))
  BY <1>5, ButtonsFinite, FS_Injection
<1>7. Cardinality(1 .. c) = c
  <2>1. 1 \in Int /\ c \in Int
    OBVIOUS
  <2>2. Cardinality(1 .. c) = IF 1 > c THEN 0 ELSE c - 1 + 1
    BY <2>1, FS_Interval
  <2> QED BY <2>2
<1> QED BY <1>2, <1>6, <1>7, ButtonsFinite

(* Of a new event, the button events that wait tell only if it is one.     *)
LEMMA EnqueueButtons ==
    ASSUME NEW q \in QueueRecords, NEW e \in Events, NEW s \in Nat, Ordered(q, s), Merged(q),
           NEW r, r = Enqueue(q, e)
    PROVE  \/ WaitingButtons(r) = WaitingButtons(q) \cup (IF IsButton(e) THEN {e.serial} ELSE {})
           \/ /\ r = q /\ IsButton(e)
              /\ Cardinality(WaitingButtons(q)) >= (QUEUE_SIZE - 1) \div 2
<1> DEFINE n == Occupied(q)
<1>1. n \in Nat /\ (n = 0 <=> q.head = q.tail) /\ Ranks(q) = 0 .. n - 1
  BY OccupiedRange, SizeFacts DEF Ranks
<1>2. CASE Tossed(q, r)
  <2>1. r = q /\ Occupied(q) = QUEUE_SIZE - 1
    BY <1>2 DEF Tossed
  <2>2. CASE IsButton(e)
    BY <2>1, <2>2, FullOfButtons
  <2>3. CASE ~IsButton(e)
    BY <2>1, <2>3
  <2> QED BY <2>2, <2>3
<1>3. CASE Appended(q, r, e)
  <2>1. /\ Ranks(r) = 0 .. n /\ \A k \in 0 .. n - 1 : EventAt(r, k) = EventAt(q, k)
        /\ EventAt(r, n).serial = e.serial /\ IsButton(EventAt(r, n)) = IsButton(e)
    BY <1>1, <1>3 DEF Appended, Stamped, IsButton, Ranks
  <2>2. \A x : x \in Ranks(r) <=> x \in 0 .. n - 1 \/ x = n
    BY <1>1, <2>1
  <2> QED BY <1>1, <2>1, <2>2 DEF WaitingButtons
<1>4. CASE Replaced(q, r, e)
  <2>1. /\ Ranks(r) = Ranks(q) /\ ~IsButton(e) /\ ~IsButton(EventAt(r, n - 1))
        /\ \A k \in Ranks(q) : k # n - 1 => EventAt(r, k) = EventAt(q, k)
    BY <1>4 DEF Replaced, Stamped, IsButton, Ranks
  <2>2. ~IsButton(EventAt(q, n - 1))
    BY <1>4 DEF Replaced, Merged
  <2> QED BY <2>1, <2>2 DEF WaitingButtons
<1> QED BY <1>2, <1>3, <1>4, EnqueueFacts

(* Of the events taken off the ring, the one that waits longest is first.  *)
LEMMA AdvanceButtons ==
    ASSUME NEW q \in QueueRecords, q.head # q.tail, NEW s \in Nat, Ordered(q, s),
           NEW r, r = [q EXCEPT !.head = Successor(@)]
    PROVE  IF IsButton(EventAt(q, 0))
           THEN /\ EventAt(q, 0).serial \in WaitingButtons(q)
                /\ \A n \in WaitingButtons(q) : EventAt(q, 0).serial <= n
                /\ WaitingButtons(r) = WaitingButtons(q) \ {EventAt(q, 0).serial}
           ELSE WaitingButtons(r) = WaitingButtons(q)
<1> DEFINE n == Occupied(q)
<1>1. /\ n \in Nat /\ n > 0 /\ Ranks(q) = 0 .. n - 1
      /\ \A k \in Ranks(q) : EventAt(q, k).serial \in Nat
  <2>1. n \in Nat /\ n > 0 /\ Ranks(q) = 0 .. n - 1
    BY OccupiedRange, SizeFacts DEF Ranks
  <2> QED BY <2>1, EventAtType DEF Events, Positions
<1>2. Ranks(r) = 0 .. n - 2 /\ \A k \in Ranks(r) : EventAt(r, k) = EventAt(q, k + 1)
  <2>1. Ranks(r) = 0 .. (n - 1) - 1
    BY AdvanceFacts DEF Ranks
  <2>2. (n - 1) - 1 = n - 2
    BY <1>1
  <2> QED BY <2>1, <2>2, AdvanceFacts
<1>3. \A k \in Ranks(q) : k = 0 \/ (k - 1 \in Ranks(r) /\ EventAt(q, k) = EventAt(r, k - 1))
  <2> SUFFICES ASSUME NEW k \in Ranks(q), k # 0
               PROVE  k - 1 \in Ranks(r) /\ EventAt(q, k) = EventAt(r, k - 1)
    OBVIOUS
  <2>1. k - 1 \in Ranks(r) /\ (k - 1) + 1 = k
    BY <1>1, <1>2
  <2> QED BY <1>2, <2>1
<1>4. \A k \in Ranks(r) : k + 1 \in Ranks(q) /\ k + 1 # 0 /\ EventAt(r, k) = EventAt(q, k + 1)
  BY <1>1, <1>2
<1>5. CASE IsButton(EventAt(q, 0))
  <2>1. \A k \in Ranks(q) : k # 0 /\ IsButton(EventAt(q, k)) =>
          EventAt(q, 0).serial < EventAt(q, k).serial
    <3>1. \A k \in Ranks(q) : k # 0 => Cause(EventAt(q, 0)) < Cause(EventAt(q, k))
      BY <1>1 DEF Ordered
    <3> QED BY <1>5, <3>1 DEF Cause
  <2>2. 0 \in Ranks(q)
    BY <1>1
  <2>3. EventAt(q, 0).serial \in WaitingButtons(q)
    BY <1>5, <2>2 DEF WaitingButtons
  <2>4. \A m \in WaitingButtons(q) : EventAt(q, 0).serial <= m
    BY <1>1, <2>1, <2>2 DEF WaitingButtons
  <2>5. EventAt(q, 0).serial \notin WaitingButtons(r)
    BY <1>1, <1>4, <2>1, <2>2 DEF WaitingButtons
  <2>6. WaitingButtons(r) = WaitingButtons(q) \ {EventAt(q, 0).serial}
    BY <1>3, <1>4, <2>5 DEF WaitingButtons
  <2> QED BY <1>5, <2>3, <2>4, <2>6
<1>6. CASE ~IsButton(EventAt(q, 0))
  BY <1>3, <1>4, <1>6 DEF WaitingButtons
<1> QED BY <1>5, <1>6

LEMMA InputFifoStep ==
    ASSUME OneScreen, IInv, [Step]_vars
    PROVE  [Fifo!Next]_(Fifo!fifoVars)
<1> DEFINE q == xf86EventQueue
           r == xf86EventQueue'
           inHand == IF pc = "process" /\ IsButton(xe) THEN xe.serial ELSE 0
           W == WaitingButtons(xf86EventQueue)
<1> USE DEF Fifo!Next, Fifo!fifoVars
<1>1. /\ TypeOK /\ serial \in Nat /\ happened \in Nat /\ happened < serial + 1
      /\ q \in QueueRecords /\ Ordered(q, serial) /\ Merged(q)
  BY HistoryFacts DEF IInv, RingInv, Queue
<1>2. ASSUME UNCHANGED <<processed, happened>>, W' = W, inHand' = inHand
      PROVE  UNCHANGED Fifo!fifoVars
  BY <1>2
<1>3. ASSUME NEW s \in Screens, NEW t \in Times,
             PostMotionEvent(s, t) \/ ProcWarpPointer(s, t)
      PROVE  UNCHANGED Fifo!fifoVars
  <2> DEFINE e == Motion(serial + 1, t)
  <2>1. e \in Events /\ ~IsButton(e)
    <3>1. serial + 1 \in Positions
      BY <1>1, <1>3, NextSerial DEF PostMotionEvent, ProcWarpPointer
    <3> QED BY <3>1, EventTypes DEF Motion, NoEvent, IsButton
  <2>2. s = miPointer.pScreen
    BY <1>1, OneScreenFacts
  <2>3. r = Enqueue(q, e)
    BY <1>3, <2>2 DEF PostMotionEvent, ProcWarpPointer, MovePointer
  <2> HIDE DEF e
  <2>4. W' = W
    <3>1. WaitingButtons(r) = WaitingButtons(q) \cup (IF IsButton(e) THEN {e.serial} ELSE {})
      BY <1>1, <2>1, <2>3, EnqueueButtons
    <3> QED BY <2>1, <3>1
  <2>5. UNCHANGED <<processed, happened, xe>> /\ (pc' = "process" <=> pc = "process")
    BY <1>3 DEF PostMotionEvent, ProcWarpPointer, EndsSelect, Goto, dixVars
  <2> QED BY <1>2, <2>4, <2>5
<1>4. ASSUME NEW p \in UninitPositions, NEW t \in Times, PostButtonEvent(p, t)
      PROVE  Fifo!Accept \/ Fifo!Refuse
  <2> DEFINE e == Button(xf86CoreButtonState', serial + 1, p, t)
  <2>1. e \in Events /\ IsButton(e) /\ e.serial = serial + 1
    <3>1. xf86CoreButtonState' \in BOOLEAN /\ p \in Positions
      BY <1>1, <1>4, ConstantFacts DEF TypeOK, PostButtonEvent
    <3>2. serial + 1 \in Positions
      BY <1>1, <1>4, NextSerial DEF PostButtonEvent
    <3> QED BY <3>1, <3>2, EventTypes DEF Button, NoEvent, IsButton
  <2>2. r = Enqueue(q, e)
    BY <1>4 DEF PostButtonEvent
  <2> HIDE DEF e
  <2>3. W' = W \cup {serial + 1} \/ (W' = W /\ Cardinality(W) >= (QUEUE_SIZE - 1) \div 2)
    BY <1>1, <2>1, <2>2, EnqueueButtons
  <2>4. /\ UNCHANGED <<processed, xe>> /\ happened' = serial + 1
        /\ (pc' = "process" <=> pc = "process")
    BY <1>4 DEF PostButtonEvent, EndsSelect, dixVars
  <2>5. inHand' = inHand
    BY <2>4
  <2>6. CASE W' = W \cup {serial + 1}
    BY <1>1, <2>4, <2>5, <2>6 DEF Fifo!Accept
  <2>7. CASE W' = W /\ Cardinality(W) >= (QUEUE_SIZE - 1) \div 2
    <3>1. happened' > happened /\ UNCHANGED <<W, inHand, processed>>
      BY <1>1, <2>4, <2>5, <2>7
    <3>2. Fifo!Cardinality(W) = Cardinality(W)
      BY Zenon DEF Fifo!Cardinality, Cardinality
    <3> QED BY <2>7, <3>1, <3>2 DEF Fifo!Refuse
  <2> QED BY <2>3, <2>6, <2>7
<1>5. CASE TakeEvent
  <2>1. /\ UNCHANGED <<processed, happened, xe>>
        /\ pc = "advance" /\ pc' = "process" /\ r = [q EXCEPT !.head = Successor(@)]
    BY <1>5 DEF TakeEvent, AdvanceHead, Goto, handlerVars, dixVars
  <2>2. /\ q.head # q.tail
        /\ IsButton(xe) => EventAt(q, 0) = xe
        /\ ~IsButton(xe) => ~IsButton(EventAt(q, 0))
    BY <2>1 DEF IInv, CopyInv, NotEmpty, Queue
  <2>3. IF IsButton(EventAt(q, 0))
        THEN /\ EventAt(q, 0).serial \in W /\ \A n \in W : EventAt(q, 0).serial <= n
             /\ W' = W \ {EventAt(q, 0).serial}
        ELSE W' = W
    BY <1>1, <2>1, <2>2, AdvanceButtons
  <2>4. inHand = 0 /\ inHand' = IF IsButton(xe) THEN xe.serial ELSE 0
    BY <2>1
  <2>5. CASE IsButton(xe)
    BY <2>1, <2>2, <2>3, <2>4, <2>5 DEF Fifo!Take
  <2>6. CASE ~IsButton(xe)
    BY <2>1, <2>2, <2>3, <2>4, <2>6
  <2> QED BY <2>5, <2>6
<1>6. CASE ProcessEvent
  <2>1. UNCHANGED <<xf86EventQueue, happened>> /\ pc = "process" /\ pc' = "idle"
    BY <1>6 DEF ProcessEvent, Goto, handlerVars
  <2>2. W' = W /\ inHand' = 0
    BY <2>1
  <2>3. CASE IsButton(xe)
    <3>1. processed' = xe.serial /\ inHand = xe.serial
      BY <1>6, <2>1, <2>3 DEF ProcessEvent, IsButton
    <3>2. xe.serial # 0
      <4>1. processed < xe.serial
        BY <2>1, <2>3 DEF IInv, CopyInv, Seen, Cause
      <4> QED BY <4>1, HistoryFacts
    <3> QED BY <2>1, <2>2, <3>1, <3>2 DEF Fifo!Process
  <2>4. CASE ~IsButton(xe)
    <3>1. processed' = processed /\ inHand = 0
      BY <1>6, <2>4 DEF ProcessEvent, IsButton
    <3> QED BY <1>2, <2>1, <2>2, <3>1
  <2> QED BY <2>3, <2>4
<1>7. CASE NoInput \/ CallSelect \/ SelectReturns \/ ProcOther \/ CompareScreens \/ CopyEvent
  <2>1. /\ UNCHANGED <<xf86EventQueue, processed, happened>>
        /\ pc # "process" /\ pc' # "process"
    BY <1>7 DEF NoInput, CallSelect, SelectReturns, ProcOther, CompareScreens, CopyEvent, Goto,
       handlerVars, dixVars
  <2> QED BY <1>2, <2>1
<1>8. CASE UNCHANGED vars
  BY <1>8 DEF vars
<1>9. ~SwitchDequeueScreen /\ ~ReadPosition /\ ~SkipEvent /\ \A t \in Times : ~NewCurrentScreen(t)
  BY DEF IInv, CopyInv, SwitchDequeueScreen, ReadPosition, SkipEvent, NewCurrentScreen, Goto
<1> QED BY <1>3, <1>4, <1>5, <1>6, <1>7, <1>8, <1>9, ConstantFacts
        DEF Step, Handler, MainProgram, ProcessInputEvents, Request

---------------------------------------------------------------------------
(* The theorems.                                                           *)

(* Whatever the size of the ring and the number of screens, the indices    *)
(* stay in the ring and every variable has its type.                       *)
THEOREM TypeInvariant == Spec => []TypeOK
<1>1. TypeOK /\ [Step]_vars => TypeOK'
  BY TypeStep
<1> QED BY <1>1, InitType, PTL DEF Spec

LEMMA InitInv == Init => IInv
<1> SUFFICES ASSUME Init PROVE IInv
  OBVIOUS
<1>1. TypeOK
  BY InitType
<1>2. Ranks(xf86EventQueue) = {} /\ ~NotEmpty
  <2>1. xf86EventQueue.head = 0 /\ xf86EventQueue.tail = 0
    BY DEF Init
  <2>2. Occupied(xf86EventQueue) = 0
    BY <2>1 DEF Occupied
  <2> QED BY <2>1, <2>2 DEF Ranks, NotEmpty
<1>3. RingInv
  BY <1>2 DEF Init, RingInv, Ordered, Merged, Queue, NotEmpty
<1>4. CopyInv
  BY <1>2 DEF Init, CopyInv, InitialPoint
<1> QED BY <1>1, <1>3, <1>4 DEF IInv

LEMMA StepInv == ASSUME OneScreen PROVE IInv /\ [Step]_vars => IInv'
  BY TypeStep, OrderStep DEF IInv

LEMMA Invariance == ASSUME OneScreen PROVE Spec => []IInv
  BY InitInv, StepInv, PTL DEF Spec

(* With one screen no motion that happened after a button event reaches    *)
(* dix before it: compression does not cross a button event, at whatever   *)
(* steps of the loop the handler comes in between and wherever the ring    *)
(* wraps.                                                                  *)
THEOREM ButtonsNotOvertaken == ASSUME OneScreen PROVE Spec => []EventQueueInv
<1>1. IInv => EventQueueInv
  BY DEF IInv, CopyInv, Seen, Cause, EventQueueInv, ButtonNotOvertaken
<1> QED BY <1>1, Invariance, PTL

(* With one screen the motions that dix sees go forward in time, although  *)
(* the handler rewrites the slot that is being read.                       *)
THEOREM MotionsForward == ASSUME OneScreen PROVE Spec => MotionsInOrder
<1> DEFINE Forward ==
      sprite'.hot.pos >= sprite.hot.pos /\ sprite'.hotPhys.pos >= sprite.hotPhys.pos
<1>1. IInv /\ [Step]_vars => [Forward]_vars
  <2> SUFFICES ASSUME IInv, [Step]_vars PROVE Forward
    OBVIOUS
  <2>1. sprite.hot.pos \in Nat /\ sprite.hotPhys = sprite.hot /\ sprite'.hotPhys = sprite'.hot
    BY HistoryFacts, OrderStep DEF IInv, CopyInv
  <2>2. CASE sprite' = sprite
    BY <2>1, <2>2
  <2>3. CASE ProcessEvent /\ sprite' # sprite
    <3>1. sprite'.hot.pos = xe.pos /\ ~IsButton(xe) /\ pc = "process"
      BY <2>3 DEF ProcessEvent, IsButton, Goto, IInv, TypeOK, Points
    <3>2. sprite.hot.pos < xe.pos /\ xe.pos \in Nat
      BY <3>1, HistoryFacts DEF IInv, CopyInv, Seen, Cause, Events, Positions
    <3> QED BY <2>1, <3>1, <3>2
  <2>4. sprite' = sprite \/ ProcessEvent
    <3>1. TypeOK /\ \A t \in Times : ~NewCurrentScreen(t)
      BY DEF IInv, CopyInv, NewCurrentScreen, Goto
    <3>2. \A s \in WarpScreens, t \in Times : ProcWarpPointer(s, t) => sprite' = sprite
      BY <3>1, OneScreenFacts, ConstantFacts DEF ProcWarpPointer
    <3> QED BY <3>1, <3>2 DEF Step, Handler, MainProgram, ProcessInputEvents, Request,
            PostMotionEvent, PostButtonEvent, EndsSelect, NoInput, CallSelect, SelectReturns,
            ProcOther, CompareScreens, CopyEvent, TakeEvent, SwitchDequeueScreen, ReadPosition,
            SkipEvent, dixVars, vars
  <2> QED BY <2>2, <2>3, <2>4
<1> QED BY <1>1, Invariance, PTL DEF Spec, MotionsInOrder

(* With one screen, a ring of any size implements the queue that InputFifo *)
(* promises: button events come out in order, each once, and one is        *)
(* refused only when (QUEUE_SIZE - 1) \div 2 of them wait.                 *)
THEOREM FifoImplemented == ASSUME OneScreen PROVE Spec => ImplementsFifo
<1>1. Init => Fifo!Init
  <2> SUFFICES ASSUME Init PROVE Fifo!Init
    OBVIOUS
  <2>1. xf86EventQueue.head = 0 /\ xf86EventQueue.tail = 0
    BY DEF Init
  <2>2. Ranks(xf86EventQueue) = {}
    BY <2>1 DEF Ranks, Occupied
  <2> QED BY <2>2 DEF Init, Fifo!Init, WaitingButtons
<1>2. IInv /\ [Step]_vars => [Fifo!Next]_(Fifo!fifoVars)
  BY InputFifoStep
<1> QED BY <1>1, <1>2, Invariance, PTL DEF Spec, ImplementsFifo, Fifo!Spec

---------------------------------------------------------------------------
(* The work queue.                                                         *)

(* No client of an LBX proxy is closed by EstablishNewConnections: the     *)
(* zombies of one would free the node whose link ProcessWorkQueue, which   *)
(* called it, is going to write.                                           *)
NoLbxStraggler == LbxClients \cap Stragglers = {}

(* What is queued.                                                         *)
Establish == Work("EstablishNewConnections", NoClient)
Font(c) == Work("doOpenFont", c)
Lbx(c) == Work("LbxWaitForUnblocked", c)

Works == {Establish} \cup {Font(c) : c \in Sleepers} \cup {Lbx(c) : c \in LbxClients}

(* Queues, whole or not, and loops.                                        *)
Lists == [next : [Locations -> Locations], work : [Nodes -> Works],
          alive : SUBSET Nodes, last : Locations]

Frames == [loop : {"ProcessWorkQueue", "ProcessWorkQueueZombies"}, p : Locations, q : Locations,
           closing : Clients \cup {NoClient}, left : SUBSET Clients]

(* The list of w is L: location k of it is 0 or its node number k.         *)
Node(L, k) == IF k = 0 THEN 0 ELSE L[k]

IsList(w, L) ==
    /\ L \in Seq(Nodes)
    /\ \A i, j \in 1 .. Len(L) : L[i] = L[j] => i = j
    /\ w.alive = {L[i] : i \in 1 .. Len(L)}
    /\ \A k \in 0 .. Len(L) : w.next[Node(L, k)] = IF k < Len(L) THEN L[k + 1] ELSE 0

(* The nodes in the list that have this work.                              *)
Has(w, x) == {n \in w.alive : w.work[n] = x}
AtMostOne(S) == \A m, n \in S : m = n

---------------------------------------------------------------------------
(* The loops: ProcessWorkQueue, alone or calling EstablishNewConnections,  *)
(* and the zombies of a client that is closed, alone or in the midst of    *)
(* that.                                                                   *)
Outer(f) ==
    /\ f.loop = "ProcessWorkQueue" /\ f.closing = NoClient /\ server = "select"
    /\ \A c \in f.left : c \in Stragglers /\ status[c] = "served"

Inner(f) ==
    /\ f.loop = "ProcessWorkQueueZombies" /\ f.q = 0
    /\ f.closing \in Clients /\ status[f.closing] = "gone"

StackInv ==
    \/ stack = <<>>
    \/ \E f \in Frames : stack = <<f>> /\ (Outer(f) \/ (Inner(f) /\ server # "select"))
    \/ \E z, f \in Frames : /\ stack = <<z, f>> /\ Inner(z) /\ z.closing \in Stragglers
                            /\ Outer(f) /\ f.q # 0

(* What a loop has passed it has left in the list for a reason.            *)
Passed(f, x) ==
    IF f.loop = "ProcessWorkQueue" THEN x.function = "LbxWaitForUnblocked"
    ELSE x.client # f.closing

(* The loop f is at location k of the list, and calls the work function of *)
(* the next node if it has not returned.                                   *)
PlacedAt(f, w, L, k) ==
    /\ f.p = Node(L, k)
    /\ \A j \in 1 .. k : Passed(f, w.work[L[j]])
    /\ f.q # 0 => k < Len(L) /\ f.q = L[k + 1] /\ w.work[f.q] = Establish

Placed(f, w, L) == \E k \in 0 .. Len(L) : PlacedAt(f, w, L, k)

(* workQueueLast is only wrong at the end of a loop, which sets it.        *)
LastInv(w, L) ==
    \/ w.last = Node(L, Len(L))
    \/ Running /\ Top.q = 0 /\ Top.p = Node(L, Len(L))

ListInv(L) ==
    IsList(wq, L) /\ LastInv(wq, L) /\ \A i \in DOMAIN stack : Placed(stack[i], wq, L)

---------------------------------------------------------------------------
(* The clients.                                                            *)
TypeInv ==
    /\ wq \in Lists /\ server \in {"Dispatch", "WaitForSomething", "select"}
    /\ sleepQueue \subseteq Sleepers /\ input_blocked \subseteq Clients /\ twice \subseteq Clients
    /\ closure \in [Clients -> {"none", "live", "freed"}]
    /\ blockrec \in [Clients -> {"none", "StillWorking", "answered"}]
    /\ status \in [Clients -> {"none", "served", "gone", "closed"}]

(* How many nodes of a kind there are: memory never runs out.              *)
Counted(w) ==
    /\ AtMostOne(Has(w, Establish))
    /\ \A c \in Clients : /\ AtMostOne(Has(w, Lbx(c)))
                          /\ \E m, n \in Nodes : Has(w, Font(c)) \subseteq {m, n}

CountInv ==
    /\ Counted(wq)
    /\ ~Running /\ server = "select" => Has(wq, Establish) = {}
    /\ \A c \in Clients : /\ Has(wq, Lbx(c)) # {} => c \in input_blocked
                          /\ c \notin twice => AtMostOne(Has(wq, Font(c)))

Asleep(c) == c \in sleepQueue

(* A client: it sleeps if and only if its closure lives; its signal is in  *)
(* the queue once, or twice if it was killed after it had been signalled;  *)
(* and it is gone only while it is being closed.                           *)
SleepInv(c) ==
    /\ Asleep(c) => \/ Has(wq, Font(c)) # {}
                    \/ blockrec[c] = "StillWorking" /\ status[c] # "gone"
    /\ ~Asleep(c) => blockrec[c] = "none" /\ (Has(wq, Font(c)) # {} => c \in twice)
    /\ (closure[c] = "live" <=> Asleep(c))
    /\ blockrec[c] = "StillWorking" /\ Has(wq, Font(c)) # {} => status[c] = "gone"
    /\ c \in twice => status[c] \in {"gone", "closed"}
    /\ status[c] = "closed" => ~Asleep(c) /\ Has(wq, Font(c)) = {} /\ Has(wq, Lbx(c)) = {}
    /\ status[c] = "gone" => Running /\ Top.closing = c

ClientsInv == \A c \in Clients : SleepInv(c)

(* The inductive invariant of the work queue.                              *)
WorkInv ==
    /\ TypeInv /\ StackInv /\ CountInv /\ ClientsInv
    /\ \E L \in Seq(Nodes) : ListInv(L)

---------------------------------------------------------------------------
(* Numbers and constants.                                                  *)

NatLess == {ss \in Nat \X Nat : ss[1] < ss[2]}

LEMMA LeastExists ==
    ASSUME NEW T, T \subseteq Nat, T # {}
    PROVE  \E x \in T : \A y \in T : x <= y
<1>1. IsWellFoundedOn(NatLess, Nat)
  BY NatLessThanWellFounded DEF OpToRel, NatLess
<1>2. PICK x \in T : \A y \in T : ~ (<<y, x>> \in NatLess)
  BY <1>1, WFMin
<1>3. ASSUME NEW y \in T PROVE x <= y
  <2>1. y \in Nat /\ x \in Nat
    OBVIOUS
  <2>2. y < x => <<y, x>> \in NatLess
    BY <2>1 DEF NatLess
  <2> QED BY <1>2, <2>1, <2>2
<1> QED BY <1>3

(* What holds of 0 and goes from a number to the next holds of N.          *)
LEMMA StepByStep ==
    ASSUME NEW N \in Nat, NEW T, T \subseteq 0 .. N, 0 \in T,
           \A m \in 1 .. N : m - 1 \in T => m \in T
    PROVE  N \in T
<1> SUFFICES ASSUME N \notin T PROVE FALSE
  OBVIOUS
<1>1. (0 .. N) \ T \subseteq Nat /\ (0 .. N) \ T # {}
  OBVIOUS
<1>2. PICK x \in (0 .. N) \ T : \A y \in (0 .. N) \ T : x <= y
  BY <1>1, LeastExists
<1>3. x \in 1 .. N /\ x - 1 \in 0 .. N /\ ~(x <= x - 1)
  BY <1>2
<1>4. x - 1 \in T
  BY <1>2, <1>3
<1> QED BY <1>2, <1>3, <1>4

LEMMA NumberFacts ==
    /\ Cardinality(Nodes) \in Nat /\ Nodes = 1 .. Cardinality(Nodes)
    /\ Cardinality(Clients) \in Nat /\ Clients = 1 .. Cardinality(Clients)
    /\ Nodes \subseteq Nat /\ 0 \notin Nodes /\ Clients \subseteq Nat /\ NoClient \notin Clients
    /\ Locations = Nodes \cup {0}
<1>1. Cardinality(Nodes) \in Nat /\ Cardinality(Clients) \in Nat
  BY WorkQueueAssumption, FS_CardinalityType
<1>2. Nodes = 1 .. Cardinality(Nodes) /\ Clients = 1 .. Cardinality(Clients)
  BY WorkQueueAssumption
<1> QED BY <1>1, <1>2 DEF NoClient, Locations

(* The works are told apart by their function and client.                  *)
LEMMA WorkFacts ==
    /\ Establish.client = NoClient /\ Establish.function = "EstablishNewConnections"
    /\ \A c \in Clients : /\ Font(c).client = c /\ Font(c).function = "doOpenFont"
                          /\ Lbx(c).client = c /\ Lbx(c).function = "LbxWaitForUnblocked"
    /\ \A c \in Clients : Font(c) # Establish /\ Lbx(c) # Establish
    /\ \A c, d \in Clients : /\ Font(c) # Lbx(d)
                             /\ Font(c) = Font(d) => c = d
                             /\ Lbx(c) = Lbx(d) => c = d
    /\ Establish \in Works /\ \A c \in Sleepers : Font(c) \in Works
    /\ \A c \in LbxClients : Lbx(c) \in Works
    /\ \A x \in Works : \/ x = Establish
                        \/ \E c \in Sleepers : c \in Clients /\ x = Font(c)
                        \/ \E c \in LbxClients : c \in Clients /\ x = Lbx(c)
  BY WorkQueueAssumption DEF Establish, Font, Lbx, Work, Works

---------------------------------------------------------------------------
(* The list.                                                               *)

LEMMA FreeNodeExists ==
    ASSUME NEW w, w.alive \subseteq Nodes, w.alive # Nodes
    PROVE  FreeNode(w) \in Nodes \ w.alive
<1>1. Nodes \ w.alive \subseteq Nat /\ Nodes \ w.alive # {}
  BY NumberFacts
<1>2. \E n \in Nodes \ w.alive : \A m \in Nodes \ w.alive : n <= m
  BY <1>1, LeastExists
<1> QED BY <1>2 DEF FreeNode

(* A node q with the work x has been added to w.                           *)
Added(w, v, x, q) ==
    /\ q \in Nodes \ w.alive /\ v.alive = w.alive \cup {q}
    /\ v.work = [w.work EXCEPT ![q] = x]

(* A node q has been taken from w.                                         *)
Taken(w, v, q) ==
    q \in w.alive /\ v.alive = w.alive \ {q} /\ v.work = w.work /\ v.last = w.last

LEMMA NodeFacts ==
    ASSUME NEW w, NEW L, IsList(w, L)
    PROVE  /\ Len(L) \in Nat
           /\ \A i \in 1 .. Len(L) : L[i] \in Nodes /\ L[i] \in w.alive /\ L[i] # 0
           /\ \A k \in 0 .. Len(L) : Node(L, k) \in Locations /\ (k # 0 => Node(L, k) = L[k])
           /\ Node(L, 0) = 0
           /\ \A j, k \in 0 .. Len(L) : Node(L, j) = Node(L, k) => j = k
<1>1. L \in Seq(Nodes) /\ Len(L) \in Nat
  BY DEF IsList
<1>2. \A i \in 1 .. Len(L) : L[i] \in Nodes /\ L[i] # 0
  BY <1>1, NumberFacts
<1>3. \A i \in 1 .. Len(L) : L[i] \in w.alive
  BY DEF IsList
<1>4. \A k \in 0 .. Len(L) : k # 0 => k \in 1 .. Len(L)
  BY <1>1
<1>5. \A i, j \in 1 .. Len(L) : L[i] = L[j] => i = j
  BY DEF IsList
<1>6. \A k \in 0 .. Len(L) : Node(L, k) \in Locations /\ (k # 0 => Node(L, k) = L[k])
  BY <1>2, <1>4, NumberFacts DEF Node
<1>7. \A j, k \in 0 .. Len(L) : Node(L, j) = Node(L, k) => j = k
  BY <1>2, <1>4, <1>5 DEF Node
<1> QED BY <1>1, <1>2, <1>3, <1>6, <1>7 DEF Node

(* QueueWorkProc, when there is memory and workQueueLast is right.         *)
LEMMA QueueList ==
    ASSUME NEW w \in Lists, NEW L, IsList(w, L), w.last = Node(L, Len(L)),
           NEW x \in Works, w.alive # Nodes
    PROVE  LET v == QueueWorkProc(w, x)
           IN \E q \in Nodes : /\ v \in Lists /\ Added(w, v, x, q)
                               /\ IsList(v, Append(L, q)) /\ v.last = q
<1> DEFINE q == FreeNode(w)
           v == QueueWorkProc(w, x)
           M == Append(L, q)
           n == Len(L)
<1>1. q \in Nodes /\ q \notin w.alive
  BY FreeNodeExists DEF Lists
<1>2. v = [w EXCEPT !.next = [[w.next EXCEPT ![q] = 0] EXCEPT ![w.last] = q],
                    !.work[q] = x, !.alive = w.alive \cup {q}, !.last = q]
  BY DEF QueueWorkProc
<1> HIDE DEF q, v
<1>3. /\ v.next = [[w.next EXCEPT ![q] = 0] EXCEPT ![w.last] = q]
      /\ v.work = [w.work EXCEPT ![q] = x] /\ v.alive = w.alive \cup {q} /\ v.last = q
  BY <1>2 DEF Lists
<1>4. v \in Lists
  BY <1>1, <1>2, NumberFacts DEF Lists
<1>5. n \in Nat /\ L \in Seq(Nodes) /\ M \in Seq(Nodes) /\ Len(M) = n + 1
  BY <1>1 DEF IsList
<1>6. \A i \in 1 .. n : M[i] = L[i] /\ M[i] # q
  BY <1>1, <1>5, NodeFacts
<1>7. M[n + 1] = q
  BY <1>1, <1>5
<1>8. \A i \in 1 .. n + 1 : i \in 1 .. n \/ i = n + 1
  BY <1>5
<1>9. \A i, j \in 1 .. Len(M) : M[i] = M[j] => i = j
  BY <1>5, <1>6, <1>7, <1>8 DEF IsList
<1>10. v.alive = {M[i] : i \in 1 .. Len(M)}
  <2>1. w.alive = {L[i] : i \in 1 .. n}
    BY DEF IsList
  <2>2. \A i \in 1 .. n : i \in 1 .. n + 1
    BY <1>5
  <2>3. n + 1 \in 1 .. n + 1
    BY <1>5
  <2> QED BY <1>3, <1>5, <1>6, <1>7, <1>8, <2>1, <2>2, <2>3
<1>11. \A k \in 0 .. Len(M) : v.next[Node(M, k)] = IF k < Len(M) THEN M[k + 1] ELSE 0
  <2> SUFFICES ASSUME NEW k \in 0 .. n + 1
               PROVE  v.next[Node(M, k)] = IF k < n + 1 THEN M[k + 1] ELSE 0
    BY <1>5
  <2>1. w.next \in [Locations -> Locations] /\ w.last \in Locations /\ q \in Locations /\ q # 0
    BY <1>1, NumberFacts DEF Lists
  <2>2. w.last # q
    <3>1. CASE n = 0
      BY <2>1, <3>1, NodeFacts
    <3>2. CASE n # 0
      BY <1>1, <1>5, <3>2, NodeFacts
    <3> QED BY <3>1, <3>2
  <2>3. CASE k = n + 1
    <3>1. Node(M, k) = q
      BY <1>5, <1>7, <2>3 DEF Node
    <3> QED BY <1>3, <1>5, <2>1, <2>2, <2>3, <3>1
  <2>4. CASE k # n + 1
    <3>1. k \in 0 .. n /\ (k # 0 => k \in 1 .. n) /\ k < n + 1
      BY <1>5, <2>4
    <3>2. Node(M, k) = Node(L, k)
      BY <1>6, <3>1 DEF Node
    <3>3. Node(L, k) # q /\ Node(L, k) \in Locations
      BY <1>6, <2>1, <3>1, <3>2, NodeFacts DEF Node
    <3>4. CASE k = n
      BY <1>3, <1>7, <2>1, <3>1, <3>2, <3>4
    <3>5. CASE k # n
      <4>1. k < n /\ k + 1 \in 1 .. n /\ n \in 0 .. n
        BY <1>5, <3>1, <3>5
      <4>2. Node(L, k) # w.last
        BY <3>1, <3>5, <4>1, NodeFacts
      <4>3. w.next[Node(L, k)] = L[k + 1]
        BY <3>1, <4>1 DEF IsList
      <4> QED BY <1>3, <1>6, <2>1, <3>1, <3>2, <3>3, <4>1, <4>2, <4>3
    <3> QED BY <3>4, <3>5
  <2> QED BY <2>3, <2>4
<1>12. IsList(v, M)
  BY <1>5, <1>9, <1>10, <1>11 DEF IsList
<1> QED BY <1>1, <1>3, <1>4, <1>12 DEF Added, v

(* The list without its node number i.                                     *)
Without(L, i) == [j \in 1 .. Len(L) - 1 |-> IF j < i THEN L[j] ELSE L[j + 1]]

LEMMA WithoutFacts ==
    ASSUME NEW L \in Seq(Nodes), NEW i \in 1 .. Len(L)
    PROVE  /\ Without(L, i) \in Seq(Nodes) /\ Len(Without(L, i)) = Len(L) - 1
           /\ \A j \in 1 .. Len(L) - 1 : Without(L, i)[j] = IF j < i THEN L[j] ELSE L[j + 1]
           /\ \A j \in 1 .. Len(L) : j # i => \E h \in 1 .. Len(L) - 1 : Without(L, i)[h] = L[j]
<1> DEFINE M == Without(L, i)
           n == Len(L)
<1>1. n \in Nat /\ n - 1 \in Nat /\ \A j \in 1 .. n - 1 : j \in 1 .. n /\ j + 1 \in 1 .. n
  <2>1. n \in Nat /\ i \in 1 .. n
    OBVIOUS
  <2> HIDE DEF n
  <2>2. n - 1 \in Nat
    BY <2>1
  <2>3. ASSUME NEW j \in 1 .. n - 1 PROVE j \in 1 .. n /\ j + 1 \in 1 .. n
    BY <2>1
  <2> QED BY <2>1, <2>2, <2>3
<1>2. M \in [1 .. n - 1 -> Nodes]
  BY <1>1 DEF Without
<1>3. M \in Seq(Nodes) /\ Len(M) = n - 1
  <2> DEFINE m == n - 1
  <2>1. m \in Nat /\ M \in [1 .. m -> Nodes]
    BY <1>1, <1>2
  <2> HIDE DEF M, m
  <2>2. M \in Seq(Nodes) /\ Len(M) = m
    BY ONLY <2>1
  <2> QED BY <2>2 DEF m
<1>4. \A j \in 1 .. n - 1 : M[j] = IF j < i THEN L[j] ELSE L[j + 1]
  BY <1>1 DEF Without
<1>5. ASSUME NEW j \in 1 .. n, j # i PROVE \E h \in 1 .. n - 1 : M[h] = L[j]
  <2>1. CASE j < i
    <3>1. j \in 1 .. n - 1
      BY <1>1, <2>1
    <3> QED BY <1>4, <2>1, <3>1
  <2>2. CASE i < j
    <3>1. j - 1 \in 1 .. n - 1 /\ ~(j - 1 < i) /\ (j - 1) + 1 = j
      BY <1>1, <2>2
    <3> HIDE DEF M
    <3> QED BY <1>4, <3>1
  <2> QED BY <1>5, <2>1, <2>2
<1> QED BY <1>3, <1>4, <1>5

(* A node that the loop is at is taken from the list.                      *)
LEMMA RemoveList ==
    ASSUME NEW w \in Lists, NEW L, IsList(w, L), NEW k \in 0 .. Len(L), k < Len(L)
    PROVE  LET v == Removed(w, Node(L, k), L[k + 1])
               M == Without(L, k + 1)
           IN /\ v \in Lists /\ Taken(w, v, L[k + 1]) /\ IsList(v, M)
              /\ Len(M) = Len(L) - 1
              /\ \A j \in 0 .. k : Node(M, j) = Node(L, j)
              /\ \A j \in k + 1 .. Len(L) - 1 : M[j] = L[j + 1]
<1> DEFINE v == Removed(w, Node(L, k), L[k + 1])
           M == Without(L, k + 1)
           n == Len(L)
           p == Node(L, k)
           q == L[k + 1]
<1>1. /\ n \in Nat /\ k \in Nat /\ k + 1 \in 1 .. n /\ n - 1 \in Nat /\ k \in 0 .. n - 1
      /\ L \in Seq(Nodes)
  BY DEF IsList
<1>2. v = [w EXCEPT !.next[p] = w.next[q], !.alive = w.alive \ {q}]
  BY DEF Removed
<1>3. q \in Nodes /\ q \in w.alive /\ p \in Locations /\ q \in Locations
  BY <1>1, NodeFacts, NumberFacts
<1>4. w.next \in [Locations -> Locations]
  BY DEF Lists
<1>5. /\ M \in Seq(Nodes) /\ Len(M) = n - 1
      /\ \A j \in 1 .. n - 1 : M[j] = IF j < k + 1 THEN L[j] ELSE L[j + 1]
      /\ \A j \in 1 .. n : j # k + 1 => \E h \in 1 .. n - 1 : M[h] = L[j]
  BY <1>1, WithoutFacts
<1> HIDE DEF M, v, p, q
<1>6. v.next = [w.next EXCEPT ![p] = w.next[q]] /\ v.alive = w.alive \ {q}
      /\ v.work = w.work /\ v.last = w.last
  BY <1>2 DEF Lists
<1>7. v \in Lists
  BY <1>2, <1>3, <1>4 DEF Lists
<1>8. \A j \in 0 .. k : Node(M, j) = Node(L, j)
  <2>1. \A j \in 0 .. k : j # 0 => j \in 1 .. n - 1 /\ j < k + 1
    BY <1>1
  <2> QED BY <1>5, <2>1 DEF Node
<1>9. \A j \in k + 1 .. n - 1 : M[j] = L[j + 1]
  <2>1. \A j \in k + 1 .. n - 1 : j \in 1 .. n - 1 /\ ~(j < k + 1)
    BY <1>1
  <2> QED BY <1>5, <2>1
<1>10. \A i, j \in 1 .. n : L[i] = L[j] => i = j
  BY DEF IsList
<1>11. \A i \in 1 .. n - 1 : \E h \in 1 .. n : M[i] = L[h] /\ h = IF i < k + 1 THEN i ELSE i + 1
  <2>1. \A i \in 1 .. n - 1 : i \in 1 .. n /\ i + 1 \in 1 .. n
    BY <1>1
  <2> QED BY <1>5, <2>1
<1>12. \A i, j \in 1 .. n - 1 : M[i] = M[j] => i = j
  <2> SUFFICES ASSUME NEW i \in 1 .. n - 1, NEW j \in 1 .. n - 1, M[i] = M[j] PROVE i = j
    OBVIOUS
  <2>1. PICK h \in 1 .. n : M[i] = L[h] /\ h = IF i < k + 1 THEN i ELSE i + 1
    BY <1>11
  <2>2. PICK g \in 1 .. n : M[j] = L[g] /\ g = IF j < k + 1 THEN j ELSE j + 1
    BY <1>11
  <2>3. h = g
    BY <1>10, <2>1, <2>2
  <2> QED BY <1>1, <2>1, <2>2, <2>3
<1>13. v.alive = {M[i] : i \in 1 .. n - 1}
  <2>1. w.alive = {L[i] : i \in 1 .. n}
    BY DEF IsList
  <2>2. ASSUME NEW i \in 1 .. n - 1 PROVE M[i] \in w.alive \ {q}
    <3>1. PICK h \in 1 .. n : M[i] = L[h] /\ h = IF i < k + 1 THEN i ELSE i + 1
      BY <1>11
    <3>2. h # k + 1
      BY <1>1, <3>1
    <3> QED BY <1>1, <1>10, <2>1, <3>1, <3>2 DEF q
  <2>3. ASSUME NEW m \in w.alive \ {q} PROVE \E i \in 1 .. n - 1 : m = M[i]
    <3>1. PICK h \in 1 .. n : m = L[h]
      BY <2>1
    <3>2. h # k + 1
      BY <3>1 DEF q
    <3> QED BY <1>5, <3>1, <3>2
  <2> QED BY <1>6, <2>2, <2>3
<1>14. \A j \in 0 .. n - 1 : v.next[Node(M, j)] = IF j < n - 1 THEN M[j + 1] ELSE 0
  <2> SUFFICES ASSUME NEW j \in 0 .. n - 1
               PROVE  v.next[Node(M, j)] = IF j < n - 1 THEN M[j + 1] ELSE 0
    OBVIOUS
  <2>0. \A i \in 0 .. n : w.next[Node(L, i)] = IF i < n THEN L[i + 1] ELSE 0
    BY DEF IsList
  <2>1. \A i \in 0 .. n : Node(L, i) \in Locations /\ (i # 0 => Node(L, i) = L[i])
    BY NodeFacts
  <2>2. q = Node(L, k + 1)
    BY <1>1, <2>1 DEF q
  <2>3. CASE j < k
    <3>1. Node(M, j) = Node(L, j) /\ j \in 0 .. n /\ j < n /\ j < n - 1
      BY <1>1, <1>8, <2>3
    <3>2. Node(L, j) # p
      BY <1>1, <2>3, <3>1, NodeFacts DEF p
    <3>3. M[j + 1] = L[j + 1]
      <4>1. j + 1 \in 1 .. n - 1 /\ j + 1 < k + 1
        BY <1>1, <2>3
      <4> QED BY <1>5, <4>1
    <3> QED BY <1>4, <1>6, <2>0, <2>1, <3>1, <3>2, <3>3
  <2>4. CASE j = k
    <3>1. Node(M, j) = p
      BY <1>1, <1>8, <2>4 DEF p
    <3>2. v.next[p] = w.next[q]
      BY <1>3, <1>4, <1>6
    <3>3. w.next[q] = IF k + 1 < n THEN L[(k + 1) + 1] ELSE 0
      BY <1>1, <2>0, <2>2
    <3>4. k + 1 < n <=> j < n - 1
      BY <1>1, <2>4
    <3>5. k + 1 < n => M[j + 1] = L[(k + 1) + 1]
      BY <1>1, <1>9, <2>4
    <3> QED BY <3>1, <3>2, <3>3, <3>4, <3>5
  <2>5. CASE k < j
    <3>1. j \in k + 1 .. n - 1 /\ j # 0 /\ j + 1 \in 0 .. n /\ j + 1 # 0 /\ j + 1 # k
      BY <1>1, <2>5
    <3>2. Node(M, j) = Node(L, j + 1)
      BY <1>9, <2>1, <3>1 DEF Node
    <3>3. Node(L, j + 1) # p /\ Node(L, j + 1) \in Locations
      BY <2>1, <3>1, NodeFacts DEF p
    <3>4. w.next[Node(L, j + 1)] = IF j + 1 < n THEN L[(j + 1) + 1] ELSE 0
      BY <2>0, <3>1
    <3>5. j + 1 < n <=> j < n - 1
      BY <1>1
    <3>6. j < n - 1 => M[j + 1] = L[(j + 1) + 1]
      <4>1. j < n - 1 => j + 1 \in k + 1 .. n - 1
        BY <1>1, <2>5
      <4> QED BY <1>9, <4>1
    <3> QED BY <1>4, <1>6, <3>2, <3>3, <3>4, <3>5, <3>6
  <2> QED BY <1>1, <2>3, <2>4, <2>5
<1>15. IsList(v, M)
  BY <1>5, <1>12, <1>13, <1>14 DEF IsList
<1>16. Taken(w, v, q)
  BY <1>3, <1>6 DEF Taken
<1> QED BY <1>5, <1>7, <1>8, <1>9, <1>15, <1>16 DEF v, M, p, q

(* What the addition and removal of a node do to the nodes of a work.      *)
LEMMA AddedHas ==
    ASSUME NEW w \in Lists, NEW v, NEW x, NEW q, Added(w, v, x, q)
    PROVE  /\ Has(v, x) = Has(w, x) \cup {q}
           /\ \A y : y # x => Has(v, y) = Has(w, y)
           /\ \A n \in w.alive : v.work[n] = w.work[n]
  BY DEF Added, Has, Lists

LEMMA TakenHas ==
    ASSUME NEW w \in Lists, NEW v, NEW q, Taken(w, v, q)
    PROVE  /\ Has(v, w.work[q]) = Has(w, w.work[q]) \ {q}
           /\ \A y : y # w.work[q] => Has(v, y) = Has(w, y)
           /\ q \in Has(w, w.work[q])
  BY DEF Taken, Has, Lists


---------------------------------------------------------------------------
(* Memory does not run out: no two nodes are in the same place, and there  *)
(* are no more places than nodes.                                          *)
Places == {<<NoClient, 0>>} \cup (Sleepers \X {1, 2}) \cup (LbxClients \X {3})

Place(w, n) ==
    IF w.work[n] = Establish THEN <<NoClient, 0>>
    ELSE <<w.work[n].client,
           IF w.work[n].function # "doOpenFont" THEN 3
           ELSE IF \E m \in w.alive : m < n /\ w.work[m] = w.work[n] THEN 2 ELSE 1>>

LEMMA ProductFacts ==
    ASSUME NEW S, IsFiniteSet(S), NEW e
    PROVE  IsFiniteSet(S \X {e}) /\ Cardinality(S \X {e}) <= Cardinality(S)
<1> DEFINE f == [t \in S \X {e} |-> t[1]]
<1>1. f \in [S \X {e} -> S]
  OBVIOUS
<1>2. ASSUME NEW s \in S \X {e}, NEW t \in S \X {e}, f[s] = f[t] PROVE s = t
  BY <1>2
<1>3. f \in Injection(S \X {e}, S)
  BY <1>1, <1>2 DEF Injection, IsInjective
<1> HIDE DEF f
<1> QED BY <1>3, FS_Injection

LEMMA PlacesFacts ==
    IsFiniteSet(Places) /\ Cardinality(Places) \in Nat /\ Cardinality(Places) <= Cardinality(Nodes)
<1> DEFINE A == {<<NoClient, 0>>}
           B == Sleepers \X {1}
           C == Sleepers \X {2}
           D == LbxClients \X {3}
<1>1. IsFiniteSet(Sleepers) /\ IsFiniteSet(LbxClients)
  BY WorkQueueAssumption, FS_Subset
<1>2. /\ Cardinality(Sleepers) \in Nat /\ Cardinality(LbxClients) \in Nat
      /\ Cardinality(Nodes) \in Nat
      /\ Cardinality(Nodes) >= 1 + 2 * Cardinality(Sleepers) + Cardinality(LbxClients)
  BY <1>1, WorkQueueAssumption, FS_CardinalityType
<1>3. IsFiniteSet(A) /\ Cardinality(A) = 1
  BY FS_Singleton
<1>4. IsFiniteSet(B) /\ Cardinality(B) <= Cardinality(Sleepers)
  BY <1>1, ProductFacts
<1>5. IsFiniteSet(C) /\ Cardinality(C) <= Cardinality(Sleepers)
  BY <1>1, ProductFacts
<1>6. IsFiniteSet(D) /\ Cardinality(D) <= Cardinality(LbxClients)
  BY <1>1, ProductFacts
<1>7. Places = ((A \cup B) \cup C) \cup D
  BY DEF Places
<1> HIDE DEF A, B, C, D
<1>8. ASSUME NEW S, NEW T, IsFiniteSet(S), IsFiniteSet(T)
      PROVE  /\ IsFiniteSet(S \cup T) /\ Cardinality(S \cup T) \in Nat /\ Cardinality(T) \in Nat
             /\ Cardinality(S \cup T) <= Cardinality(S) + Cardinality(T)
  <2>1. IsFiniteSet(S \cup T) /\ IsFiniteSet(S \cap T)
        /\ Cardinality(S \cup T) = Cardinality(S) + Cardinality(T) - Cardinality(S \cap T)
    BY <1>8, FS_Union, FS_Subset
  <2>2. /\ Cardinality(S) \in Nat /\ Cardinality(T) \in Nat /\ Cardinality(S \cap T) \in Nat
        /\ Cardinality(S \cup T) \in Nat
    BY <1>8, <2>1, FS_CardinalityType
  <2> QED BY <2>1, <2>2
<1>9. /\ IsFiniteSet(A \cup B) /\ Cardinality(A \cup B) \in Nat /\ Cardinality(B) \in Nat
      /\ Cardinality(A \cup B) <= Cardinality(A) + Cardinality(B)
  BY <1>3, <1>4, <1>8
<1>10. /\ IsFiniteSet((A \cup B) \cup C) /\ Cardinality((A \cup B) \cup C) \in Nat
       /\ Cardinality(C) \in Nat
       /\ Cardinality((A \cup B) \cup C) <= Cardinality(A \cup B) + Cardinality(C)
  BY <1>5, <1>8, <1>9
<1>11. /\ IsFiniteSet(Places) /\ Cardinality(Places) \in Nat /\ Cardinality(D) \in Nat
       /\ Cardinality(Places) <= Cardinality((A \cup B) \cup C) + Cardinality(D)
  BY <1>6, <1>7, <1>8, <1>10
<1> QED BY <1>2, <1>3, <1>4, <1>5, <1>6, <1>9, <1>10, <1>11

LEMMA PlaceFacts ==
    ASSUME NEW w \in Lists, Counted(w)
    PROVE  /\ \A n \in w.alive : Place(w, n) \in Places
           /\ \A m, n \in w.alive : Place(w, m) = Place(w, n) => m = n
<1>1. w.alive \subseteq Nodes /\ \A n \in w.alive : w.work[n] \in Works
  BY DEF Lists
<1>2. ASSUME NEW n \in w.alive PROVE Place(w, n) \in Places
  <2>1. CASE w.work[n] = Establish
    BY <2>1 DEF Place, Places
  <2>2. ASSUME NEW c \in Sleepers, c \in Clients, w.work[n] = Font(c) PROVE Place(w, n) \in Places
    BY <2>2, WorkFacts DEF Place, Places
  <2>3. ASSUME NEW c \in LbxClients, c \in Clients, w.work[n] = Lbx(c)
        PROVE  Place(w, n) \in Places
    BY <2>3, WorkFacts DEF Place, Places
  <2> QED BY <1>1, <2>1, <2>2, <2>3, WorkFacts
<1>3. ASSUME NEW m \in w.alive, NEW n \in w.alive, Place(w, m) = Place(w, n), m < n PROVE FALSE
  <2>0. NoClient \notin Clients /\ w.work[m] \in Works /\ w.work[n] \in Works
        /\ m \in Nat /\ n \in Nat /\ m # n
    BY <1>1, <1>3, NumberFacts
  <2>1. CASE w.work[m] = Establish
    <3>1. w.work[n] = Establish
      BY <1>3, <2>0, <2>1, WorkFacts DEF Place
    <3> QED BY <2>0, <2>1, <3>1 DEF Counted, AtMostOne, Has
  <2>2. ASSUME NEW c \in Clients, w.work[m] = Lbx(c) PROVE FALSE
    <3>1. w.work[n] = Lbx(c)
      BY <1>3, <2>0, <2>2, WorkFacts DEF Place
    <3> QED BY <2>0, <2>2, <3>1 DEF Counted, AtMostOne, Has
  <2>3. ASSUME NEW c \in Clients, w.work[m] = Font(c) PROVE FALSE
    <3>1. w.work[n] = Font(c)
      BY <1>3, <2>0, <2>3, WorkFacts DEF Place
    <3>2. Place(w, n) = <<c, 2>>
      BY <1>3, <2>3, <3>1, WorkFacts DEF Place
    <3>3. PICK l \in w.alive : l < m /\ w.work[l] = w.work[m]
      BY <1>3, <2>3, <3>2, WorkFacts DEF Place
    <3>4. PICK i, j \in Nodes : Has(w, Font(c)) \subseteq {i, j}
      BY DEF Counted
    <3>5. {l, m, n} \subseteq Has(w, Font(c)) /\ l \in Nat
      BY <1>1, <2>3, <3>1, <3>3, NumberFacts DEF Has
    <3>6. l # m /\ m # n /\ l # n
      BY <1>3, <2>0, <3>3, <3>5
    <3> QED BY <3>4, <3>5, <3>6
  <2> QED BY <2>0, <2>1, <2>2, <2>3, WorkFacts
<1>4. ASSUME NEW m \in w.alive, NEW n \in w.alive, Place(w, m) = Place(w, n) PROVE m = n
  <2>1. m \in Nat /\ n \in Nat
    BY <1>1, NumberFacts
  <2>2. ~(m < n) /\ ~(n < m)
    BY <1>3, <1>4
  <2> QED BY <2>1, <2>2
<1> QED BY <1>2, <1>4

LEMMA RoomAtPlace ==
    ASSUME NEW w \in Lists, Counted(w), NEW t \in Places,
           \A n \in w.alive : Place(w, n) # t
    PROVE  w.alive # Nodes
<1> SUFFICES ASSUME w.alive = Nodes PROVE FALSE
  OBVIOUS
<1> DEFINE f == [n \in Nodes |-> Place(w, n)]
<1>1. f \in [Nodes -> Places \ {t}]
  BY PlaceFacts
<1>2. f \in Injection(Nodes, Places \ {t})
  BY <1>1, PlaceFacts DEF Injection, IsInjective
<1>3. IsFiniteSet(Places \ {t}) /\ Cardinality(Places \ {t}) = Cardinality(Places) - 1
  BY PlacesFacts, FS_RemoveElement
<1> HIDE DEF f
<1>4. Cardinality(Nodes) <= Cardinality(Places \ {t})
  BY <1>2, <1>3, FS_Injection
<1> QED BY <1>3, <1>4, PlacesFacts, NumberFacts

(* There is memory for a work that may be queued.                          *)
LEMMA Room ==
    ASSUME NEW w \in Lists, Counted(w),
           \/ Has(w, Establish) = {}
           \/ \E c \in Sleepers : AtMostOne(Has(w, Font(c)))
           \/ \E c \in LbxClients : Has(w, Lbx(c)) = {}
    PROVE  w.alive # Nodes
<1>0. Sleepers \subseteq Clients /\ LbxClients \subseteq Clients /\ NoClient \notin Clients
      /\ w.alive \subseteq Nodes /\ \A n \in w.alive : w.work[n] \in Works
  BY WorkQueueAssumption, NumberFacts DEF Lists
<1>1. CASE Has(w, Establish) = {}
  <2>1. ASSUME NEW n \in w.alive PROVE Place(w, n) # <<NoClient, 0>>
    BY <1>1 DEF Place, Has
  <2> QED BY <2>1, RoomAtPlace DEF Places
<1>2. ASSUME NEW c \in Sleepers, AtMostOne(Has(w, Font(c))) PROVE w.alive # Nodes
  <2>1. ASSUME NEW n \in w.alive, Place(w, n) = <<c, 2>> PROVE FALSE
    <3>1. w.work[n] # Establish
      BY <1>0, <2>1 DEF Place
    <3>2. w.work[n].client = c /\ w.work[n].function = "doOpenFont"
          /\ \E m \in w.alive : m < n /\ w.work[m] = w.work[n]
      BY <2>1, <3>1 DEF Place
    <3>3. w.work[n] = Font(c)
      BY <1>0, <3>2, WorkFacts
    <3>4. PICK m \in w.alive : m < n /\ w.work[m] = Font(c)
      BY <3>2, <3>3
    <3>5. m = n
      BY <1>2, <3>3, <3>4 DEF AtMostOne, Has
    <3> QED BY <1>0, <3>4, <3>5, NumberFacts
  <2> QED BY <2>1, RoomAtPlace DEF Places
<1>3. ASSUME NEW c \in LbxClients, Has(w, Lbx(c)) = {} PROVE w.alive # Nodes
  <2>1. ASSUME NEW n \in w.alive, Place(w, n) = <<c, 3>> PROVE FALSE
    <3>1. w.work[n] # Establish
      BY <1>0, <2>1 DEF Place
    <3>2. w.work[n].client = c /\ w.work[n].function # "doOpenFont"
      BY <2>1, <3>1 DEF Place
    <3>3. w.work[n] = Lbx(c)
      BY <1>0, <3>1, <3>2, WorkFacts
    <3> QED BY <1>3, <3>3 DEF Has
  <2> QED BY <2>1, RoomAtPlace DEF Places
<1> QED BY <1>1, <1>2, <1>3


---------------------------------------------------------------------------
(* The loops and the list.                                                 *)

LEMMA PlacedQueued ==
    ASSUME NEW w \in Lists, NEW v, NEW L, IsList(w, L), NEW x, NEW q, Added(w, v, x, q),
           NEW f, Placed(f, w, L)
    PROVE  Placed(f, v, Append(L, q))
<1> DEFINE M == Append(L, q)
<1>1. q \in Nodes /\ L \in Seq(Nodes) /\ Len(L) \in Nat /\ Len(M) = Len(L) + 1
  BY DEF IsList, Added
<1>2. \A j \in 1 .. Len(L) : M[j] = L[j]
  BY <1>1
<1>3. PICK k \in 0 .. Len(L) : PlacedAt(f, w, L, k)
  BY DEF Placed
<1>4. k \in 0 .. Len(M) /\ (k # 0 => k \in 1 .. Len(L))
      /\ (k < Len(L) => k + 1 \in 1 .. Len(L) /\ k < Len(M))
      /\ \A j \in 1 .. k : j \in 1 .. Len(L)
  BY <1>1
<1> HIDE DEF M
<1>5. Node(M, k) = Node(L, k)
  BY <1>2, <1>4 DEF Node
<1>6. \A n \in w.alive : v.work[n] = w.work[n]
  BY AddedHas
<1>7. \A j \in 1 .. Len(L) : L[j] \in w.alive
  BY NodeFacts
<1>8. PlacedAt(f, v, M, k)
  BY <1>2, <1>3, <1>4, <1>5, <1>6, <1>7 DEF PlacedAt
<1> QED BY <1>4, <1>8 DEF Placed, M

LEMMA PlacedTaken ==
    ASSUME NEW w \in Lists, NEW L, IsList(w, L), NEW k \in 0 .. Len(L), k < Len(L),
           NEW f, NEW h \in 0 .. Len(L), PlacedAt(f, w, L, h),
           h < k \/ (h = k /\ f.q = 0)
    PROVE  Placed(f, Removed(w, Node(L, k), L[k + 1]), Without(L, k + 1))
<1> DEFINE v == Removed(w, Node(L, k), L[k + 1])
           M == Without(L, k + 1)
<1>1. /\ Taken(w, v, L[k + 1]) /\ Len(M) = Len(L) - 1
      /\ \A j \in 0 .. k : Node(M, j) = Node(L, j)
  BY RemoveList
<1>2. Len(L) \in Nat
  BY NodeFacts
<1> HIDE DEF v, M
<1>3. h \in 0 .. Len(M) /\ h \in 0 .. k /\ (f.q # 0 => h < Len(M) /\ h + 1 \in 0 .. k /\ h + 1 # 0)
  BY <1>1, <1>2
<1>4. \A j \in 1 .. h : j \in 0 .. k /\ j # 0
  BY <1>2
<1>5. \A j \in 0 .. k : j # 0 => M[j] = L[j]
  BY <1>1 DEF Node
<1>6. v.work = w.work
  BY <1>1 DEF Taken
<1>7. PlacedAt(f, v, M, h)
  BY <1>1, <1>3, <1>4, <1>5, <1>6 DEF PlacedAt
<1> QED BY <1>3, <1>7 DEF Placed, v, M

(* A loop that goes on passes the node.                                    *)
LEMMA PlacedOnward ==
    ASSUME NEW L, NEW w, IsList(w, L), NEW k \in 0 .. Len(L), k < Len(L),
           NEW f, PlacedAt(f, w, L, k), Passed(f, w.work[L[k + 1]]), f.q = 0,
           NEW g, g.p = L[k + 1], g.q = 0, g.loop = f.loop, g.closing = f.closing
    PROVE  Placed(g, w, L)
<1>1. k + 1 \in 0 .. Len(L) /\ k + 1 # 0 /\ \A j \in 1 .. k + 1 : j \in 1 .. k \/ j = k + 1
  BY NodeFacts
<1>2. g.p = Node(L, k + 1)
  BY <1>1 DEF Node
<1>3. \A j \in 1 .. k + 1 : Passed(g, w.work[L[j]])
  BY <1>1 DEF PlacedAt, Passed
<1>4. PlacedAt(g, w, L, k + 1)
  BY <1>2, <1>3 DEF PlacedAt
<1> QED BY <1>1, <1>4 DEF Placed

(* A loop that starts.                                                     *)
LEMMA PlacedFirst ==
    ASSUME NEW L, NEW w, IsList(w, L), NEW f, f.p = 0, f.q = 0
    PROVE  Placed(f, w, L)
<1>1. Len(L) \in Nat
  BY NodeFacts
<1>2. 0 \in 0 .. Len(L) /\ 1 .. 0 = {}
  BY <1>1
<1>3. PlacedAt(f, w, L, 0)
  BY <1>2 DEF PlacedAt, Node
<1> QED BY <1>2, <1>3 DEF Placed

(* The stack has one loop or two.                                          *)
LEMMA StackFacts ==
    ASSUME StackInv, Running
    PROVE  /\ Top \in Frames /\ Top = stack[1]
           /\ Outer(Top) \/ Inner(Top)
           /\ \/ stack = <<Top>> /\ (Outer(Top) \/ (Inner(Top) /\ server # "select"))
              \/ \E f \in Frames : /\ stack = <<Top, f>> /\ Inner(Top) /\ Top.closing \in Stragglers
                                   /\ Outer(f) /\ f.q # 0
<1>1. ASSUME NEW f \in Frames, stack = <<f>>
      PROVE  Top = f /\ stack[1] = f
  BY <1>1 DEF Top
<1>2. ASSUME NEW z \in Frames, NEW f \in Frames, stack = <<z, f>>
      PROVE  Top = z /\ stack[1] = z
  BY <1>2 DEF Top
<1> QED BY <1>1, <1>2 DEF StackInv, Running

LEMMA OneFrame ==
    ASSUME NEW f
    PROVE  /\ DOMAIN <<f>> = {1} /\ <<f>>[1] = f /\ Head(<<f>>) = f
           /\ Tail(<<f>>) = <<>> /\ <<f>> # <<>> /\ <<f>> \o <<>> = <<f>>
           /\ \A g : [<<f>> EXCEPT ![1] = g] = <<g>>
  OBVIOUS

LEMMA TwoFrames ==
    ASSUME NEW z, NEW f
    PROVE  /\ DOMAIN <<z, f>> = {1, 2} /\ <<z, f>>[1] = z /\ <<z, f>>[2] = f
           /\ Head(<<z, f>>) = z /\ Tail(<<z, f>>) = <<f>> /\ <<z, f>> # <<>>
  OBVIOUS

LEMMA TwoFramesJoin ==
    ASSUME NEW z \in Frames, NEW f \in Frames
    PROVE  <<z>> \o <<f>> = <<z, f>>
<1> DEFINE a == <<z>>
           b == <<f>>
           c == <<z, f>>
           d == a \o b
<1>1. a \in Seq(Frames) /\ b \in Seq(Frames) /\ c \in Seq(Frames)
  OBVIOUS
<1>2. Len(a) = 1 /\ Len(b) = 1 /\ Len(c) = 2
  OBVIOUS
<1>3. a[1] = z /\ b[1] = f /\ c[1] = z /\ c[2] = f
  OBVIOUS
<1> HIDE DEF a, b, c
<1>4. /\ d \in Seq(Frames) /\ Len(d) = 2
      /\ \A i \in 1 .. 2 : d[i] = IF i <= 1 THEN a[i] ELSE b[i - 1]
  BY <1>1, <1>2, ConcatProperties
<1> HIDE DEF d
<1>5. \A i \in 1 .. 2 : d[i] = c[i]
  BY <1>3, <1>4
<1>6. d = c
  BY <1>1, <1>2, <1>4, <1>5, SeqEqual
<1> QED BY <1>6 DEF a, b, c, d

LEMMA TwoFramesExcept ==
    ASSUME NEW z, NEW f, NEW g
    PROVE  [<<z, f>> EXCEPT ![1] = g] = <<g, f>>
  OBVIOUS

(* Where the innermost loop is.                                            *)
LEMMA EntryFacts ==
    ASSUME NEW L, ListInv(L), StackInv, Running
    PROVE  \E k \in 0 .. Len(L) :
             /\ PlacedAt(Top, wq, L, k) /\ Top.p = Node(L, k)
             /\ Entry = IF k < Len(L) THEN L[k + 1] ELSE 0
             /\ k = Len(L) \/ k < Len(L)
             /\ AtEntry => k < Len(L)
             /\ AtEntry => wq.last = Node(L, Len(L))
             /\ Top.q # 0 => k < Len(L) /\ Entry = Top.q /\ wq.work[Entry] = Establish
                             /\ wq.last = Node(L, Len(L))
<1>1. IsList(wq, L) /\ Placed(Top, wq, L)
  BY StackFacts, OneFrame, TwoFrames DEF ListInv
<1>2. PICK k \in 0 .. Len(L) : PlacedAt(Top, wq, L, k)
  BY <1>1 DEF Placed
<1>3. Top.p = Node(L, k)
  BY <1>2 DEF PlacedAt
<1>4. Entry = IF k < Len(L) THEN L[k + 1] ELSE 0
  BY <1>1, <1>3 DEF Entry, IsList
<1>5. Len(L) \in Nat /\ (k = Len(L) \/ k < Len(L)) /\ Len(L) \in 0 .. Len(L)
  BY <1>1, NodeFacts
<1>6. AtEntry => k < Len(L)
  BY <1>4 DEF AtEntry
<1>7. Top.q # 0 => k < Len(L) /\ Entry = Top.q /\ wq.work[Entry] = Establish
  BY <1>2, <1>4 DEF PlacedAt
<1>8. k < Len(L) => Node(L, k) # Node(L, Len(L))
  <2>1. k < Len(L) => k # Len(L)
    BY <1>5
  <2> QED BY <1>1, <1>5, <2>1, NodeFacts
<1>9. k < Len(L) => wq.last = Node(L, Len(L))
  BY <1>3, <1>8 DEF ListInv, LastInv
<1> QED BY <1>2, <1>3, <1>4, <1>5, <1>6, <1>7, <1>9

(* A client that is gone is the one that is being closed.                  *)
LEMMA GoneFacts ==
    ASSUME TypeInv, ClientsInv, NEW c \in Clients
    PROVE  /\ ClientGone(c) <=> status[c] \in {"gone", "closed"}
           /\ Has(wq, Font(c)) # {} \/ Has(wq, Lbx(c)) # {} =>
                (ClientGone(c) => status[c] = "gone" /\ Running /\ Top.closing = c)
           /\ ~Running => status[c] # "gone"
           /\ Running /\ Outer(Top) => status[c] # "gone"
<1>1. SleepInv(c)
  BY DEF ClientsInv
<1>2. ClientGone(c) <=> status[c] \in {"gone", "closed"}
  BY DEF ClientGone
<1>3. Running /\ Outer(Top) => Top.closing # c
  BY NumberFacts DEF Outer
<1> QED BY <1>1, <1>2, <1>3 DEF SleepInv

(* A function that is called for a client, which then leaves the queue:    *)
(* the outer loop, if there is one, has not come to the node yet, since    *)
(* the client is closed by EstablishNewConnections and not an LBX client.  *)
LEMMA CalledFacts ==
    ASSUME NoLbxStraggler, TypeInv, StackInv, ClientsInv, NEW L \in Seq(Nodes), ListInv(L),
           NEW c \in Clients, NEW x \in {Font(c), Lbx(c)}, AtEntry, Called, wq.work[Entry] = x,
           wq' = Removed(wq, Top.p, Entry), stack' = stack
    PROVE  /\ wq' \in Lists /\ Taken(wq, wq', Entry) /\ Running' /\ Top' = Top
           /\ Entry \in Has(wq, x)
           /\ ClientGone(c) => status[c] = "gone" /\ Top.closing = c
           /\ \E M \in Seq(Nodes) : ListInv(M)'
<1>0. Running /\ wq \in Lists /\ IsList(wq, L) /\ Top.q = 0
  BY DEF AtEntry, TypeInv, ListInv
<1>1. PICK k \in 0 .. Len(L) :
             /\ PlacedAt(Top, wq, L, k) /\ Top.p = Node(L, k) /\ k < Len(L)
             /\ Entry = L[k + 1] /\ wq.last = Node(L, Len(L))
  BY <1>0, EntryFacts
<1> DEFINE v == Removed(wq, Node(L, k), L[k + 1])
           M == Without(L, k + 1)
<1>2. wq' = v
  BY <1>1
<1>3. /\ v \in Lists /\ Taken(wq, v, L[k + 1]) /\ IsList(v, M) /\ Len(M) = Len(L) - 1
      /\ \A j \in 0 .. k : Node(M, j) = Node(L, j)
      /\ \A j \in k + 1 .. Len(L) - 1 : M[j] = L[j + 1]
  BY <1>0, <1>1, RemoveList
<1>4. Len(L) \in Nat /\ k + 1 \in 1 .. Len(L) /\ k + 1 \in 0 .. Len(L) /\ M \in Seq(Nodes)
  BY <1>0, <1>1, <1>3, NodeFacts DEF IsList
<1>5. L[k + 1] \in Has(wq, x) /\ x.client = c /\ x # Establish
  BY <1>0, <1>1, <1>4, NodeFacts, WorkFacts DEF Has
<1>6. ClientGone(c) => status[c] = "gone" /\ Top.closing = c
  BY <1>5, GoneFacts
<1>7. Top' = Top /\ Running'
  BY <1>0 DEF Top, Running
<1> HIDE DEF v, M
<1>8. LastInv(wq, M)'
  <2>1. CASE k + 1 = Len(L)
    <3>1. Node(M, Len(M)) = Node(L, k)
      BY <1>3, <1>4, <2>1
    <3> QED BY <1>0, <1>1, <1>7, <3>1 DEF LastInv
  <2>2. CASE k + 1 # Len(L)
    <3>1. Len(M) \in k + 1 .. Len(L) - 1 /\ Len(M) + 1 = Len(L) /\ Len(M) # 0 /\ Len(L) # 0
      BY <1>3, <1>4, <2>2
    <3>2. Node(M, Len(M)) = Node(L, Len(L))
      BY <1>3, <3>1 DEF Node
    <3>3. wq'.last = wq.last
      BY <1>2, <1>3 DEF Taken
    <3> QED BY <1>1, <3>2, <3>3 DEF LastInv
  <2> QED BY <2>1, <2>2
<1>9. Placed(Top, v, M)
  BY <1>0, <1>1, <1>3, PlacedTaken DEF v, M
<1>10. ASSUME NEW f \in Frames, stack = <<Top, f>>, Inner(Top), Top.closing \in Stragglers,
              Outer(f), f.q # 0
       PROVE  Placed(f, v, M)
  <2>1. Placed(f, wq, L)
    BY <1>10, TwoFrames DEF ListInv
  <2>2. PICK h \in 0 .. Len(L) : PlacedAt(f, wq, L, h)
    BY <2>1 DEF Placed
  <2>3. h < Len(L) /\ wq.work[L[h + 1]] = Establish
    BY <1>10, <2>2 DEF PlacedAt
  <2>4. h # k
    BY <1>1, <1>5, <2>3
  <2>5. ClientGone(c)
    BY <1>5, <1>10 DEF Called, Inner
  <2>6. x = Font(c)
    <3>1. c \in Stragglers
      BY <1>6, <1>10, <2>5
    <3>2. wq.work[Entry] \in Works
      BY <1>1, <1>4, NodeFacts, <1>0 DEF Lists
    <3>3. x = Lbx(c) => c \in LbxClients
      BY <3>2, WorkFacts
    <3> QED BY <3>1, <3>3 DEF NoLbxStraggler
  <2>7. ~(k < h)
    <3>1. k < h => k + 1 \in 1 .. h
      BY <1>4
    <3>2. k < h => wq.work[L[k + 1]].function = "LbxWaitForUnblocked"
      BY <1>10, <2>2, <3>1 DEF PlacedAt, Passed, Outer
    <3> QED BY <1>1, <2>6, <3>2, WorkFacts
  <2>8. h < k
    BY <1>4, <2>4, <2>7
  <2> QED BY <1>0, <1>1, <2>2, <2>8, PlacedTaken DEF v, M
<1>11. \A i \in DOMAIN stack' : Placed(stack'[i], v, M)
  BY <1>0, <1>9, <1>10, StackFacts, OneFrame, TwoFrames
<1>12. ListInv(M)'
  BY <1>2, <1>3, <1>8, <1>11 DEF ListInv
<1> QED BY <1>0, <1>1, <1>2, <1>3, <1>4, <1>5, <1>6, <1>7, <1>12


---------------------------------------------------------------------------
(* The steps.                                                              *)

LEMMA LoopFacts ==
    ASSUME NEW c \in Clients \cup {NoClient}
    PROVE  /\ Loop("ProcessWorkQueue", c) \in Frames
           /\ Loop("ProcessWorkQueueZombies", c) \in Frames
           /\ \A name : LET f == Loop(name, c)
                        IN f.loop = name /\ f.p = 0 /\ f.q = 0 /\ f.closing = c /\ f.left = {}
  BY NumberFacts DEF Loop, Frames

(* The nodes of the works stay the same.                                   *)
LEMMA SameNodes ==
    ASSUME wq'.work = wq.work, wq'.alive = wq.alive
    PROVE  \A x : Has(wq, x)' = Has(wq, x)
  BY DEF Has

(* What a loop goes past.                                                  *)
LEMMA OnwardFacts ==
    ASSUME NEW L \in Seq(Nodes), ListInv(L), TypeInv, StackInv, AtEntry, Advance,
           Passed(Top, wq.work[Entry]), wq' = wq, status' = status, server' = server
    PROVE  /\ StackInv' /\ ListInv(L)' /\ Running' /\ Top'.closing = Top.closing
<1>0. Running /\ wq \in Lists /\ IsList(wq, L) /\ Top.q = 0
  BY DEF AtEntry, TypeInv, ListInv
<1>1. PICK k \in 0 .. Len(L) :
             /\ PlacedAt(Top, wq, L, k) /\ Top.p = Node(L, k) /\ k < Len(L)
             /\ Entry = L[k + 1] /\ wq.last = Node(L, Len(L))
  BY <1>0, EntryFacts
<1>10. PICK g : g = [Top EXCEPT !.p = Entry]
  OBVIOUS
<1>2. Top \in Frames /\ Top = stack[1] /\ Entry \in Locations
  <2>1. k + 1 \in 1 .. Len(L)
    BY <1>0, <1>1, NodeFacts
  <2> QED BY <1>0, <1>1, <2>1, StackFacts, NodeFacts, NumberFacts
<1>3. /\ g \in Frames /\ g.p = L[k + 1] /\ g.q = 0 /\ g.loop = Top.loop
      /\ g.closing = Top.closing /\ g.left = Top.left
  BY <1>0, <1>1, <1>2, <1>10 DEF Frames
<1>4. stack' = [stack EXCEPT ![1] = g]
  BY <1>2, <1>10 DEF Advance
<1>5. Placed(g, wq, L)
  BY <1>0, <1>1, <1>3, PlacedOnward
<1>6. (Outer(Top) => Outer(g)') /\ (Inner(Top) => Inner(g)')
  BY <1>0, <1>3 DEF Outer, Inner
<1>7. ASSUME stack = <<Top>>, Outer(Top) \/ (Inner(Top) /\ server # "select")
      PROVE  StackInv' /\ ListInv(L)' /\ Running' /\ Top'.closing = Top.closing
  <2>1. stack' = <<g>>
    BY <1>4, <1>7, OneFrame
  <2>2. Top' = g /\ Running' /\ DOMAIN stack' = {1} /\ stack'[1] = g
    BY <2>1, OneFrame DEF Top, Running
  <2>3. StackInv'
    BY <1>3, <1>6, <1>7, <2>1 DEF StackInv
  <2> QED BY <1>0, <1>1, <1>3, <1>5, <2>2, <2>3 DEF ListInv, LastInv
<1>8. ASSUME NEW f \in Frames, stack = <<Top, f>>, Inner(Top), Top.closing \in Stragglers,
             Outer(f), f.q # 0
      PROVE  StackInv' /\ ListInv(L)' /\ Running' /\ Top'.closing = Top.closing
  <2>1. stack' = <<g, f>>
    BY <1>4, <1>8, TwoFramesExcept
  <2>2. Top' = g /\ Running' /\ DOMAIN stack' = {1, 2} /\ stack'[1] = g /\ stack'[2] = f
    BY <2>1, TwoFrames DEF Top, Running
  <2>3. Placed(f, wq, L)
    BY <1>8, TwoFrames DEF ListInv
  <2>4. Outer(f)'
    BY <1>8 DEF Outer
  <2>5. StackInv'
    BY <1>3, <1>6, <1>8, <2>1, <2>4 DEF StackInv
  <2> QED BY <1>0, <1>1, <1>3, <1>5, <2>2, <2>3, <2>5 DEF ListInv, LastInv
<1> QED BY <1>0, <1>7, <1>8, StackFacts


LEMMA NotCalledStep ==
    ASSUME WorkInv, NotCalled
    PROVE  WorkInv'
<1>1. PICK L \in Seq(Nodes) : ListInv(L)
  BY DEF WorkInv
<1>2. TypeInv /\ StackInv /\ CountInv /\ ClientsInv
  BY DEF WorkInv
<1>3. AtEntry /\ ~Called /\ Advance /\ Running /\ wq' = wq
      /\ UNCHANGED <<sleepQueue, closure, blockrec, input_blocked, status, server, twice>>
  BY DEF NotCalled, AtEntry
<1>4. Inner(Top)
  BY <1>2, <1>3, StackFacts DEF Called, Outer
<1>5. Passed(Top, wq.work[Entry])
  <2>1. Top.closing \in Clients /\ ClientGone(Top.closing) /\ Top.closing # NoClient
        /\ Top.loop # "ProcessWorkQueue"
    BY <1>4, NumberFacts DEF Inner, ClientGone
  <2> QED BY <1>3, <2>1 DEF Passed, Called
<1>6. StackInv' /\ ListInv(L)' /\ Running' /\ Top'.closing = Top.closing
  BY <1>1, <1>2, <1>3, <1>5, OnwardFacts
<1>7. TypeInv'
  BY <1>2, <1>3 DEF TypeInv
<1>8. \A x : Has(wq, x)' = Has(wq, x)
  BY <1>3, SameNodes
<1>9. CountInv'
  BY <1>2, <1>3, <1>6, <1>8 DEF CountInv, Counted
<1>10. ClientsInv'
  BY <1>2, <1>3, <1>6, <1>8 DEF ClientsInv, SleepInv, Asleep
<1> QED BY <1>6, <1>7, <1>9, <1>10 DEF WorkInv

LEMMA LoopEndsStep ==
    ASSUME WorkInv, LoopEnds
    PROVE  WorkInv'
<1>1. PICK L \in Seq(Nodes) : ListInv(L)
  BY DEF WorkInv
<1>2. TypeInv /\ StackInv /\ CountInv /\ ClientsInv
  BY DEF WorkInv
<1>3. /\ Running /\ Top.q = 0 /\ Entry = 0
      /\ wq' = [wq EXCEPT !.last = Top.p] /\ stack' = Tail(stack)
      /\ status' = IF Top.closing = NoClient THEN status
                   ELSE [status EXCEPT ![Top.closing] = "closed"]
      /\ UNCHANGED <<sleepQueue, closure, blockrec, input_blocked, server, twice>>
  BY DEF LoopEnds
<1>4. IsList(wq, L) /\ wq \in Lists
  BY <1>1, <1>2 DEF ListInv, TypeInv
<1>5. PlacedAt(Top, wq, L, Len(L)) /\ Top.p = Node(L, Len(L))
  <2>1. PICK k \in 0 .. Len(L) : /\ PlacedAt(Top, wq, L, k) /\ Top.p = Node(L, k)
                                 /\ Entry = IF k < Len(L) THEN L[k + 1] ELSE 0
                                 /\ k = Len(L) \/ k < Len(L)
    BY <1>1, <1>2, <1>3, EntryFacts
  <2>2. k < Len(L) => k + 1 \in 1 .. Len(L)
    BY <1>4, NodeFacts
  <2>3. ~(k < Len(L))
    BY <1>3, <1>4, <2>1, <2>2, NodeFacts
  <2> QED BY <2>1, <2>3
<1>6. \A n \in wq.alive : Passed(Top, wq.work[n])
  BY <1>4, <1>5 DEF PlacedAt, IsList
<1>7. /\ wq' \in Lists /\ wq'.work = wq.work /\ wq'.alive = wq.alive /\ wq'.next = wq.next
      /\ wq'.last = Node(L, Len(L))
  <2>1. Top.p \in Locations
    BY <1>2, <1>3, StackFacts DEF Frames
  <2> QED BY <1>3, <1>4, <1>5, <2>1 DEF Lists
<1>8. \A x : Has(wq, x)' = Has(wq, x)
  BY <1>7, SameNodes
<1>9. IsList(wq, L)' /\ LastInv(wq, L)'
  BY <1>4, <1>7 DEF IsList, LastInv
<1>13. ASSUME NEW f \in Frames, Placed(f, wq, L) PROVE Placed(f, wq, L)'
  <2>1. PICK k \in 0 .. Len(L) : PlacedAt(f, wq, L, k)
    BY <1>13 DEF Placed
  <2>2. PlacedAt(f, wq, L, k)'
    BY <1>7, <2>1 DEF PlacedAt
  <2> QED BY <2>2 DEF Placed
<1>10. TypeInv'
  <2>1. status' \in [Clients -> {"none", "served", "gone", "closed"}]
    BY <1>2, <1>3 DEF TypeInv
  <2> QED BY <1>2, <1>3, <1>7, <2>1 DEF TypeInv
<1>11. CASE stack = <<Top>> /\ Outer(Top)
  <2>1. stack' = <<>> /\ status' = status /\ server = "select"
    BY <1>3, <1>11, OneFrame DEF Outer
  <2>2. ~Running' /\ StackInv' /\ DOMAIN stack' = {}
    BY <2>1 DEF Running, StackInv
  <2>3. Has(wq, Establish) = {}
    BY <1>6, <1>11, WorkFacts DEF Has, Passed, Outer
  <2>4. CountInv'
    BY <1>2, <1>3, <1>8, <2>2, <2>3 DEF CountInv, Counted
  <2>5. \A c \in Clients : status[c] # "gone"
    BY <1>2, <1>3, <1>11, GoneFacts
  <2>6. ClientsInv'
    BY <1>2, <1>3, <1>8, <2>1, <2>2, <2>5 DEF ClientsInv, SleepInv, Asleep
  <2>7. ListInv(L)'
    BY <1>9, <2>2 DEF ListInv
  <2> QED BY <1>10, <2>2, <2>4, <2>6, <2>7 DEF WorkInv
<1>12. CASE Inner(Top)
  <2> DEFINE c == Top.closing
  <2>1. c \in Clients /\ status[c] = "gone" /\ c # NoClient /\ Top.loop # "ProcessWorkQueue"
    BY <1>12, NumberFacts DEF Inner
  <2>2. Has(wq, Font(c)) = {} /\ Has(wq, Lbx(c)) = {}
    BY <1>6, <2>1, WorkFacts DEF Has, Passed
  <2>3. /\ status'[c] = "closed" /\ \A d \in Clients \ {c} : status'[d] = status[d]
        /\ status' \in [Clients -> {"none", "served", "gone", "closed"}]
    BY <1>2, <1>3, <2>1 DEF TypeInv
  <2>4. \A d \in Clients \ {c} : status[d] # "gone"
    BY <1>2, <1>3 DEF ClientsInv, SleepInv
  <2>5. c \notin sleepQueue
    BY <1>2, <2>1, <2>2 DEF ClientsInv, SleepInv, Asleep
  <2> HIDE DEF c
  <2>6. ClientsInv'
    <3> SUFFICES ASSUME NEW d \in Clients PROVE SleepInv(d)'
      BY DEF ClientsInv
    <3>1. SleepInv(d)
      BY <1>2 DEF ClientsInv
    <3>2. CASE d = c
      BY <1>3, <1>8, <2>1, <2>2, <2>3, <2>5, <3>1, <3>2 DEF SleepInv, Asleep
    <3>3. CASE d # c
      BY <1>3, <1>8, <2>3, <2>4, <3>1, <3>3 DEF SleepInv, Asleep
    <3> QED BY <3>2, <3>3
  <2>7. ASSUME stack = <<Top>>, server # "select" PROVE WorkInv'
    <3>1. stack' = <<>>
      BY <1>3, <2>7, OneFrame
    <3>2. ~Running' /\ StackInv' /\ DOMAIN stack' = {}
      BY <3>1 DEF Running, StackInv
    <3>3. CountInv'
      BY <1>2, <1>3, <1>8, <2>7 DEF CountInv, Counted
    <3>4. ListInv(L)'
      BY <1>9, <3>2 DEF ListInv
    <3> QED BY <1>10, <2>6, <3>2, <3>3, <3>4 DEF WorkInv
  <2>8. ASSUME NEW f \in Frames, stack = <<Top, f>>, Outer(f), f.q # 0 PROVE WorkInv'
    <3>1. stack' = <<f>>
      BY <1>3, <2>8, TwoFrames
    <3>2. Running' /\ DOMAIN stack' = {1} /\ stack'[1] = f
      BY <3>1, OneFrame DEF Running
    <3>3. Outer(f)'
      <4>1. \A d \in f.left : d \in Clients /\ status[d] = "served"
        BY <2>8 DEF Outer, Frames
      <4> QED BY <1>3, <2>1, <2>3, <2>8, <4>1 DEF Outer
    <3>4. StackInv'
      BY <3>1, <3>3 DEF StackInv
    <3>5. CountInv'
      BY <1>2, <1>3, <1>8, <3>2 DEF CountInv, Counted
    <3>6. Placed(f, wq, L)
      BY <1>1, <2>8, TwoFrames DEF ListInv
    <3>7. ListInv(L)'
      BY <1>9, <1>13, <3>2, <3>6 DEF ListInv
    <3> QED BY <1>10, <2>6, <3>4, <3>5, <3>7 DEF WorkInv
  <2> QED BY <1>2, <1>3, <1>12, <2>7, <2>8, StackFacts DEF Outer, Inner
<1> QED BY <1>2, <1>3, <1>11, <1>12, StackFacts DEF Outer, Inner


(* A loop that starts on an empty stack, or does not.                      *)
LEMMA EnterWaitStep ==
    ASSUME WorkInv, EnterWait
    PROVE  WorkInv'
<1>1. PICK L \in Seq(Nodes) : ListInv(L)
  BY DEF WorkInv
<1>2. TypeInv /\ StackInv /\ CountInv /\ ClientsInv
  BY DEF WorkInv
<1>3. /\ ~Running /\ stack = <<>> /\ server' = "select" /\ wq' = wq
      /\ stack' = IF wq.next[0] = 0 THEN stack ELSE <<Loop("ProcessWorkQueue", NoClient)>>
      /\ UNCHANGED <<sleepQueue, closure, blockrec, input_blocked, status, twice>>
  BY DEF EnterWait, Running
<1>4. IsList(wq, L) /\ wq.last = Node(L, Len(L))
  BY <1>1, <1>3 DEF ListInv, LastInv
<1>5. TypeInv'
  BY <1>2, <1>3 DEF TypeInv
<1>6. \A x : Has(wq, x)' = Has(wq, x)
  BY <1>3, SameNodes
<1>7. IsList(wq, L)' /\ LastInv(wq, L)'
  BY <1>3, <1>4 DEF IsList, LastInv
<1>8. ClientsInv'
  <2>1. \A c \in Clients : status[c] # "gone"
    BY <1>2, <1>3, GoneFacts
  <2> QED BY <1>2, <1>3, <1>6, <2>1 DEF ClientsInv, SleepInv, Asleep
<1>9. CASE wq.next[0] = 0
  <2>1. stack' = <<>> /\ ~Running' /\ StackInv' /\ DOMAIN stack' = {}
    BY <1>3, <1>9 DEF Running, StackInv
  <2>2. wq.alive = {}
    <3>1. 0 \in 0 .. Len(L) /\ Node(L, 0) = 0 /\ (0 < Len(L) => 0 + 1 \in 1 .. Len(L))
          /\ (~(0 < Len(L)) => 1 .. Len(L) = {})
      BY <1>4, NodeFacts
    <3>2. 0 < Len(L) => L[0 + 1] # 0
      BY <1>4, <3>1, NodeFacts
    <3>3. ~(0 < Len(L))
      BY <1>4, <1>9, <3>1, <3>2 DEF IsList
    <3> QED BY <1>4, <3>1, <3>3 DEF IsList
  <2>3. CountInv'
    BY <1>2, <1>3, <1>6, <2>2 DEF CountInv, Counted, Has
  <2>4. ListInv(L)'
    BY <1>7, <2>1 DEF ListInv
  <2> QED BY <1>5, <1>8, <2>1, <2>3, <2>4 DEF WorkInv
<1>10. CASE wq.next[0] # 0
  <2>1. PICK f \in Frames : f = Loop("ProcessWorkQueue", NoClient) /\ f.loop = "ProcessWorkQueue"
                            /\ f.p = 0 /\ f.q = 0 /\ f.closing = NoClient /\ f.left = {}
    BY LoopFacts
  <2>2. stack' = <<f>> /\ Running' /\ DOMAIN stack' = {1} /\ stack'[1] = f
    BY <1>3, <1>10, <2>1, OneFrame DEF Running
  <2>3. StackInv'
    BY <1>3, <2>1, <2>2 DEF StackInv, Outer
  <2>4. CountInv'
    BY <1>2, <1>3, <1>6, <2>2 DEF CountInv, Counted
  <2>5. Placed(f, wq, L)
    BY <1>4, <2>1, PlacedFirst
  <2>6. ListInv(L)'
    BY <1>3, <1>7, <2>2, <2>5 DEF ListInv
  <2> QED BY <1>5, <1>8, <2>3, <2>4, <2>6 DEF WorkInv
<1> QED BY <1>9, <1>10

LEMMA OpenFontStep ==
    ASSUME WorkInv, NEW c \in Clients, OpenFont(c)
    PROVE  WorkInv'
<1>1. PICK L \in Seq(Nodes) : ListInv(L)
  BY DEF WorkInv
<1>2. TypeInv /\ StackInv /\ CountInv /\ ClientsInv
  BY DEF WorkInv
<1>3. /\ c \in Sleepers /\ ~Running /\ status[c] = "served" /\ c \notin sleepQueue
      /\ closure' = [closure EXCEPT ![c] = "live"]
      /\ blockrec' = [blockrec EXCEPT ![c] = "StillWorking"]
      /\ sleepQueue' = sleepQueue \cup {c}
      /\ UNCHANGED <<wq, input_blocked, status, stack, server, twice>>
  BY DEF OpenFont, Dispatching, ClientIsAsleep
<1>4. TypeInv'
  BY <1>2, <1>3 DEF TypeInv
<1>5. StackInv' /\ CountInv'
  <2>1. \A x : Has(wq, x)' = Has(wq, x)
    BY <1>3, SameNodes
  <2>2. StackInv'
    BY <1>2, <1>3 DEF StackInv, Outer, Inner
  <2> QED BY <1>2, <1>3, <2>1, <2>2 DEF CountInv, Counted, Running
<1>6. Has(wq, Font(c)) = {}
  BY <1>2, <1>3 DEF ClientsInv, SleepInv, Asleep
<1>7. ASSUME NEW d \in Clients PROVE SleepInv(d)'
  <2>1. SleepInv(d) /\ Has(wq, Font(d))' = Has(wq, Font(d)) /\ Has(wq, Lbx(d))' = Has(wq, Lbx(d))
    BY <1>2, <1>3, SameNodes DEF ClientsInv
  <2>2. CASE d = c
    BY <1>2, <1>3, <1>6, <2>1, <2>2 DEF SleepInv, Asleep, TypeInv
  <2>3. CASE d # c
    <3>1. closure'[d] = closure[d] /\ blockrec'[d] = blockrec[d] /\ Asleep(d)' = Asleep(d)
      BY <1>2, <1>3, <2>3 DEF Asleep, TypeInv
    <3> QED BY <1>3, <2>1, <3>1 DEF SleepInv, Running, Top
  <2> QED BY <2>2, <2>3
<1>8. ListInv(L)'
  BY <1>1, <1>3 DEF ListInv, IsList, LastInv, Placed, PlacedAt, Running, Top
<1> QED BY <1>4, <1>5, <1>7, <1>8 DEF WorkInv, ClientsInv

LEMMA CallEstablishStep ==
    ASSUME WorkInv, NEW S, CallEstablish(S)
    PROVE  WorkInv'
<1>1. PICK L \in Seq(Nodes) : ListInv(L)
  BY DEF WorkInv
<1>2. TypeInv /\ StackInv /\ CountInv /\ ClientsInv
  BY DEF WorkInv
<1>3. /\ AtEntry /\ Running /\ Top.q = 0 /\ Called /\ wq.work[Entry] = Establish
      /\ S \subseteq {c \in Stragglers : status[c] = "served"}
      /\ stack' = [stack EXCEPT ![1].q = Entry, ![1].left = S]
      /\ UNCHANGED <<wq, sleepQueue, closure, blockrec, input_blocked, status, server, twice>>
  BY DEF CallEstablish, Calls, AtEntry, Establish
<1>4. Outer(Top) /\ stack = <<Top>> /\ Top \in Frames /\ Top = stack[1]
  BY <1>2, <1>3, StackFacts, WorkFacts DEF Called, Inner
<1>5. PICK k \in 0 .. Len(L) :
             /\ PlacedAt(Top, wq, L, k) /\ Top.p = Node(L, k) /\ k < Len(L)
             /\ Entry = L[k + 1] /\ wq.last = Node(L, Len(L))
  BY <1>1, <1>2, <1>3, EntryFacts
<1>6. IsList(wq, L) /\ Entry \in Locations
  <2>1. IsList(wq, L)
    BY <1>1 DEF ListInv
  <2>2. k + 1 \in 1 .. Len(L)
    BY <1>5, <2>1, NodeFacts
  <2> QED BY <1>5, <2>1, <2>2, NodeFacts, NumberFacts
<1>7. PICK g : g = [Top EXCEPT !.q = Entry, !.left = S]
  OBVIOUS
<1>8. S \subseteq Clients
  BY <1>3, WorkQueueAssumption
<1>9. /\ g \in Frames /\ g.p = Top.p /\ g.q = Entry /\ g.loop = Top.loop
      /\ g.closing = Top.closing /\ g.left = S
  BY <1>4, <1>6, <1>7, <1>8 DEF Frames
<1>10. stack' = <<g>>
  <2>1. stack' = [stack EXCEPT ![1] = g]
    BY <1>3, <1>4, <1>7
  <2> QED BY <1>4, <2>1, OneFrame
<1>11. Running' /\ DOMAIN stack' = {1} /\ stack'[1] = g /\ Top' = g
  BY <1>10, OneFrame DEF Running, Top
<1>12. StackInv'
  <2>1. Outer(g)'
    BY <1>3, <1>4, <1>9 DEF Outer
  <2> QED BY <1>9, <1>10, <2>1 DEF StackInv
<1>13. TypeInv'
  BY <1>2, <1>3 DEF TypeInv
<1>14. CountInv' /\ ClientsInv'
  <2>1. \A x : Has(wq, x)' = Has(wq, x)
    BY <1>3, SameNodes
  <2> QED BY <1>2, <1>3, <1>9, <1>11, <2>1
          DEF CountInv, Counted, ClientsInv, SleepInv, Asleep
<1>15. Placed(g, wq, L)
  <2>1. PlacedAt(g, wq, L, k)
    BY <1>3, <1>5, <1>9 DEF PlacedAt, Passed
  <2> QED BY <2>1 DEF Placed
<1>16. ListInv(L)'
  BY <1>3, <1>5, <1>6, <1>11, <1>15 DEF ListInv, LastInv
<1> QED BY <1>12, <1>13, <1>14, <1>16 DEF WorkInv


(* What is left of the nodes of each work when Entry is taken.             *)
LEMMA TakenCount ==
    ASSUME TypeInv, CountInv, Taken(wq, wq', Entry), Running'
    PROVE  /\ Counted(wq)'
           /\ ~Running' /\ server' = "select" => Has(wq, Establish)' = {}
           /\ \A x : Has(wq, x)' \subseteq Has(wq, x)
           /\ \A x : x # wq.work[Entry] => Has(wq, x)' = Has(wq, x)
           /\ AtMostOne(Has(wq, wq.work[Entry])) => Has(wq', wq.work[Entry]) = {}
<1>1. /\ Has(wq', wq.work[Entry]) = Has(wq, wq.work[Entry]) \ {Entry}
      /\ \A y : y # wq.work[Entry] => Has(wq', y) = Has(wq, y)
      /\ Entry \in Has(wq, wq.work[Entry])
  BY TakenHas DEF TypeInv
<1>2. \A x : Has(wq, x)' = Has(wq', x)
  BY DEF Has
<1>3. \A x : Has(wq', x) \subseteq Has(wq, x)
  BY <1>1
<1>4. Counted(wq)'
  <2>1. Counted(wq)
    BY DEF CountInv
  <2>2. AtMostOne(Has(wq, Establish))'
    BY <1>2, <1>3, <2>1 DEF Counted, AtMostOne
  <2>3. ASSUME NEW c \in Clients
        PROVE  AtMostOne(Has(wq, Lbx(c)))' /\ \E m, n \in Nodes : Has(wq, Font(c))' \subseteq {m, n}
    BY <1>2, <1>3, <2>1 DEF Counted, AtMostOne
  <2> QED BY <2>2, <2>3 DEF Counted
<1>5. AtMostOne(Has(wq, wq.work[Entry])) => Has(wq', wq.work[Entry]) = {}
  BY <1>1 DEF AtMostOne
<1> QED BY <1>1, <1>2, <1>3, <1>4, <1>5

LEMMA DoOpenFontDoneStep ==
    ASSUME NoLbxStraggler, WorkInv, NEW c \in Clients, DoOpenFontDone(c)
    PROVE  WorkInv'
<1>1. PICK L \in Seq(Nodes) : ListInv(L)
  BY DEF WorkInv
<1>2. TypeInv /\ StackInv /\ CountInv /\ ClientsInv
  BY DEF WorkInv
<1>3. /\ AtEntry /\ Called /\ wq.work[Entry] = Font(c)
      /\ blockrec' = [blockrec EXCEPT ![c] = "none"]
      /\ sleepQueue' = sleepQueue \ {c}
      /\ closure' = [closure EXCEPT ![c] = "freed"]
      /\ wq' = Removed(wq, Top.p, Entry)
      /\ UNCHANGED <<input_blocked, status, stack, server, twice>>
  BY DEF DoOpenFontDone, Calls, Font, Awake
<1>4. PICK x \in {Font(c), Lbx(c)} : x = Font(c)
  OBVIOUS
<1>5. /\ wq' \in Lists /\ Taken(wq, wq', Entry) /\ Running' /\ Top' = Top
      /\ Entry \in Has(wq, x)
      /\ \E M \in Seq(Nodes) : ListInv(M)'
  BY <1>1, <1>2, <1>3, <1>4, CalledFacts
<1>6. Counted(wq)' /\ (\A d \in Clients : Has(wq, Lbx(d))' = Has(wq, Lbx(d)))
      /\ (\A d \in Clients \ {c} : Has(wq, Font(d))' = Has(wq, Font(d)))
      /\ Has(wq, Font(c))' \subseteq Has(wq, Font(c))
      /\ (AtMostOne(Has(wq, Font(c))) => Has(wq, Font(c))' = {})
  <2>1. Has(wq', Font(c)) = Has(wq, Font(c))'
    BY DEF Has
  <2> QED BY <1>2, <1>3, <1>5, <2>1, TakenCount, WorkFacts
<1>7. TypeInv'
  BY <1>2, <1>3, <1>5 DEF TypeInv
<1>8. StackInv'
  BY <1>2, <1>3 DEF StackInv, Outer, Inner
<1>9. CountInv'
  BY <1>2, <1>3, <1>5, <1>6, WorkFacts DEF CountInv, AtMostOne
<1>10. ASSUME NEW d \in Clients PROVE SleepInv(d)'
  <2>1. SleepInv(d)
    BY <1>2 DEF ClientsInv
  <2>2. CASE d = c
    <3>1. Has(wq, Font(c)) # {}
      BY <1>4, <1>5
    <3>2. ~Asleep(c)' /\ blockrec'[c] = "none" /\ closure'[c] = "freed"
      BY <1>2, <1>3 DEF Asleep, TypeInv
    <3>3. Has(wq, Font(c))' # {} => c \in twice'
      BY <1>2, <1>3, <1>6 DEF CountInv
    <3> QED BY <1>3, <1>5, <1>6, <2>1, <2>2, <3>1, <3>2, <3>3 DEF SleepInv
  <2>3. CASE d # c
    <3>1. closure'[d] = closure[d] /\ blockrec'[d] = blockrec[d] /\ Asleep(d)' = Asleep(d)
      BY <1>2, <1>3, <2>3 DEF Asleep, TypeInv
    <3> QED BY <1>3, <1>5, <1>6, <2>1, <2>3, <3>1 DEF SleepInv, AtEntry
  <2> QED BY <2>2, <2>3
<1> QED BY <1>5, <1>7, <1>8, <1>9, <1>10 DEF WorkInv, ClientsInv

LEMMA DoOpenFontSuspendedStep ==
    ASSUME NoLbxStraggler, WorkInv, NEW c \in Clients, DoOpenFontSuspended(c)
    PROVE  WorkInv'
<1>1. PICK L \in Seq(Nodes) : ListInv(L)
  BY DEF WorkInv
<1>2. TypeInv /\ StackInv /\ CountInv /\ ClientsInv
  BY DEF WorkInv
<1>3. /\ AtEntry /\ Called /\ wq.work[Entry] = Font(c) /\ ~ClientGone(c)
      /\ blockrec' = [blockrec EXCEPT ![c] = "StillWorking"]
      /\ wq' = Removed(wq, Top.p, Entry)
      /\ UNCHANGED <<sleepQueue, closure, input_blocked, status, stack, server, twice>>
  BY DEF DoOpenFontSuspended, Calls, Font
<1>4. PICK x \in {Font(c), Lbx(c)} : x = Font(c)
  OBVIOUS
<1>5. /\ wq' \in Lists /\ Taken(wq, wq', Entry) /\ Running' /\ Top' = Top
      /\ Entry \in Has(wq, x)
      /\ \E M \in Seq(Nodes) : ListInv(M)'
  BY <1>1, <1>2, <1>3, <1>4, CalledFacts
<1>6. Counted(wq)' /\ (\A d \in Clients : Has(wq, Lbx(d))' = Has(wq, Lbx(d)))
      /\ (\A d \in Clients \ {c} : Has(wq, Font(d))' = Has(wq, Font(d)))
      /\ Has(wq, Font(c))' \subseteq Has(wq, Font(c))
      /\ (AtMostOne(Has(wq, Font(c))) => Has(wq, Font(c))' = {})
  <2>1. Has(wq', Font(c)) = Has(wq, Font(c))'
    BY DEF Has
  <2> QED BY <1>2, <1>3, <1>5, <2>1, TakenCount, WorkFacts
<1>7. TypeInv'
  BY <1>2, <1>3, <1>5 DEF TypeInv
<1>8. StackInv'
  BY <1>2, <1>3 DEF StackInv, Outer, Inner
<1>9. CountInv'
  BY <1>2, <1>3, <1>5, <1>6, WorkFacts DEF CountInv, AtMostOne
<1>10. ASSUME NEW d \in Clients PROVE SleepInv(d)'
  <2>1. SleepInv(d)
    BY <1>2 DEF ClientsInv
  <2>2. CASE d = c
    <3>1. Has(wq, Font(c)) # {} /\ status[c] \notin {"gone", "closed"}
      BY <1>3, <1>4, <1>5 DEF ClientGone
    <3>2. c \notin twice /\ Asleep(c)
      BY <2>1, <2>2, <3>1 DEF SleepInv
    <3>3. Has(wq, Font(c))' = {}
      BY <1>2, <1>6, <3>2 DEF CountInv
    <3>4. Asleep(c)' /\ blockrec'[c] = "StillWorking"
      BY <1>2, <1>3, <3>2 DEF Asleep, TypeInv
    <3> QED BY <1>3, <1>6, <2>1, <2>2, <3>1, <3>2, <3>3, <3>4 DEF SleepInv
  <2>3. CASE d # c
    <3>1. blockrec'[d] = blockrec[d] /\ Asleep(d)' = Asleep(d)
      BY <1>2, <1>3, <2>3 DEF Asleep, TypeInv
    <3> QED BY <1>3, <1>5, <1>6, <2>1, <2>3, <3>1 DEF SleepInv, AtEntry
  <2> QED BY <2>2, <2>3
<1> QED BY <1>5, <1>7, <1>8, <1>9, <1>10 DEF WorkInv, ClientsInv

LEMMA LbxWaitForUnblockedStep ==
    ASSUME NoLbxStraggler, WorkInv, NEW c \in Clients, LbxWaitForUnblocked(c)
    PROVE  WorkInv'
<1>1. PICK L \in Seq(Nodes) : ListInv(L)
  BY DEF WorkInv
<1>2. TypeInv /\ StackInv /\ CountInv /\ ClientsInv
  BY DEF WorkInv
<1>3. /\ AtEntry /\ Called /\ wq.work[Entry] = Lbx(c) /\ Running
      /\ UNCHANGED <<sleepQueue, closure, blockrec, status, server, twice>>
  BY DEF LbxWaitForUnblocked, Calls, Lbx, AtEntry
<1>4. CASE input_blocked' = input_blocked \ {c} /\ wq' = Removed(wq, Top.p, Entry) /\ stack' = stack
  <2>1. PICK x \in {Font(c), Lbx(c)} : x = Lbx(c)
    OBVIOUS
  <2>2. /\ wq' \in Lists /\ Taken(wq, wq', Entry) /\ Running' /\ Top' = Top
        /\ Entry \in Has(wq, x)
        /\ \E M \in Seq(Nodes) : ListInv(M)'
    BY <1>1, <1>2, <1>3, <1>4, <2>1, CalledFacts
  <2>3. Counted(wq)' /\ (\A d \in Clients \ {c} : Has(wq, Lbx(d))' = Has(wq, Lbx(d)))
        /\ (\A d \in Clients : Has(wq, Font(d))' = Has(wq, Font(d)))
        /\ Has(wq, Lbx(c))' \subseteq Has(wq, Lbx(c))
        /\ (AtMostOne(Has(wq, Lbx(c))) => Has(wq, Lbx(c))' = {})
    <3>1. Has(wq', Lbx(c)) = Has(wq, Lbx(c))'
      BY DEF Has
    <3> QED BY <1>2, <1>3, <2>2, <3>1, TakenCount, WorkFacts
  <2>4. TypeInv'
    BY <1>2, <1>3, <1>4, <2>2 DEF TypeInv
  <2>5. StackInv'
    BY <1>2, <1>3, <1>4 DEF StackInv, Outer, Inner
  <2>6. CountInv'
    <3>1. Has(wq, Lbx(c))' = {}
      BY <1>2, <2>3 DEF CountInv, Counted
    <3> QED BY <1>2, <1>3, <1>4, <2>2, <2>3, <3>1 DEF CountInv
  <2>7. ASSUME NEW d \in Clients PROVE SleepInv(d)'
    BY <1>2, <1>3, <1>4, <2>2, <2>3 DEF ClientsInv, SleepInv, Asleep
  <2> QED BY <2>2, <2>4, <2>5, <2>6, <2>7 DEF WorkInv, ClientsInv
<1>5. CASE ~ClientGone(c) /\ Advance /\ wq' = wq /\ input_blocked' = input_blocked
  <2>1. Top.loop = "ProcessWorkQueue"
    BY <1>3, <1>5, WorkFacts DEF Called
  <2>2. Passed(Top, wq.work[Entry])
    BY <1>3, <2>1, WorkFacts DEF Passed
  <2>3. StackInv' /\ ListInv(L)' /\ Running' /\ Top'.closing = Top.closing
    BY <1>1, <1>2, <1>3, <1>5, <2>2, OnwardFacts
  <2>4. TypeInv'
    BY <1>2, <1>3, <1>5 DEF TypeInv
  <2>5. \A x : Has(wq, x)' = Has(wq, x)
    BY <1>5, SameNodes
  <2>6. CountInv' /\ ClientsInv'
    BY <1>2, <1>3, <1>5, <2>3, <2>5 DEF CountInv, Counted, ClientsInv, SleepInv, Asleep
  <2> QED BY <2>3, <2>4, <2>6 DEF WorkInv
<1> QED BY <1>4, <1>5 DEF LbxWaitForUnblocked


LEMMA EstablishReturnsStep ==
    ASSUME WorkInv, EstablishReturns
    PROVE  WorkInv'
<1>1. PICK L \in Seq(Nodes) : ListInv(L)
  BY DEF WorkInv
<1>2. TypeInv /\ StackInv /\ CountInv /\ ClientsInv
  BY DEF WorkInv
<1>3. /\ Running /\ Top.q # 0 /\ Top.left = {}
      /\ wq' = Removed(wq, Top.p, Top.q)
      /\ stack' = [stack EXCEPT ![1].q = 0]
      /\ UNCHANGED <<sleepQueue, closure, blockrec, input_blocked, server, twice>>
  BY DEF EstablishReturns
<1>4. Outer(Top) /\ stack = <<Top>> /\ Top \in Frames /\ Top = stack[1]
  BY <1>2, <1>3, StackFacts DEF Inner
<1>5. PICK k \in 0 .. Len(L) :
             /\ PlacedAt(Top, wq, L, k) /\ Top.p = Node(L, k) /\ k < Len(L)
             /\ Entry = L[k + 1] /\ wq.last = Node(L, Len(L))
             /\ Entry = Top.q /\ wq.work[Entry] = Establish
  BY <1>1, <1>2, <1>3, EntryFacts
<1>6. IsList(wq, L) /\ wq \in Lists
  BY <1>1, <1>2 DEF ListInv, TypeInv
<1> DEFINE v == Removed(wq, Node(L, k), L[k + 1])
           M == Without(L, k + 1)
<1>7. wq' = v
  BY <1>3, <1>5
<1>8. /\ v \in Lists /\ Taken(wq, v, L[k + 1]) /\ IsList(v, M) /\ Len(M) = Len(L) - 1
      /\ \A j \in 0 .. k : Node(M, j) = Node(L, j)
      /\ \A j \in k + 1 .. Len(L) - 1 : M[j] = L[j + 1]
  BY <1>5, <1>6, RemoveList
<1>9. Len(L) \in Nat /\ M \in Seq(Nodes) /\ 0 \in Locations
  BY <1>6, <1>8, NodeFacts, NumberFacts DEF IsList
<1>10. PICK g : g = [Top EXCEPT !.q = 0]
  OBVIOUS
<1>11. /\ g \in Frames /\ g.p = Top.p /\ g.q = 0 /\ g.loop = Top.loop
       /\ g.closing = Top.closing /\ g.left = {}
  BY <1>3, <1>4, <1>9, <1>10 DEF Frames
<1>12. stack' = <<g>>
  <2>1. stack' = [stack EXCEPT ![1] = g]
    BY <1>3, <1>4, <1>10
  <2> QED BY <1>4, <2>1, OneFrame
<1>13. Running' /\ DOMAIN stack' = {1} /\ stack'[1] = g /\ Top' = g
  BY <1>12, OneFrame DEF Running, Top
<1>14. PlacedAt(g, wq, L, k)
  BY <1>5, <1>11 DEF PlacedAt, Passed
<1>15. Placed(g, v, M)
  BY <1>5, <1>6, <1>11, <1>14, PlacedTaken
<1> HIDE DEF v, M
<1>16. LastInv(wq, M)'
  <2>1. CASE k + 1 = Len(L)
    <3>1. Node(M, Len(M)) = Node(L, k)
      BY <1>8, <1>9, <2>1
    <3> QED BY <1>5, <1>11, <1>13, <3>1 DEF LastInv
  <2>2. CASE k + 1 # Len(L)
    <3>1. Len(M) \in k + 1 .. Len(L) - 1 /\ Len(M) + 1 = Len(L) /\ Len(M) # 0 /\ Len(L) # 0
      BY <1>5, <1>8, <1>9, <2>2
    <3>2. Node(M, Len(M)) = Node(L, Len(L))
      BY <1>8, <3>1 DEF Node
    <3>3. wq'.last = wq.last
      BY <1>7, <1>8 DEF Taken
    <3> QED BY <1>5, <3>2, <3>3 DEF LastInv
  <2> QED BY <2>1, <2>2
<1>17. ListInv(M)'
  BY <1>7, <1>8, <1>13, <1>15, <1>16 DEF ListInv
<1>18. StackInv'
  <2>1. Outer(g)'
    BY <1>3, <1>4, <1>11 DEF Outer
  <2> QED BY <1>11, <1>12, <2>1 DEF StackInv
<1>19. /\ status' \in [Clients -> {"none", "served", "gone", "closed"}]
       /\ \A c \in Clients : \/ status'[c] = status[c]
                             \/ status[c] = "none" /\ status'[c] = "served"
  <2>1. status \in [Clients -> {"none", "served", "gone", "closed"}]
    BY <1>2 DEF TypeInv
  <2> DEFINE unused == {c \in Clients : status[c] = "none"}
  <2>2. status' = [c \in Clients |-> IF c \in unused /\ \A d \in unused : c <= d
                                     THEN "served" ELSE status[c]]
    BY DEF EstablishReturns
  <2>3. \A c \in unused : status[c] = "none"
    OBVIOUS
  <2> HIDE DEF unused
  <2>4. ASSUME NEW c \in Clients
        PROVE  /\ status'[c] \in {"none", "served", "gone", "closed"}
               /\ status'[c] = status[c] \/ (status[c] = "none" /\ status'[c] = "served")
    <3>1. status'[c] = IF c \in unused /\ \A d \in unused : c <= d THEN "served" ELSE status[c]
      BY <2>2
    <3> QED BY <2>1, <2>3, <3>1
  <2>5. status' \in [Clients -> {"none", "served", "gone", "closed"}]
    BY <2>2, <2>4
  <2> QED BY <2>4, <2>5
<1>20. TypeInv'
  BY <1>2, <1>3, <1>7, <1>8, <1>19 DEF TypeInv
<1>21. Taken(wq, wq', Entry)
  BY <1>5, <1>7, <1>8
<1>22. Counted(wq)' /\ \A c \in Clients : /\ Has(wq, Font(c))' = Has(wq, Font(c))
                                         /\ Has(wq, Lbx(c))' = Has(wq, Lbx(c))
  BY <1>2, <1>5, <1>13, <1>21, TakenCount, WorkFacts
<1>23. CountInv'
  BY <1>2, <1>3, <1>13, <1>22 DEF CountInv
<1>24. ASSUME NEW c \in Clients PROVE SleepInv(c)'
  <2>1. SleepInv(c) /\ status[c] # "gone"
    BY <1>2, <1>3, <1>4, GoneFacts DEF ClientsInv
  <2>2. CASE status'[c] = status[c]
    BY <1>3, <1>22, <2>1, <2>2 DEF SleepInv, Asleep
  <2>3. CASE status[c] = "none" /\ status'[c] = "served"
    BY <1>3, <1>22, <2>1, <2>3 DEF SleepInv, Asleep
  <2> QED BY <1>19, <2>2, <2>3
<1> QED BY <1>9, <1>17, <1>18, <1>20, <1>23, <1>24 DEF WorkInv, ClientsInv, M


(* A work is queued.                                                       *)
LEMMA WorkQueued ==
    ASSUME NEW w \in Lists, NEW L, IsList(w, L), w.last = Node(L, Len(L)),
           NEW x \in Works, w.alive # Nodes
    PROVE  LET v == QueueWorkProc(w, x)
           IN /\ v \in Lists
              /\ \E M \in Seq(Nodes) : /\ IsList(v, M) /\ v.last = Node(M, Len(M))
                                       /\ \A f \in Frames : Placed(f, w, L) => Placed(f, v, M)
              /\ \E q \in Nodes : Has(v, x) = Has(w, x) \cup {q}
              /\ \A y : y # x => Has(v, y) = Has(w, y)
<1> DEFINE v == QueueWorkProc(w, x)
<1>1. PICK q \in Nodes : /\ v \in Lists /\ Added(w, v, x, q)
                         /\ IsList(v, Append(L, q)) /\ v.last = q
  BY QueueList
<1> HIDE DEF v
<1>2. PICK M : M = Append(L, q)
  OBVIOUS
<1>3. M \in Seq(Nodes) /\ v.last = Node(M, Len(M))
  <2>1. L \in Seq(Nodes) /\ Len(L) \in Nat
    BY DEF IsList
  <2>2. M \in Seq(Nodes) /\ Len(M) = Len(L) + 1 /\ M[Len(L) + 1] = q /\ Len(L) + 1 # 0
    BY <1>2, <2>1
  <2> QED BY <1>1, <2>2 DEF Node
<1>4. \A f \in Frames : Placed(f, w, L) => Placed(f, v, M)
  BY <1>1, <1>2, PlacedQueued
<1>5. Has(v, x) = Has(w, x) \cup {q} /\ \A y : y # x => Has(v, y) = Has(w, y)
  BY <1>1, AddedHas
<1> QED BY <1>1, <1>2, <1>3, <1>4, <1>5 DEF v

LEMMA HasNodes ==
    ASSUME NEW w \in Lists, NEW x
    PROVE  Has(w, x) \subseteq Nodes /\ (Has(w, x) # {} => x \in Works)
  BY DEF Has, Lists

(* CloseDownClient of a client that is served, while none is gone.         *)
LEMMA CloseDownFacts ==
    ASSUME TypeInv, CountInv, ClientsInv, NEW L \in Seq(Nodes), IsList(wq, L),
           wq.last = Node(L, Len(L)), NEW c \in Clients, status[c] = "served",
           \A d \in Clients : status[d] # "gone",
           NEW s, CloseDownClient(c, s), Running', Top'.closing = c,
           server' \in {"Dispatch", "WaitForSomething", "select"}
    PROVE  /\ TypeInv' /\ CountInv' /\ ClientsInv'
           /\ \E M \in Seq(Nodes) : /\ IsList(wq, M)' /\ LastInv(wq, M)'
                                    /\ \A f \in Frames : Placed(f, wq, L) => Placed(f, wq, M)'
<1>1. /\ status' = [status EXCEPT ![c] = "gone"]
      /\ wq' = ClientSignal(wq, c)
      /\ twice' = IF c \in sleepQueue /\ Has(wq, Font(c)) # {} THEN twice \cup {c} ELSE twice
      /\ UNCHANGED <<sleepQueue, closure, blockrec, input_blocked>>
  BY DEF CloseDownClient, ClientIsAsleep, Queued, Has, Font
<1>2. wq \in Lists /\ Counted(wq) /\ SleepInv(c)
  BY DEF TypeInv, CountInv, ClientsInv
<1>3. c \notin twice /\ AtMostOne(Has(wq, Font(c)))
  BY <1>2 DEF SleepInv, CountInv
<1>4. /\ wq' \in Lists
      /\ \E M \in Seq(Nodes) : /\ IsList(wq', M) /\ wq'.last = Node(M, Len(M))
                               /\ \A f \in Frames : Placed(f, wq, L) => Placed(f, wq', M)
      /\ c \in sleepQueue => \E q \in Nodes : Has(wq', Font(c)) = Has(wq, Font(c)) \cup {q}
      /\ c \notin sleepQueue => Has(wq', Font(c)) = Has(wq, Font(c))
      /\ \A y : y # Font(c) => Has(wq', y) = Has(wq, y)
  <2>1. CASE c \in sleepQueue
    <3>1. c \in Sleepers /\ Font(c) \in Works
      BY <2>1, WorkFacts DEF TypeInv
    <3>2. wq.alive # Nodes
      BY <1>2, <1>3, <3>1, Room
    <3>3. wq' = QueueWorkProc(wq, Font(c))
      BY <1>1, <2>1 DEF ClientSignal, ClientIsAsleep, Font
    <3> QED BY <1>2, <2>1, <3>1, <3>2, <3>3, WorkQueued
  <2>2. CASE c \notin sleepQueue
    <3>1. wq' = wq
      BY <1>1, <2>2 DEF ClientSignal, ClientIsAsleep
    <3> QED BY <1>2, <2>2, <3>1
  <2> QED BY <2>1, <2>2
<1>5. TypeInv'
  <2>1. status' \in [Clients -> {"none", "served", "gone", "closed"}] /\ twice' \subseteq Clients
    BY <1>1 DEF TypeInv
  <2> QED BY <1>1, <1>4, <2>1 DEF TypeInv
<1>6. \A x : Has(wq, x)' = Has(wq', x)
  BY DEF Has
<1>7. CountInv'
  <2>1. AtMostOne(Has(wq, Establish))'
    BY <1>2, <1>4, <1>6, WorkFacts DEF Counted, AtMostOne
  <2>2. ASSUME NEW d \in Clients
        PROVE  /\ AtMostOne(Has(wq, Lbx(d)))'
               /\ (\E m, n \in Nodes : Has(wq, Font(d))' \subseteq {m, n})
               /\ (Has(wq, Lbx(d))' # {} => d \in input_blocked')
               /\ (d \notin twice' => AtMostOne(Has(wq, Font(d)))')
    <3>1. Has(wq, Lbx(d))' = Has(wq, Lbx(d))
      BY <1>4, <1>6, WorkFacts
    <3>2. CASE d # c
      <4>1. Has(wq, Font(d))' = Has(wq, Font(d))
        BY <1>4, <1>6, <3>2, WorkFacts
      <4> QED BY <1>1, <1>2, <3>1, <3>2, <4>1 DEF CountInv, Counted, AtMostOne
    <3>3. CASE d = c /\ c \notin sleepQueue
      <4>1. Has(wq, Font(d))' = Has(wq, Font(d))
        BY <1>4, <1>6, <3>3
      <4> QED BY <1>1, <1>2, <3>1, <3>3, <4>1 DEF CountInv, Counted, AtMostOne
    <3>4. CASE d = c /\ c \in sleepQueue
      <4>1. PICK q \in Nodes : Has(wq', Font(c)) = Has(wq, Font(c)) \cup {q}
        BY <1>4, <3>4
      <4>2. \E m \in Nodes : Has(wq, Font(c)) \subseteq {m}
        <5>1. Has(wq, Font(c)) \subseteq Nodes
          BY <1>2, HasNodes
        <5>2. CASE Has(wq, Font(c)) = {}
          BY <4>1, <5>2
        <5>3. ASSUME NEW m \in Has(wq, Font(c))
              PROVE \E n \in Nodes : Has(wq, Font(c)) \subseteq {n}
          BY <1>3, <5>1 DEF AtMostOne
        <5> QED BY <5>2, <5>3
      <4>3. \E m, n \in Nodes : Has(wq, Font(d))' \subseteq {m, n}
        BY <1>6, <3>4, <4>1, <4>2
      <4>4. d \notin twice' => AtMostOne(Has(wq, Font(d)))'
        <5>1. d \notin twice' => Has(wq, Font(c)) = {}
          BY <1>1, <3>4
        <5> QED BY <1>6, <3>4, <4>1, <5>1 DEF AtMostOne
      <4> QED BY <1>1, <1>2, <3>1, <4>3, <4>4 DEF CountInv, Counted, AtMostOne
    <3> QED BY <3>2, <3>3, <3>4
  <2> QED BY <2>1, <2>2 DEF CountInv, Counted
<1>8. ASSUME NEW d \in Clients PROVE SleepInv(d)'
  <2>1. SleepInv(d)
    BY DEF ClientsInv
  <2>2. Has(wq, Lbx(d))' = Has(wq, Lbx(d))
    BY <1>4, <1>6, WorkFacts
  <2>3. CASE d # c
    <3>1. Has(wq, Font(d))' = Has(wq, Font(d))
      BY <1>4, <1>6, <2>3, WorkFacts
    <3>2. status'[d] = status[d] /\ (d \in twice' <=> d \in twice)
      BY <1>1, <2>3 DEF TypeInv
    <3> QED BY <1>1, <2>1, <2>2, <3>1, <3>2 DEF SleepInv, Asleep
  <2>4. CASE d = c
    <3>1. status'[c] = "gone"
      BY <1>1 DEF TypeInv
    <3>2. c \in sleepQueue => Has(wq, Font(c))' # {}
      BY <1>4, <1>6
    <3>3. c \notin sleepQueue => Has(wq, Font(c))' = {}
      BY <1>3, <1>4, <1>6, <2>1, <2>4 DEF SleepInv, Asleep
    <3> QED BY <1>1, <2>1, <2>2, <2>4, <3>1, <3>2, <3>3 DEF SleepInv, Asleep
  <2> QED BY <2>3, <2>4
<1>9. PICK M \in Seq(Nodes) : /\ IsList(wq', M) /\ wq'.last = Node(M, Len(M))
                              /\ \A f \in Frames : Placed(f, wq, L) => Placed(f, wq', M)
  BY <1>4
<1>10. IsList(wq, M)' /\ LastInv(wq, M)'
  BY <1>9 DEF IsList, LastInv
<1>11. ASSUME NEW f \in Frames, Placed(f, wq, L) PROVE Placed(f, wq, M)'
  BY <1>9, <1>11 DEF Placed, PlacedAt
<1> QED BY <1>5, <1>7, <1>8, <1>9, <1>10, <1>11 DEF ClientsInv


LEMMA CloseClientStep ==
    ASSUME WorkInv, NEW c \in Clients, CloseClient(c)
    PROVE  WorkInv'
<1>1. PICK L \in Seq(Nodes) : ListInv(L)
  BY DEF WorkInv
<1>2. TypeInv /\ StackInv /\ CountInv /\ ClientsInv
  BY DEF WorkInv
<1>3. /\ ~Running /\ stack = <<>> /\ status[c] = "served" /\ CloseDownClient(c, stack)
      /\ server' = IF server = "select" THEN "WaitForSomething" ELSE server
  BY DEF CloseClient, Running
<1>4. IsList(wq, L) /\ wq.last = Node(L, Len(L)) /\ \A d \in Clients : status[d] # "gone"
  BY <1>1, <1>2, <1>3, GoneFacts DEF ListInv, LastInv
<1>5. PICK f \in Frames : /\ f = Loop("ProcessWorkQueueZombies", c)
                          /\ f.loop = "ProcessWorkQueueZombies"
                          /\ f.p = 0 /\ f.q = 0 /\ f.closing = c /\ f.left = {}
  BY LoopFacts
<1>6. stack' = <<f>>
  <2>1. stack' = <<f>> \o <<>>
    BY <1>3, <1>5 DEF CloseDownClient
  <2> QED BY <2>1, OneFrame
<1>7. Running' /\ DOMAIN stack' = {1} /\ stack'[1] = f /\ Top' = f
  BY <1>6, OneFrame DEF Running, Top
<1>8. server' \in {"Dispatch", "WaitForSomething"}
  BY <1>2, <1>3 DEF TypeInv
<1>9. /\ TypeInv' /\ CountInv' /\ ClientsInv'
      /\ \E M \in Seq(Nodes) : /\ IsList(wq, M)' /\ LastInv(wq, M)'
                               /\ \A g \in Frames : Placed(g, wq, L) => Placed(g, wq, M)'
  BY <1>2, <1>3, <1>4, <1>5, <1>7, <1>8, CloseDownFacts
<1>10. StackInv'
  <2>1. status'[c] = "gone"
    BY <1>2, <1>3 DEF CloseDownClient, TypeInv
  <2> QED BY <1>5, <1>6, <1>8, <2>1 DEF StackInv, Inner
<1>11. Placed(f, wq, L)
  BY <1>4, <1>5, PlacedFirst
<1>12. \E M \in Seq(Nodes) : ListInv(M)'
  BY <1>7, <1>9, <1>11 DEF ListInv
<1> QED BY <1>9, <1>10, <1>12 DEF WorkInv

LEMMA EstablishClosesStep ==
    ASSUME WorkInv, NEW c \in Clients, EstablishCloses(c)
    PROVE  WorkInv'
<1>1. PICK L \in Seq(Nodes) : ListInv(L)
  BY DEF WorkInv
<1>2. TypeInv /\ StackInv /\ CountInv /\ ClientsInv
  BY DEF WorkInv
<1>3. /\ Running /\ Top.q # 0 /\ c \in Top.left /\ server' = server
      /\ CloseDownClient(c, [stack EXCEPT ![1].left = @ \ {c}])
  BY DEF EstablishCloses
<1>4. Outer(Top) /\ stack = <<Top>> /\ Top \in Frames /\ Top = stack[1]
  BY <1>2, <1>3, StackFacts DEF Inner
<1>5. status[c] = "served" /\ c \in Stragglers
  BY <1>3, <1>4 DEF Outer
<1>6. IsList(wq, L) /\ wq.last = Node(L, Len(L)) /\ \A d \in Clients : status[d] # "gone"
  <2>1. wq.last = Node(L, Len(L))
    BY <1>1, <1>2, <1>3, EntryFacts
  <2> QED BY <1>1, <1>2, <1>3, <1>4, <2>1, GoneFacts DEF ListInv
<1>7. PICK z \in Frames : /\ z = Loop("ProcessWorkQueueZombies", c)
                          /\ z.loop = "ProcessWorkQueueZombies"
                          /\ z.p = 0 /\ z.q = 0 /\ z.closing = c /\ z.left = {}
  BY LoopFacts
<1>8. PICK f : f = [Top EXCEPT !.left = Top.left \ {c}]
  OBVIOUS
<1>9. /\ f \in Frames /\ f.p = Top.p /\ f.q = Top.q /\ f.loop = Top.loop
      /\ f.closing = Top.closing /\ f.left = Top.left \ {c}
  BY <1>4, <1>8 DEF Frames
<1>10. stack' = <<z, f>>
  <2>1. [stack EXCEPT ![1].left = @ \ {c}] = [stack EXCEPT ![1] = f]
    BY <1>4, <1>8
  <2>2. [stack EXCEPT ![1] = f] = <<f>>
    BY <1>4, OneFrame
  <2>3. stack' = <<z>> \o <<f>>
    BY <1>3, <1>7, <2>1, <2>2 DEF CloseDownClient
  <2> QED BY <1>9, <2>3, TwoFramesJoin
<1>11. /\ Running' /\ DOMAIN stack' = {1, 2} /\ stack'[1] = z /\ stack'[2] = f
       /\ Top' = z /\ Top'.closing = c
  BY <1>7, <1>10, TwoFrames DEF Running, Top
<1>12. server' \in {"Dispatch", "WaitForSomething", "select"}
  BY <1>2, <1>3 DEF TypeInv
<1> DEFINE s == [stack EXCEPT ![1].left = @ \ {c}]
<1>13. CloseDownClient(c, s)
  BY <1>3
<1> HIDE DEF s
<1>14. /\ TypeInv' /\ CountInv' /\ ClientsInv'
       /\ \E M \in Seq(Nodes) : /\ IsList(wq, M)' /\ LastInv(wq, M)'
                                /\ \A g \in Frames : Placed(g, wq, L) => Placed(g, wq, M)'
  BY <1>2, <1>5, <1>6, <1>11, <1>12, <1>13, CloseDownFacts
<1>15. StackInv'
  <2>1. status'[c] = "gone" /\ \A d \in Clients : d # c => status'[d] = status[d]
    BY <1>2, <1>3 DEF CloseDownClient, TypeInv
  <2>2. Inner(z)'
    BY <1>7, <2>1 DEF Inner
  <2>3. Outer(f)'
    <3>1. \A d \in Top.left : d \in Clients
      BY <1>4 DEF Frames
    <3> QED BY <1>3, <1>4, <1>9, <2>1, <3>1 DEF Outer
  <2> QED BY <1>3, <1>5, <1>7, <1>9, <1>10, <2>2, <2>3 DEF StackInv
<1>16. Placed(z, wq, L)
  BY <1>6, <1>7, PlacedFirst
<1>17. Placed(f, wq, L)
  <2>1. Placed(Top, wq, L)
    BY <1>1, <1>4, OneFrame DEF ListInv
  <2> QED BY <1>9, <2>1 DEF Placed, PlacedAt, Passed
<1>18. \E M \in Seq(Nodes) : ListInv(M)'
  BY <1>9, <1>11, <1>14, <1>16, <1>17 DEF ListInv
<1> QED BY <1>14, <1>15, <1>18 DEF WorkInv

LEMMA LbxSetForBlockStep ==
    ASSUME WorkInv, NEW c \in Clients, LbxSetForBlock(c)
    PROVE  WorkInv'
<1>1. PICK L \in Seq(Nodes) : ListInv(L)
  BY DEF WorkInv
<1>2. TypeInv /\ StackInv /\ CountInv /\ ClientsInv
  BY DEF WorkInv
<1>3. /\ c \in LbxClients /\ ~Running /\ stack = <<>> /\ server = "Dispatch"
      /\ status[c] = "served" /\ c \notin input_blocked
      /\ input_blocked' = input_blocked \cup {c}
      /\ wq' = QueueWorkProc(wq, Lbx(c))
      /\ UNCHANGED <<sleepQueue, closure, blockrec, status, stack, server, twice>>
  BY DEF LbxSetForBlock, Dispatching, Running, Lbx
<1>4. IsList(wq, L) /\ wq.last = Node(L, Len(L)) /\ wq \in Lists /\ Counted(wq)
  BY <1>1, <1>2, <1>3 DEF ListInv, LastInv, TypeInv, CountInv
<1>5. Has(wq, Lbx(c)) = {} /\ Lbx(c) \in Works
  BY <1>2, <1>3, WorkFacts DEF CountInv
<1>6. wq.alive # Nodes
  BY <1>3, <1>4, <1>5, Room
<1>7. /\ wq' \in Lists
      /\ \E M \in Seq(Nodes) : IsList(wq', M) /\ wq'.last = Node(M, Len(M))
      /\ \E q \in Nodes : Has(wq', Lbx(c)) = Has(wq, Lbx(c)) \cup {q}
      /\ \A y : y # Lbx(c) => Has(wq', y) = Has(wq, y)
  BY <1>3, <1>4, <1>5, <1>6, WorkQueued
<1>8. \A x : Has(wq, x)' = Has(wq', x)
  BY DEF Has
<1>9. TypeInv' /\ StackInv'
  <2>1. TypeInv'
    BY <1>2, <1>3, <1>7 DEF TypeInv
  <2>2. StackInv'
    BY <1>2, <1>3 DEF StackInv
  <2> QED BY <2>1, <2>2
<1>10. CountInv'
  <2>1. AtMostOne(Has(wq, Establish))'
    BY <1>4, <1>7, <1>8, WorkFacts DEF Counted, AtMostOne
  <2>2. ASSUME NEW d \in Clients
        PROVE  /\ AtMostOne(Has(wq, Lbx(d)))'
               /\ (\E m, n \in Nodes : Has(wq, Font(d))' \subseteq {m, n})
               /\ (Has(wq, Lbx(d))' # {} => d \in input_blocked')
               /\ (d \notin twice' => AtMostOne(Has(wq, Font(d)))')
    <3>1. Has(wq, Font(d))' = Has(wq, Font(d))
      BY <1>7, <1>8, WorkFacts
    <3>2. CASE d # c
      <4>1. Has(wq, Lbx(d))' = Has(wq, Lbx(d))
        BY <1>7, <1>8, <3>2, WorkFacts
      <4> QED BY <1>2, <1>3, <1>4, <3>1, <4>1 DEF CountInv, Counted, AtMostOne
    <3>3. CASE d = c
      <4>1. AtMostOne(Has(wq, Lbx(c)))'
        BY <1>5, <1>7, <1>8 DEF AtMostOne
      <4> QED BY <1>2, <1>3, <1>4, <3>1, <3>3, <4>1 DEF CountInv, Counted, AtMostOne
    <3> QED BY <3>2, <3>3
  <2> QED BY <1>3, <2>1, <2>2 DEF CountInv, Counted
<1>11. ASSUME NEW d \in Clients PROVE SleepInv(d)'
  <2>1. SleepInv(d)
    BY <1>2 DEF ClientsInv
  <2>2. Has(wq, Font(d))' = Has(wq, Font(d))
    BY <1>7, <1>8, WorkFacts
  <2>3. d # c => Has(wq, Lbx(d))' = Has(wq, Lbx(d))
    BY <1>7, <1>8, WorkFacts
  <2> QED BY <1>3, <2>1, <2>2, <2>3 DEF SleepInv, Asleep, Running, Top
<1>12. \E M \in Seq(Nodes) : ListInv(M)'
  <2>1. PICK M \in Seq(Nodes) : IsList(wq', M) /\ wq'.last = Node(M, Len(M))
    BY <1>7
  <2> QED BY <1>3, <2>1 DEF ListInv, IsList, LastInv
<1> QED BY <1>9, <1>10, <1>11, <1>12 DEF WorkInv, ClientsInv


---------------------------------------------------------------------------
(* fs_wakeup signals one client after the other.                           *)

SignalLoop(g, m, w, S) ==
    g = [c \in 0 .. m |-> IF c = 0 THEN w
                          ELSE IF c \in S THEN ClientSignal(g[c - 1], c) ELSE g[c - 1]]

(* The clients of S up to m have been signalled.                           *)
SignalledTo(w, S, v, m) ==
    /\ v \in Lists /\ Counted(v) /\ Has(v, Establish) = Has(w, Establish)
    /\ \A d \in Clients : /\ Has(v, Lbx(d)) = Has(w, Lbx(d))
                          /\ d \notin S \/ d > m => Has(v, Font(d)) = Has(w, Font(d))
                          /\ d \in S /\ d <= m => Has(v, Font(d)) # {} /\ AtMostOne(Has(v, Font(d)))
    /\ \E L \in Seq(Nodes) : IsList(v, L) /\ v.last = Node(L, Len(L))

LEMMA SignalKeeps ==
    ASSUME sleepQueue \subseteq Sleepers, NEW w, NEW S, S \subseteq sleepQueue,
           \A d \in S : Has(w, Font(d)) = {},
           NEW m \in Clients, m - 1 \in Nat, m \in S, NEW u, SignalledTo(w, S, u, m - 1)
    PROVE  SignalledTo(w, S, ClientSignal(u, m), m)
<1>1. m \in Sleepers /\ Font(m) \in Works /\ Clients \subseteq Nat /\ m > m - 1
  BY NumberFacts, WorkFacts
<1>2. Has(u, Font(m)) = {}
  BY <1>1 DEF SignalledTo
<1>3. PICK L \in Seq(Nodes) : IsList(u, L) /\ u.last = Node(L, Len(L))
  BY DEF SignalledTo
<1>4. u \in Lists /\ Counted(u)
  BY DEF SignalledTo
<1>5. u.alive # Nodes
  <2>1. AtMostOne(Has(u, Font(m)))
    BY <1>2 DEF AtMostOne
  <2> QED BY <1>1, <1>4, <2>1, Room
<1>6. PICK v : v = ClientSignal(u, m)
  OBVIOUS
<1>7. v = QueueWorkProc(u, Font(m))
  BY <1>6 DEF ClientSignal, ClientIsAsleep, Font
<1>8. /\ v \in Lists
      /\ \E M \in Seq(Nodes) : IsList(v, M) /\ v.last = Node(M, Len(M))
      /\ \E q \in Nodes : Has(v, Font(m)) = Has(u, Font(m)) \cup {q}
      /\ \A y : y # Font(m) => Has(v, y) = Has(u, y)
  BY <1>1, <1>3, <1>4, <1>5, <1>7, WorkQueued
<1>9. PICK q \in Nodes : Has(v, Font(m)) = {q}
  BY <1>2, <1>8
<1>10. /\ Has(v, Establish) = Has(u, Establish)
       /\ \A d \in Clients : /\ Has(v, Lbx(d)) = Has(u, Lbx(d))
                             /\ d # m => Has(v, Font(d)) = Has(u, Font(d))
  BY <1>8, WorkFacts
<1>11. Counted(v)
  <2>1. ASSUME NEW d \in Clients PROVE \E i, j \in Nodes : Has(v, Font(d)) \subseteq {i, j}
    <3>1. CASE d = m
      BY <1>9, <3>1
    <3>2. CASE d # m
      BY <1>4, <1>10, <3>2 DEF Counted
    <3> QED BY <3>1, <3>2
  <2> QED BY <1>4, <1>10, <2>1 DEF Counted, AtMostOne
<1>12. ASSUME NEW d \in Clients
       PROVE  /\ Has(v, Lbx(d)) = Has(w, Lbx(d))
              /\ d \notin S \/ d > m => Has(v, Font(d)) = Has(w, Font(d))
              /\ d \in S /\ d <= m => Has(v, Font(d)) # {} /\ AtMostOne(Has(v, Font(d)))
  <2>1. CASE d = m
    <3>1. ~(d \notin S \/ d > m)
      BY <1>1, <2>1
    <3>2. Has(v, Font(d)) # {} /\ AtMostOne(Has(v, Font(d)))
      BY <1>9, <2>1 DEF AtMostOne
    <3>3. Has(v, Lbx(d)) = Has(w, Lbx(d))
      BY <1>10 DEF SignalledTo
    <3> QED BY <3>1, <3>2, <3>3
  <2>2. CASE d # m
    <3>1. (d > m => d > m - 1) /\ (d <= m => d <= m - 1)
      BY <1>1, <2>2
    <3>2. /\ Has(u, Lbx(d)) = Has(w, Lbx(d))
          /\ d \notin S \/ d > m - 1 => Has(u, Font(d)) = Has(w, Font(d))
          /\ d \in S /\ d <= m - 1 => Has(u, Font(d)) # {} /\ AtMostOne(Has(u, Font(d)))
      BY DEF SignalledTo
    <3> QED BY <1>10, <2>2, <3>1, <3>2
  <2> QED BY <2>1, <2>2
<1>13. SignalledTo(w, S, v, m)
  <2>1. Has(v, Establish) = Has(w, Establish)
    BY <1>10 DEF SignalledTo
  <2> QED BY <1>8, <1>11, <1>12, <2>1 DEF SignalledTo
<1> QED BY <1>6, <1>13

LEMMA SignalledFacts ==
    ASSUME sleepQueue \subseteq Sleepers, NEW w \in Lists, Counted(w),
           NEW L \in Seq(Nodes), IsList(w, L), w.last = Node(L, Len(L)),
           NEW S, S \subseteq sleepQueue, \A d \in S : Has(w, Font(d)) = {}
    PROVE  SignalledTo(w, S, Signalled(w, S), Cardinality(Clients))
<1> DEFINE N == Cardinality(Clients)
           Done(m) == /\ \E g : SignalLoop(g, m, w, S)
                      /\ \A g : SignalLoop(g, m, w, S) => SignalledTo(w, S, g[m], m)
           T == {m \in 0 .. N : Done(m)}
<1>1. N \in Nat /\ Clients = 1 .. N /\ S \subseteq Clients
  BY NumberFacts, WorkQueueAssumption
<1> HIDE DEF N
<1>2. Done(0)
  <2>1. SignalLoop([c \in 0 .. 0 |-> w], 0, w, S)
    BY DEF SignalLoop
  <2>2. ASSUME NEW g, SignalLoop(g, 0, w, S) PROVE SignalledTo(w, S, g[0], 0)
    <3>1. g[0] = w
      BY <2>2 DEF SignalLoop
    <3>2. \A d \in Clients : ~(d <= 0)
      BY <1>1
    <3> QED BY <3>1, <3>2 DEF SignalledTo
  <2> QED BY <2>1, <2>2
<1>3. ASSUME NEW m \in 1 .. N, Done(m - 1) PROVE Done(m)
  <2>1. \E g : SignalLoop(g, m, w, S)
    <3>1. PICK g : SignalLoop(g, m - 1, w, S)
      BY <1>3
    <3> DEFINE h == [c \in 0 .. m |-> IF c = 0 THEN w
                                      ELSE IF c \in S THEN ClientSignal(g[c - 1], c) ELSE g[c - 1]]
    <3>2. \A c \in 0 .. m - 1 : h[c] = g[c]
      BY <1>1, <1>3, <3>1 DEF SignalLoop
    <3>3. \A c \in 0 .. m : c # 0 => c - 1 \in 0 .. m - 1
      BY <1>1, <1>3
    <3>4. SignalLoop(h, m, w, S)
      BY <3>2, <3>3 DEF SignalLoop
    <3> QED BY <3>4
  <2>2. ASSUME NEW g, SignalLoop(g, m, w, S) PROVE SignalledTo(w, S, g[m], m)
    <3> DEFINE h == [c \in 0 .. m - 1 |-> g[c]]
    <3>1. SignalLoop(h, m - 1, w, S) /\ h[m - 1] = g[m - 1]
      <4>1. \A c \in 0 .. m - 1 : c \in 0 .. m /\ (c # 0 => c - 1 \in 0 .. m - 1)
        BY <1>1, <1>3
      <4>2. m - 1 \in 0 .. m - 1
        BY <1>1, <1>3
      <4> QED BY <2>2, <4>1, <4>2 DEF SignalLoop
    <3>2. SignalledTo(w, S, g[m - 1], m - 1)
      BY <1>3, <3>1
    <3>3. g[m] = IF m \in S THEN ClientSignal(g[m - 1], m) ELSE g[m - 1]
      BY <1>1, <1>3, <2>2 DEF SignalLoop
    <3>4. CASE m \in S
      <4>1. m \in Clients /\ m - 1 \in Nat
        BY <1>1, <1>3
      <4> QED BY <3>2, <3>3, <3>4, <4>1, SignalKeeps
    <3>5. CASE m \notin S
      <4>1. \A d \in Clients : /\ d \notin S \/ d > m => d \notin S \/ d > m - 1
                               /\ d \in S /\ d <= m => d <= m - 1
        BY <1>1, <3>5
      <4> QED BY <3>2, <3>3, <3>5, <4>1 DEF SignalledTo
    <3> QED BY <3>4, <3>5
  <2> QED BY <2>1, <2>2
<1> HIDE DEF Done
<1>4. N \in T
  <2>1. T \subseteq 0 .. N /\ 0 \in T /\ \A m \in 1 .. N : m - 1 \in T => m \in T
    BY <1>1, <1>2, <1>3
  <2> HIDE DEF T
  <2> QED BY <1>1, <2>1, StepByStep
<1> DEFINE after == CHOOSE g : SignalLoop(g, N, w, S)
<1>5. Signalled(w, S) = after[N]
  BY DEF Signalled, N, SignalLoop
<1>6. SignalLoop(after, N, w, S) /\ Done(N)
  BY <1>4 DEF Done
<1>7. SignalledTo(w, S, after[N], N)
  <2> HIDE DEF after
  <2> QED BY <1>6 DEF Done
<1> HIDE DEF after
<1> QED BY <1>5, <1>7 DEF N


LEMMA SelectWakesStep ==
    ASSUME WorkInv, NEW S \in SUBSET Clients, NEW reconnected \in BOOLEAN,
           SelectWakes(S, reconnected)
    PROVE  WorkInv'
<1>1. PICK L \in Seq(Nodes) : ListInv(L)
  BY DEF WorkInv
<1>2. TypeInv /\ StackInv /\ CountInv /\ ClientsInv
  BY DEF WorkInv
<1>3. /\ ~Running /\ stack = <<>> /\ server = "select"
      /\ \A c \in S : c \in Clients /\ blockrec[c] = "StillWorking"
      /\ blockrec' = [c \in Clients |-> IF c \notin S THEN blockrec[c]
                                        ELSE IF reconnected THEN "none" ELSE "answered"]
      /\ wq' \in {Signalled(wq, S), QueueWorkProc(Signalled(wq, S), Establish)}
      /\ server' \in {"Dispatch", "WaitForSomething"}
      /\ UNCHANGED <<sleepQueue, closure, input_blocked, status, stack, twice>>
  BY DEF SelectWakes, Running, Establish
<1>4. /\ IsList(wq, L) /\ wq.last = Node(L, Len(L)) /\ wq \in Lists /\ Counted(wq)
      /\ sleepQueue \subseteq Sleepers /\ Has(wq, Establish) = {}
  BY <1>1, <1>2, <1>3 DEF ListInv, LastInv, TypeInv, CountInv
<1>5. S \subseteq sleepQueue /\ \A c \in S : Has(wq, Font(c)) = {}
  <2>1. ASSUME NEW c \in S PROVE Asleep(c) /\ Has(wq, Font(c)) = {}
    <3>1. SleepInv(c) /\ status[c] # "gone" /\ blockrec[c] = "StillWorking"
      BY <1>2, <1>3, GoneFacts DEF ClientsInv
    <3> QED BY <3>1 DEF SleepInv
  <2> QED BY <2>1 DEF Asleep
<1>6. PICK u : u = Signalled(wq, S)
  OBVIOUS
<1>7. SignalledTo(wq, S, u, Cardinality(Clients))
  BY <1>4, <1>5, <1>6, SignalledFacts
<1>8. \A d \in Clients : d <= Cardinality(Clients)
  BY NumberFacts
<1>9. /\ u \in Lists /\ Counted(u) /\ Has(u, Establish) = {}
      /\ \A d \in Clients : /\ Has(u, Lbx(d)) = Has(wq, Lbx(d))
                            /\ d \notin S => Has(u, Font(d)) = Has(wq, Font(d))
                            /\ d \in S => Has(u, Font(d)) # {} /\ AtMostOne(Has(u, Font(d)))
      /\ \E M \in Seq(Nodes) : IsList(u, M) /\ u.last = Node(M, Len(M))
  BY <1>4, <1>7, <1>8 DEF SignalledTo
<1>10. /\ wq' \in Lists /\ AtMostOne(Has(wq', Establish))
       /\ \A y : y # Establish => Has(wq', y) = Has(u, y)
       /\ \E M \in Seq(Nodes) : IsList(wq', M) /\ wq'.last = Node(M, Len(M))
  <2>1. CASE wq' = u
    BY <1>9, <2>1 DEF AtMostOne
  <2>2. CASE wq' = QueueWorkProc(u, Establish)
    <3>1. u.alive # Nodes
      BY <1>9, Room
    <3>2. /\ wq' \in Lists
          /\ \E M \in Seq(Nodes) : IsList(wq', M) /\ wq'.last = Node(M, Len(M))
          /\ \E q \in Nodes : Has(wq', Establish) = Has(u, Establish) \cup {q}
          /\ \A y : y # Establish => Has(wq', y) = Has(u, y)
      BY <1>9, <2>2, <3>1, WorkFacts, WorkQueued
    <3> QED BY <1>9, <3>2 DEF AtMostOne
  <2> QED BY <1>3, <1>6, <2>1, <2>2
<1>11. \A x : Has(wq, x)' = Has(wq', x)
  BY DEF Has
<1>12. /\ AtMostOne(Has(wq, Establish))'
       /\ \A d \in Clients :
            /\ Has(wq, Lbx(d))' = Has(wq, Lbx(d))
            /\ Has(wq, Font(d))' = Has(u, Font(d))
            /\ d \notin S => Has(wq, Font(d))' = Has(wq, Font(d))
            /\ d \in S => Has(wq, Font(d))' # {} /\ AtMostOne(Has(wq, Font(d)))'
  <2>1. AtMostOne(Has(wq, Establish))'
    BY <1>10, <1>11 DEF AtMostOne
  <2>2. ASSUME NEW d \in Clients
        PROVE  /\ Has(wq, Lbx(d))' = Has(wq, Lbx(d))
               /\ Has(wq, Font(d))' = Has(u, Font(d))
               /\ d \notin S => Has(wq, Font(d))' = Has(wq, Font(d))
    BY <1>9, <1>10, <1>11, WorkFacts
  <2>3. ASSUME NEW d \in S PROVE Has(wq, Font(d))' # {} /\ AtMostOne(Has(wq, Font(d)))'
    BY <1>3, <1>9, <2>2 DEF AtMostOne
  <2> QED BY <2>1, <2>2, <2>3
<1>13. TypeInv' /\ StackInv'
  <2>1. blockrec' \in [Clients -> {"none", "StillWorking", "answered"}]
    BY <1>2, <1>3 DEF TypeInv
  <2>2. TypeInv'
    BY <1>2, <1>3, <1>10, <2>1 DEF TypeInv
  <2>3. StackInv'
    BY <1>3 DEF StackInv
  <2> QED BY <2>2, <2>3
<1>14. CountInv'
  <2>1. ASSUME NEW d \in Clients
        PROVE  /\ AtMostOne(Has(wq, Lbx(d)))'
               /\ (\E m, n \in Nodes : Has(wq, Font(d))' \subseteq {m, n})
               /\ (Has(wq, Lbx(d))' # {} => d \in input_blocked')
               /\ (d \notin twice' => AtMostOne(Has(wq, Font(d)))')
    <3>1. AtMostOne(Has(wq, Lbx(d)))' /\ (Has(wq, Lbx(d))' # {} => d \in input_blocked')
      BY <1>2, <1>3, <1>4, <1>12 DEF CountInv, Counted, AtMostOne
    <3>2. \E m, n \in Nodes : Has(wq, Font(d))' \subseteq {m, n}
      BY <1>9, <1>12 DEF Counted
    <3>3. d \notin twice' => AtMostOne(Has(wq, Font(d)))'
      BY <1>2, <1>3, <1>12 DEF CountInv, AtMostOne
    <3> QED BY <3>1, <3>2, <3>3
  <2> QED BY <1>3, <1>12, <2>1 DEF CountInv, Counted
<1>15. ASSUME NEW d \in Clients PROVE SleepInv(d)'
  <2>1. SleepInv(d) /\ status[d] # "gone" /\ Has(wq, Lbx(d))' = Has(wq, Lbx(d))
    BY <1>2, <1>3, <1>12, GoneFacts DEF ClientsInv
  <2>2. CASE d \notin S
    <3>1. Has(wq, Font(d))' = Has(wq, Font(d)) /\ blockrec'[d] = blockrec[d]
      BY <1>3, <1>12, <2>2
    <3> QED BY <1>3, <2>1, <3>1 DEF SleepInv, Asleep
  <2>3. CASE d \in S
    <3>1. Has(wq, Font(d))' # {} /\ blockrec'[d] \in {"none", "answered"}
      BY <1>3, <1>12, <2>3
    <3>2. Asleep(d) /\ Asleep(d)' /\ status[d] # "closed"
      BY <1>3, <1>5, <2>1, <2>3 DEF Asleep, SleepInv
    <3> QED BY <1>3, <2>1, <3>1, <3>2 DEF SleepInv
  <2> QED BY <2>2, <2>3
<1>16. \E M \in Seq(Nodes) : ListInv(M)'
  <2>1. PICK M \in Seq(Nodes) : IsList(wq', M) /\ wq'.last = Node(M, Len(M))
    BY <1>10
  <2> QED BY <1>3, <2>1 DEF ListInv, IsList, LastInv
<1> QED BY <1>13, <1>14, <1>15, <1>16 DEF WorkInv, ClientsInv

LEMMA WorkStutters ==
    ASSUME WorkInv, UNCHANGED workVars
    PROVE  WorkInv'
<1>1. /\ wq' = wq /\ stack' = stack /\ server' = server /\ status' = status
      /\ UNCHANGED <<sleepQueue, closure, blockrec, input_blocked, twice>>
  BY DEF workVars
<1>2. TypeInv' /\ StackInv' /\ CountInv'
  <2>1. TypeInv'
    BY <1>1 DEF WorkInv, TypeInv
  <2>2. StackInv'
    BY <1>1 DEF WorkInv, StackInv, Outer, Inner
  <2>3. \A x : Has(wq, x)' = Has(wq, x)
    BY <1>1, SameNodes
  <2>4. CountInv'
    BY <1>1, <2>3 DEF WorkInv, CountInv, Counted, Running
  <2> QED BY <2>1, <2>2, <2>4
<1>3. ClientsInv'
  BY <1>1 DEF WorkInv, ClientsInv, SleepInv, Asleep, Has, Running, Top
<1>4. PICK L \in Seq(Nodes) : ListInv(L)
  BY DEF WorkInv
<1>5. ListInv(L)'
  BY <1>1, <1>4 DEF ListInv, IsList, LastInv, Placed, PlacedAt, Running, Top
<1> QED BY <1>2, <1>3, <1>5 DEF WorkInv

LEMMA WorkStarts ==
    ASSUME WorkInit
    PROVE  WorkInv
<1>1. /\ wq = [next |-> [n \in Locations |-> 0],
               work |-> [n \in Nodes |-> Establish], alive |-> {}, last |-> 0]
      /\ sleepQueue = {} /\ input_blocked = {} /\ twice = {}
      /\ closure = [c \in Clients |-> "none"] /\ blockrec = [c \in Clients |-> "none"]
      /\ status = [c \in Clients |-> "none"] /\ stack = <<>> /\ server = "Dispatch"
  BY DEF WorkInit, Establish
<1>2. TypeInv
  BY <1>1, NumberFacts, WorkFacts DEF TypeInv, Lists
<1>3. StackInv /\ ~Running
  BY <1>1 DEF StackInv, Running
<1>4. \A x : Has(wq, x) = {}
  BY <1>1 DEF Has
<1>5. CountInv
  <2>1. <<NoClient, 0>> \in Places /\ Nodes # {}
    <3>1. wq \in Lists /\ wq.alive = {} /\ <<NoClient, 0>> \in Places
      BY <1>1, <1>2 DEF TypeInv, Places
    <3>2. IsFiniteSet(Places) /\ (Cardinality(Places) = 0 => Places = {})
      BY PlacesFacts, FS_EmptySet
    <3>3. Cardinality(Nodes) \in Nat /\ Cardinality(Nodes) # 0
      BY <3>1, <3>2, PlacesFacts, NumberFacts
    <3>4. 1 \in 1 .. Cardinality(Nodes)
      BY <3>3
    <3> QED BY <3>1, <3>4, NumberFacts
  <2>2. PICK m \in Nodes : TRUE
    BY <2>1
  <2> QED BY <1>1, <1>4, <2>2 DEF CountInv, Counted, AtMostOne
<1>6. ClientsInv
  BY <1>1, <1>4 DEF ClientsInv, SleepInv, Asleep
<1>7. PICK L : L = <<>>
  OBVIOUS
<1>8. L \in Seq(Nodes) /\ Len(L) = 0
  BY <1>7
<1>9. IsList(wq, L) /\ LastInv(wq, L)
  <2>1. 0 .. Len(L) = {0} /\ 1 .. Len(L) = {} /\ ~(0 < Len(L))
    BY <1>8
  <2>2. wq.next[0] = 0 /\ wq.last = 0 /\ wq.alive = {}
    BY <1>1 DEF Locations
  <2>3. Node(L, 0) = 0
    BY DEF Node
  <2> QED BY <1>8, <2>1, <2>2, <2>3 DEF IsList, LastInv
<1>10. ListInv(L)
  BY <1>1, <1>9 DEF ListInv
<1> QED BY <1>2, <1>3, <1>5, <1>6, <1>8, <1>10 DEF WorkInv

LEMMA WorkSteps ==
    ASSUME NoLbxStraggler, WorkInv, [WorkNext]_workVars
    PROVE  WorkInv'
<1>1. CASE ProcessNode
  BY <1>1, NotCalledStep, LoopEndsStep, EstablishReturnsStep, CallEstablishStep,
     DoOpenFontDoneStep, DoOpenFontSuspendedStep, LbxWaitForUnblockedStep, EstablishClosesStep
     DEF ProcessNode
<1>2. CASE EnterWait
  BY <1>2, EnterWaitStep
<1>3. ASSUME NEW S \in SUBSET Clients, NEW reconnected \in BOOLEAN, SelectWakes(S, reconnected)
      PROVE  WorkInv'
  BY <1>3, SelectWakesStep
<1>4. ASSUME NEW c \in Clients, OpenFont(c) \/ LbxSetForBlock(c) \/ CloseClient(c)
      PROVE  WorkInv'
  BY <1>4, OpenFontStep, LbxSetForBlockStep, CloseClientStep
<1>5. CASE UNCHANGED workVars
  BY <1>5, WorkStutters
<1> QED BY <1>1, <1>2, <1>3, <1>4, <1>5 DEF WorkNext

LEMMA WorkInvariance ==
    ASSUME NoLbxStraggler
    PROVE  WorkSpec => []WorkInv
<1>1. WorkInit => WorkInv
  BY WorkStarts
<1>2. WorkInv /\ [WorkNext]_workVars => WorkInv'
  BY WorkSteps
<1> QED BY <1>1, <1>2, PTL DEF WorkSpec


---------------------------------------------------------------------------
(* What can be reached from a location is the rest of the list.            *)

Further(w, S) == S \cup ({w.next[n] : n \in S} \ {0})

Reaches(g, m, w, first) ==
    g = [i \in 0 .. m |-> IF i = 0 THEN first ELSE Further(w, g[i - 1])]

(* The nodes after location k, as far as m steps go beyond the next.       *)
Rest(L, k, m) == {L[j] : j \in {i \in 1 .. Len(L) : k < i /\ i <= k + 1 + m}}

LEMMA RestNext ==
    ASSUME NEW w, NEW L, IsList(w, L), NEW k \in 0 .. Len(L), NEW m \in Nat, m # 0
    PROVE  Further(w, Rest(L, k, m - 1)) = Rest(L, k, m)
<1>1. /\ Len(L) \in Nat /\ k \in Nat /\ m - 1 \in Nat
      /\ \A j \in 1 .. Len(L) : j \in Nat /\ j \in 0 .. Len(L) /\ L[j] # 0 /\ Node(L, j) = L[j]
  <2>1. Len(L) \in Nat
    BY NodeFacts
  <2>2. \A j \in 1 .. Len(L) : j \in 0 .. Len(L) /\ j # 0 /\ j \in Nat
    BY <2>1
  <2> QED BY <2>1, <2>2, NodeFacts
<1>2. \A j \in 1 .. Len(L) : w.next[L[j]] = IF j < Len(L) THEN L[j + 1] ELSE 0
  BY <1>1 DEF IsList
<1>3. ASSUME NEW i \in 1 .. Len(L), k < i, i <= k + 1 + (m - 1) PROVE L[i] \in Rest(L, k, m)
  <2>1. i <= k + 1 + m
    BY <1>1, <1>3
  <2> QED BY <1>3, <2>1 DEF Rest
<1>4. ASSUME NEW i \in 1 .. Len(L), k < i, i <= k + 1 + (m - 1), w.next[L[i]] # 0
      PROVE  w.next[L[i]] \in Rest(L, k, m)
  <2>1. i < Len(L) /\ w.next[L[i]] = L[i + 1]
    BY <1>2, <1>4
  <2>2. i + 1 \in 1 .. Len(L) /\ k < i + 1 /\ i + 1 <= k + 1 + m
    BY <1>1, <1>4, <2>1
  <2> QED BY <2>1, <2>2 DEF Rest
<1>5. ASSUME NEW i \in 1 .. Len(L), k < i, i <= k + 1 + m
      PROVE  \/ L[i] \in Rest(L, k, m - 1)
             \/ \E n \in Rest(L, k, m - 1) : L[i] = w.next[n] /\ L[i] # 0
  <2>1. CASE i <= k + 1 + (m - 1)
    BY <1>5, <2>1 DEF Rest
  <2>2. CASE ~(i <= k + 1 + (m - 1))
    <3>1. /\ i - 1 \in 1 .. Len(L) /\ k < i - 1 /\ i - 1 <= k + 1 + (m - 1)
          /\ i - 1 < Len(L) /\ (i - 1) + 1 = i
      BY <1>1, <1>5, <2>2
    <3>2. L[i - 1] \in Rest(L, k, m - 1)
      BY <3>1 DEF Rest
    <3>3. w.next[L[i - 1]] = L[i]
      BY <1>2, <3>1
    <3> QED BY <1>1, <3>2, <3>3
  <2> QED BY <2>1, <2>2
<1>6. ASSUME NEW x \in Rest(L, k, m)
      PROVE  x \in Rest(L, k, m - 1) \/ \E n \in Rest(L, k, m - 1) : x = w.next[n] /\ x # 0
  <2>1. PICK i \in 1 .. Len(L) : k < i /\ i <= k + 1 + m /\ x = L[i]
    BY <1>6 DEF Rest
  <2> QED BY <1>5, <2>1
<1>7. ASSUME NEW x \in Rest(L, k, m - 1)
      PROVE  x \in Rest(L, k, m) /\ (w.next[x] # 0 => w.next[x] \in Rest(L, k, m))
  <2>1. PICK i \in 1 .. Len(L) : k < i /\ i <= k + 1 + (m - 1) /\ x = L[i]
    BY <1>7 DEF Rest
  <2> QED BY <1>3, <1>4, <2>1
<1> QED BY <1>6, <1>7 DEF Further

LEMMA RestFirst ==
    ASSUME NEW w, NEW L, IsList(w, L), NEW k \in 0 .. Len(L)
    PROVE  {w.next[Node(L, k)]} \ {0} = Rest(L, k, 0)
<1>1. Len(L) \in Nat /\ k \in Nat /\ \A j \in 1 .. Len(L) : L[j] # 0
  BY NodeFacts
<1>2. w.next[Node(L, k)] = IF k < Len(L) THEN L[k + 1] ELSE 0
  BY DEF IsList
<1>3. \A i \in 1 .. Len(L) : k < i /\ i <= k + 1 + 0 <=> i = k + 1
  BY <1>1
<1>4. k < Len(L) => k + 1 \in 1 .. Len(L)
  BY <1>1
<1>5. ~(k < Len(L)) => ~(k + 1 \in 1 .. Len(L))
  BY <1>1
<1> QED BY <1>1, <1>2, <1>3, <1>4, <1>5 DEF Rest

LEMMA ListFits ==
    ASSUME NEW w, NEW L, IsList(w, L)
    PROVE  Len(L) <= Cardinality(Nodes)
<1>1. L \in [1 .. Len(L) -> Nodes] /\ Len(L) \in Nat
  BY DEF IsList
<1>2. L \in Injection(1 .. Len(L), Nodes)
  BY <1>1 DEF Injection, IsInjective, IsList
<1>3. IsFiniteSet(1 .. Len(L)) /\ Cardinality(1 .. Len(L)) = Len(L)
  <2> DEFINE n == Len(L)
  <2>1. n \in Nat /\ n \in Int /\ 1 \in Int
    BY <1>1
  <2> HIDE DEF n
  <2>2. IsFiniteSet(1 .. n) /\ Cardinality(1 .. n) = IF 1 > n THEN 0 ELSE n - 1 + 1
    BY <2>1, FS_Interval
  <2>3. (IF 1 > n THEN 0 ELSE n - 1 + 1) = n
    BY <2>1
  <2> QED BY <2>2, <2>3 DEF n
<1>4. IsFiniteSet(Nodes)
  BY WorkQueueAssumption
<1> DEFINE S == 1 .. Len(L)
<1>5. L \in Injection(S, Nodes)
  BY <1>2
<1> HIDE DEF S
<1>6. Cardinality(S) <= Cardinality(Nodes)
  BY <1>4, <1>5, FS_Injection
<1> QED BY <1>3, <1>6 DEF S

LEMMA FromFacts ==
    ASSUME NEW L, IsList(wq, L), NEW k \in 0 .. Len(L)
    PROVE  From(Node(L, k)) = {L[j] : j \in {i \in 1 .. Len(L) : k < i}}
<1> DEFINE N == Cardinality(Nodes)
           first == {wq.next[Node(L, k)]} \ {0}
           Done(m) == /\ \E g : Reaches(g, m, wq, first)
                      /\ \A g : Reaches(g, m, wq, first) => g[m] = Rest(L, k, m)
           T == {m \in 0 .. N : Done(m)}
<1>1. N \in Nat /\ Len(L) \in Nat /\ Len(L) <= N
  BY NumberFacts, NodeFacts, ListFits
<1>2. first = Rest(L, k, 0)
  BY RestFirst
<1>3. ASSUME NEW m \in Nat, m # 0 PROVE Further(wq, Rest(L, k, m - 1)) = Rest(L, k, m)
  BY <1>3, RestNext
<1> HIDE DEF N, first
<1>4. Done(0)
  <2>1. Reaches([i \in 0 .. 0 |-> first], 0, wq, first)
    BY DEF Reaches
  <2>2. ASSUME NEW g, Reaches(g, 0, wq, first) PROVE g[0] = Rest(L, k, 0)
    <3>1. g[0] = first
      BY <2>2 DEF Reaches
    <3> QED BY <1>2, <3>1
  <2> QED BY <2>1, <2>2
<1>5. ASSUME NEW m \in 1 .. N, Done(m - 1) PROVE Done(m)
  <2>0. m \in Nat /\ m # 0 /\ m \in 0 .. m
    BY <1>1
  <2>1. \E g : Reaches(g, m, wq, first)
    <3>1. PICK g : Reaches(g, m - 1, wq, first)
      BY <1>5
    <3> DEFINE h == [i \in 0 .. m |-> IF i = 0 THEN first ELSE Further(wq, g[i - 1])]
    <3>2. \A i \in 0 .. m - 1 : h[i] = g[i]
      <4>1. \A i \in 0 .. m - 1 : i \in 0 .. m
        BY <1>1, <1>5
      <4> QED BY <3>1, <4>1 DEF Reaches
    <3>3. \A i \in 0 .. m : i # 0 => i - 1 \in 0 .. m - 1
      BY <1>1, <1>5
    <3>4. Reaches(h, m, wq, first)
      BY <3>2, <3>3 DEF Reaches
    <3> QED BY <3>4
  <2>2. ASSUME NEW g, Reaches(g, m, wq, first) PROVE g[m] = Rest(L, k, m)
    <3> DEFINE h == [i \in 0 .. m - 1 |-> g[i]]
    <3>1. Reaches(h, m - 1, wq, first) /\ h[m - 1] = g[m - 1]
      <4>1. \A i \in 0 .. m - 1 : i \in 0 .. m /\ (i # 0 => i - 1 \in 0 .. m - 1)
        BY <1>1, <1>5
      <4>2. m - 1 \in 0 .. m - 1
        BY <1>1, <1>5
      <4> QED BY <2>2, <4>1, <4>2 DEF Reaches
    <3>2. g[m - 1] = Rest(L, k, m - 1)
      BY <1>5, <3>1
    <3>3. g[m] = Further(wq, g[m - 1])
      BY <2>0, <2>2 DEF Reaches
    <3> QED BY <1>3, <2>0, <3>2, <3>3
  <2> QED BY <2>1, <2>2
<1> HIDE DEF Done
<1>6. N \in T
  <2>1. T \subseteq 0 .. N /\ 0 \in T /\ \A m \in 1 .. N : m - 1 \in T => m \in T
    BY <1>1, <1>4, <1>5
  <2> HIDE DEF T
  <2> QED BY <1>1, <2>1, StepByStep
<1> DEFINE reached == CHOOSE g : Reaches(g, N, wq, first)
<1>7. From(Node(L, k)) = reached[N]
  BY DEF From, N, Reaches, Further, first
<1>8. Reaches(reached, N, wq, first) /\ Done(N)
  BY <1>6 DEF Done
<1>9. reached[N] = Rest(L, k, N)
  <2> HIDE DEF reached
  <2> QED BY <1>8 DEF Done
<1>10. \A i \in 1 .. Len(L) : i <= k + 1 + N
  BY <1>1
<1> HIDE DEF reached
<1> QED BY <1>7, <1>9, <1>10 DEF Rest

---------------------------------------------------------------------------
(* The theorems.                                                           *)

LEMMA IntactByInvariant ==
    ASSUME WorkInv
    PROVE  QueueIntact
<1>1. PICK L \in Seq(Nodes) : ListInv(L)
  BY DEF WorkInv
<1>2. TypeInv /\ StackInv
  BY DEF WorkInv
<1>3. IsList(wq, L)
  BY <1>1 DEF ListInv
<1>4. /\ Len(L) \in Nat /\ wq.alive = {L[i] : i \in 1 .. Len(L)}
      /\ 0 \in 0 .. Len(L) /\ Len(L) \in 0 .. Len(L) /\ Node(L, 0) = 0
      /\ \A i \in 1 .. Len(L) : i \in 0 .. Len(L) /\ 0 < i /\ ~(i < i) /\ Node(L, i) = L[i]
  <2>1. Len(L) \in Nat
    BY <1>3, NodeFacts
  <2>2. \A i \in 1 .. Len(L) : i \in 0 .. Len(L) /\ 0 < i /\ ~(i < i) /\ i # 0
    BY <2>1
  <2>3. 0 \in 0 .. Len(L) /\ Len(L) \in 0 .. Len(L)
    BY <2>1
  <2> QED BY <1>3, <2>1, <2>2, <2>3, NodeFacts DEF IsList
<1>5. From(0) = wq.alive
  <2>1. From(0) = {L[j] : j \in {i \in 1 .. Len(L) : 0 < i}}
    BY <1>3, <1>4, FromFacts
  <2> QED BY <1>4, <2>1
<1>6. ASSUME NEW n \in wq.alive PROVE n \notin From(n)
  <2>1. PICK i \in 1 .. Len(L) : n = L[i]
    BY <1>4
  <2>2. From(n) = {L[j] : j \in {h \in 1 .. Len(L) : i < h}}
    BY <1>3, <1>4, <2>1, FromFacts
  <2> QED BY <1>3, <1>4, <2>1, <2>2 DEF IsList
<1>7. \A k \in 0 .. Len(L) : Node(L, k) \in wq.alive \cup {0}
  <2>1. \A k \in 0 .. Len(L) : k # 0 => k \in 1 .. Len(L)
    BY <1>4
  <2> QED BY <1>3, <2>1, NodeFacts DEF Node
<1>8. ASSUME NEW i \in DOMAIN stack
      PROVE  /\ stack[i].p \in wq.alive \cup {0} /\ stack[i].q \in wq.alive \cup {0}
             /\ stack[i].q # 0 => wq.next[stack[i].p] = stack[i].q
  <2>1. PICK k \in 0 .. Len(L) : PlacedAt(stack[i], wq, L, k)
    BY <1>1 DEF ListInv, Placed
  <2>2. stack[i].p = Node(L, k)
    BY <2>1 DEF PlacedAt
  <2>3. stack[i].q # 0 => k < Len(L) /\ stack[i].q = L[k + 1] /\ k + 1 \in 1 .. Len(L)
    BY <1>4, <2>1 DEF PlacedAt
  <2>4. stack[i].q # 0 => wq.next[Node(L, k)] = L[k + 1]
    BY <1>3, <2>3 DEF IsList
  <2> QED BY <1>4, <1>7, <2>2, <2>3, <2>4
<1>9. ~Running => wq.last \in wq.alive \cup {0} /\ wq.next[wq.last] = 0
  <2>1. ~Running => wq.last = Node(L, Len(L))
    BY <1>1 DEF ListInv, LastInv
  <2>2. wq.next[Node(L, Len(L))] = 0
    BY <1>3, <1>4 DEF IsList
  <2> QED BY <1>4, <1>7, <2>1, <2>2
<1> QED BY <1>5, <1>6, <1>8, <1>9 DEF QueueIntact

LEMMA TypesByInvariant ==
    ASSUME WorkInv
    PROVE  WorkTypeOK
<1>1. TypeInv /\ StackInv
  BY DEF WorkInv
<1>2. ASSUME NEW n \in Nodes
      PROVE  /\ wq.work[n].function \in Functions
             /\ wq.work[n].client \in Clients \cup {NoClient}
  <2>1. wq.work[n] \in Works
    BY <1>1 DEF TypeInv, Lists
  <2> QED BY <2>1, WorkFacts DEF Functions
<1>3. Len(stack) <= 2
  <2>1. \A f : Len(<<f>>) = 1
    OBVIOUS
  <2>2. \A z, f : Len(<<z, f>>) = 2
    OBVIOUS
  <2>3. Len(<<>>) = 0
    OBVIOUS
  <2>4. CASE stack = <<>>
    BY <2>3, <2>4
  <2>5. ASSUME NEW f \in Frames, stack = <<f>> PROVE Len(stack) <= 2
    BY <2>1, <2>5
  <2>6. ASSUME NEW z \in Frames, NEW f \in Frames, stack = <<z, f>> PROVE Len(stack) <= 2
    BY <2>2, <2>6
  <2> QED BY <1>1, <2>4, <2>5, <2>6 DEF StackInv
<1>4. wq.next \in [Locations -> Locations] /\ wq.alive \subseteq Nodes /\ wq.last \in Locations
  BY <1>1 DEF TypeInv, Lists
<1>5. Sleepers \subseteq Clients
  BY WorkQueueAssumption
<1> QED BY <1>1, <1>2, <1>3, <1>4, <1>5 DEF WorkTypeOK, TypeInv

LEMMA ClientsByInvariant ==
    ASSUME WorkInv
    PROVE  SleepersAreWoken /\ ClosuresLive /\ ClosedForgotten
<1>1. TypeInv /\ \A c \in Clients : SleepInv(c) /\ Queued(c, wq) = Has(wq, Font(c))
  BY DEF WorkInv, ClientsInv, Queued, Has, Font
<1>2. SleepersAreWoken
  BY <1>1 DEF SleepersAreWoken, SleepInv, Asleep
<1>3. ClosuresLive
  BY <1>1 DEF ClosuresLive, SleepInv, Asleep
<1>4. ASSUME NEW c \in Clients, status[c] = "closed", NEW n \in wq.alive, wq.work[n].client = c
      PROVE  FALSE
  <2>1. Has(wq, Font(c)) = {} /\ Has(wq, Lbx(c)) = {}
    BY <1>1, <1>4 DEF SleepInv
  <2>2. wq.work[n] \in Works
    BY <1>1 DEF TypeInv, Lists
  <2>3. wq.work[n] = Font(c) \/ wq.work[n] = Lbx(c)
    BY <1>4, <2>2, WorkFacts, NumberFacts
  <2> QED BY <2>1, <2>3 DEF Has
<1>5. ClosedForgotten
  BY <1>1, <1>4 DEF ClosedForgotten, SleepInv, Asleep
<1> QED BY <1>2, <1>3, <1>5

(* The list of the work queue is whole, and the pointers that loops and    *)
(* QueueWorkProc write through lead to the rest of it, for any number of   *)
(* clients and nodes: ProcessWorkQueue, the work functions that queue and  *)
(* free, and ProcessWorkQueueZombies in their midst never lose a node of   *)
(* each other; and no function is about to use a closure that was freed.   *)
THEOREM QueueSafe ==
    ASSUME NoLbxStraggler
    PROVE  WorkSpec => []WorkQueueInv
<1>1. WorkInv => WorkQueueInv
  BY TypesByInvariant, IntactByInvariant, ClientsByInvariant DEF WorkQueueInv
<1> QED BY <1>1, WorkInvariance, PTL

(* A client that sleeps is owed an answer by the font server, or has its   *)
(* doOpenFont queued: its signal is never lost, neither by the loops nor   *)
(* by the clients that are closed while others sleep.                      *)
THEOREM SleepersWoken ==
    ASSUME NoLbxStraggler
    PROVE  WorkSpec => []SleepersAreWoken
<1>1. WorkInv => SleepersAreWoken
  BY ClientsByInvariant
<1> QED BY <1>1, WorkInvariance, PTL

(* When CloseDownClient has returned, nothing is left of the client in the *)
(* work queue, among the sleepers and at the font server.                  *)
THEOREM ClosedAreForgotten ==
    ASSUME NoLbxStraggler
    PROVE  WorkSpec => []ClosedForgotten
<1>1. WorkInv => ClosedForgotten
  BY ClientsByInvariant
<1> QED BY <1>1, WorkInvariance, PTL
===========================================================================

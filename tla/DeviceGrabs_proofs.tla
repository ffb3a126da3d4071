------------------------- MODULE DeviceGrabs_proofs -------------------------
(***************************************************************************)
(* Proofs about the grabs of devices, for any clients, windows and grabs:  *)
(* a device is frozen by a grab that exists, what is held back is played   *)
(* as soon as it may be and in order, and a synchronous grab sees one      *)
(* event at a time.                                                        *)
(***************************************************************************)
EXTENDS DeviceGrabs, SequenceTheorems, WellFoundedInduction, TLAPS

(* The records of the devices, as TypeOK has them.                         *)
Records ==
    [grab: Grabs \cup {None}, fromPassive: BOOLEAN, activating: BOOLEAN,
     state: SyncStates, other: Devices \cup {None}, frozen: BOOLEAN,
     event: Events \cup {None}, reports: 0 .. 2]

(* What is always true of the records, also while a grab is changed: a     *)
(* device is frozen for a grab that exists.                                *)
WellGrabbed(D) ==
    \A d \in Devices :
        /\ D[d].state = "NotGrabbed" <=> D[d].grab = None
        /\ D[d].other # None => D[d].other # d /\ D[D[d].other].grab # None
        /\ D[d].state = "FrozenWithEvent" => D[d].event \in Events

(* frozen is what ComputeFreezes makes of it.                              *)
WellFrozen(D) ==
    \A d \in Devices : D[d].frozen <=> D[d].state \in Frozen \/ D[d].other # None

(* OneEventAtATime, of records and of the last events processed.           *)
OneFor(D, d, last) ==
    /\ D[d].state \in {"FreezeNextEvent", "FreezeBothNextEvent", "FrozenNoEvent"}
          => D[d].reports = 0
    /\ D[d].state = "FrozenWithEvent" =>
          D[d].reports = 1 /\ D[d].event.device = d /\ D[d].event.id = last[d]

OneAtATime(D, last) == \A d \in Devices : OneFor(D, d, last)

DevInv == WellGrabbed(dev) /\ WellFrozen(dev) /\ OneAtATime(dev, seen)

---------------------------------------------------------------------------
(* The stack.  The frame of a window has still to do one of these.         *)
Lefts ==
    { <<Pointer, Keyboard, None, Pointer, Keyboard>>,
      <<Keyboard, None, Pointer, Keyboard>>, <<None, Pointer, Keyboard>>,
      <<Pointer, Keyboard>>, <<Keyboard>>, <<>> }

Plays(s) == \E i \in DOMAIN s : s[i].call = "play"
Gives(s) == \E i \in DOMAIN s : s[i].call = "give"

(* Events are not played within playing; the two halves of a repeated      *)
(* press are given one after the other.                                    *)
Nested(s) ==
    \A i \in DOMAIN s :
        /\ s[i].call = "play" => \A j \in DOMAIN s : s[j].call = "play" => j = i
        /\ s[i].call = "give" => s[i].event.device = Keyboard
        /\ s[i].call = "give" /\ s[i].event.kind # "Press" =>
              i + 1 \in DOMAIN s /\ s[i + 1].call = "give" /\ s[i + 1].event.kind = "Press"
        /\ s[i].call = "window" => s[i].left \in Lefts

(* What a call may do that returns to s: an event is replayed at once, and *)
(* what a client's end calls is only the end of its window.                *)
Returned(s) ==
    \A i \in DOMAIN s :
        /\ s[i].call # "replay"
        /\ s[i].call = "free" => s[i].client = LeafOwner

(* A grab of d on the window that goes away is still to be looked for.     *)
Leaves(s, d) ==
    \E i \in DOMAIN s : s[i].call = "window" /\ \E j \in DOMAIN s[i].left : s[i].left[j] = d

StackInv ==
    /\ Nested(stack) /\ (stack # <<>> => Returned(Tail(stack)))
    /\ Calling("replay") => Head(stack).event.id = seen[Head(stack).event.device]

(* Unless events are being played, those held back are of frozen devices.  *)
HeldBackInv == Plays(stack) \/ \A i \in DOMAIN pending : dev[pending[i].device].frozen

(* A grab on the window that left the trace is still to be deactivated.    *)
WindowInv ==
    \A d \in Devices : dev[d].grab # None /\ dev[d].grab.window > top => Leaves(stack, d)

(* Only while its resources are freed has a client that is gone a passive  *)
(* grab; a grab that is active it has not.                                 *)
LiveInv ==
    /\ \A d \in Devices : dev[d].grab # None => dev[d].grab.client \notin gone
    /\ \A p \in passive : p.grab.client \in gone =>
         Calling("free") /\ Head(stack).client = p.grab.client

---------------------------------------------------------------------------
(* Order.                                                                  *)

GivenBefore(s, n) == \A i \in DOMAIN s : s[i].call = "give" => s[i].event.id <= n

Numbered ==
    /\ \A d \in Devices : seen[d] <= arrived
    /\ \A i \in DOMAIN pending : pending[i].id <= arrived
    /\ GivenBefore(stack, arrived)

(* What is given precedes what is held back, and while it waits for events *)
(* that are played there is nothing of the keyboard among them.            *)
GivenFirst(s, held) ==
    \A i \in DOMAIN s : s[i].call = "give" =>
        /\ \A j \in DOMAIN held : held[j].device = Keyboard => s[i].event.id < held[j].id
        /\ (\A k \in DOMAIN s : k > i => s[k].call # "play") =>
             \A j \in DOMAIN held : held[j].device # Keyboard

(* Element i is the last press or release of d that is held back.          *)
LastHeld(i, d) ==
    /\ pending[i].device = d /\ pending[i].kind # "Motion"
    /\ \A j \in DOMAIN pending : j > i /\ pending[j].device = d => pending[j].kind = "Motion"

NoneHeld(d) ==
    \A i \in DOMAIN pending : pending[i].device = d => pending[i].kind = "Motion"

(* The last press or release of a device, held back, given or processed,   *)
(* tells whether the key or button is held.                                *)
HeldTruth ==
    \A d \in Devices :
        /\ \A i \in DOMAIN pending : LastHeld(i, d) => (physical[d] <=> pending[i].kind = "Press")
        /\ NoneHeld(d) => IF d = Keyboard /\ Gives(stack) THEN physical[d]
                          ELSE down[d] = physical[d]

OrderInv == Numbered /\ (~cut => PendingInOrder /\ GivenFirst(stack, pending) /\ HeldTruth)

IInv == TypeOK /\ DevInv /\ StackInv /\ HeldBackInv /\ WindowInv /\ OrderInv

---------------------------------------------------------------------------
(* The constants, and the two devices.                                     *)

LEMMA TwoDevices ==
    /\ Keyboard \in Devices /\ Pointer \in Devices /\ None \notin Devices
    /\ \A d \in Devices : Other(d) \in Devices /\ Other(d) # d
    /\ \A d, x \in Devices : x = d \/ x = Other(d)
  BY DeviceGrabsAssumption DEF Devices, Other

LEMMA NotNone == None \notin Grabs /\ \A g \in Grabs : g # None
  BY DeviceGrabsAssumption

LEMMA GrabFields ==
    ASSUME NEW g \in Grabs
    PROVE  g.client \in Clients /\ g.window \in Windows /\ g.this \in Modes /\ g.other \in Modes
  BY DEF Grabs

LEMMA RecordFields ==
    ASSUME NEW r \in Records
    PROVE  /\ r.grab \in Grabs \cup {None} /\ r.state \in SyncStates
           /\ r.other \in Devices \cup {None} /\ r.event \in Events \cup {None}
           /\ r.reports \in 0 .. 2 /\ r.frozen \in BOOLEAN /\ r.fromPassive \in BOOLEAN
           /\ r.activating \in BOOLEAN
  BY DEF Records

---------------------------------------------------------------------------
(* What the operators do to the records.                                   *)

(* The grab of device x and what goes with it are the same in D and E.     *)
SameGrab(D, E, x) ==
    /\ E[x].grab = D[x].grab /\ E[x].state = D[x].state
    /\ E[x].reports = D[x].reports /\ E[x].event = D[x].event

LEMMA RefrozenFields ==
    ASSUME NEW D \in [Devices -> Records]
    PROVE  /\ Refrozen(D) \in [Devices -> Records]
           /\ \A x \in Devices :
                /\ SameGrab(D, Refrozen(D), x) /\ Refrozen(D)[x].other = D[x].other
                /\ Refrozen(D)[x].frozen <=> D[x].state \in Frozen \/ D[x].other # None
<1> DEFINE R(x) == [D[x] EXCEPT !.frozen = D[x].other # None \/ D[x].state \in Frozen]
<1>1. ASSUME NEW x \in Devices
      PROVE  /\ R(x) \in Records
             /\ R(x).grab = D[x].grab /\ R(x).state = D[x].state /\ R(x).other = D[x].other
             /\ R(x).reports = D[x].reports /\ R(x).event = D[x].event
             /\ R(x).frozen = (D[x].other # None \/ D[x].state \in Frozen)
  <2>1. D[x] \in Records
    OBVIOUS
  <2> QED BY <2>1 DEF Records
<1>2. Refrozen(D) = [x \in Devices |-> R(x)]
  BY DEF Refrozen
<1> QED BY <1>1, <1>2 DEF SameGrab

LEMMA SyncsFields ==
    ASSUME NEW D \in [Devices -> Records], NEW d \in Devices, D[d].grab \in Grabs
    PROVE  LET E == CheckGrabForSyncs(D, d)
           IN /\ E \in [Devices -> Records]
              /\ E[d].grab = D[d].grab /\ E[d].reports = D[d].reports
              /\ E[d].state \in {"FrozenNoEvent", "Thawed"}
              /\ E[d].other \in {D[d].other, None}
              /\ SameGrab(D, E, Other(d))
              /\ E[Other(d)].other \in {d, None, D[Other(d)].other}
<1> DEFINE g == D[d].grab
           e == Other(d)
           freed(x) == IF FrozenBy(D, x, g.client) THEN None ELSE D[x].other
           E == CheckGrabForSyncs(D, d)
<1>1. e \in Devices /\ e # d /\ D[d] \in Records /\ D[e] \in Records
  BY TwoDevices
<1>2. PICK s : s = IF g.this = "Sync" THEN "FrozenNoEvent" ELSE "Thawed"
  OBVIOUS
<1>3. PICK o : o = IF g.this = "Sync" THEN D[d].other ELSE freed(d)
  OBVIOUS
<1>4. PICK p : p = IF g.other = "Sync" THEN d ELSE freed(e)
  OBVIOUS
<1>5. E = [D EXCEPT ![d] = [@ EXCEPT !.state = s, !.other = o], ![e] = [@ EXCEPT !.other = p]]
  BY <1>1, <1>2, <1>3, <1>4 DEF CheckGrabForSyncs
<1>6. /\ s \in {"FrozenNoEvent", "Thawed"} /\ s \in SyncStates
      /\ o \in {D[d].other, None} /\ p \in {d, None, D[e].other}
      /\ o \in Devices \cup {None} /\ p \in Devices \cup {None}
  BY <1>1, <1>2, <1>3, <1>4, RecordFields DEF SyncStates, Frozen
<1>7. [D[d] EXCEPT !.state = s, !.other = o] \in Records
  BY <1>1, <1>6 DEF Records
<1>8. [D[e] EXCEPT !.other = p] \in Records
  BY <1>1, <1>6 DEF Records
<1>9. E[d] = [D[d] EXCEPT !.state = s, !.other = o] /\ E[e] = [D[e] EXCEPT !.other = p]
  BY <1>1, <1>5
<1>10. E \in [Devices -> Records]
  BY <1>1, <1>5, <1>7, <1>8, <1>9, TwoDevices
<1>11. /\ E[d].grab = D[d].grab /\ E[d].reports = D[d].reports
       /\ E[d].state = s /\ E[d].other = o
  BY <1>1, <1>9 DEF Records
<1>12. SameGrab(D, E, e) /\ E[e].other = p
  BY <1>1, <1>9 DEF Records, SameGrab
<1> QED BY <1>6, <1>10, <1>11, <1>12

LEMMA ActivatedFields ==
    ASSUME NEW D \in [Devices -> Records], NEW d \in Devices, NEW g \in Grabs, NEW auto \in BOOLEAN
    PROVE  LET E == Activated(D, d, g, auto)
           IN /\ E \in [Devices -> Records]
              /\ E[d].grab = g /\ E[d].reports = 0
              /\ E[d].state \in {"FrozenNoEvent", "Thawed"}
              /\ E[d].other \in {D[d].other, None}
              /\ SameGrab(D, E, Other(d))
              /\ E[Other(d)].other \in {d, None, D[Other(d)].other}
<1>0. PICK a \in BOOLEAN : a = auto
  BY Zenon
<1> DEFINE r == [D[d] EXCEPT !.grab = g, !.fromPassive = a, !.reports = 0]
           F == [D EXCEPT ![d] = r]
<1>1. Other(d) \in Devices /\ Other(d) # d /\ D[d] \in Records
  BY TwoDevices
<1>2. r \in Records /\ r.grab = g /\ r.reports = 0 /\ r.other = D[d].other
  <2> DEFINE p == [D[d] EXCEPT !.grab = g]
             q == [p EXCEPT !.fromPassive = a]
  <2>1. p \in Records /\ p.grab = g /\ p.other = D[d].other
    BY <1>1 DEF Records
  <2> HIDE DEF p
  <2>2. q \in Records /\ q.grab = g /\ q.other = D[d].other
    BY <2>1 DEF Records
  <2>3. r = [q EXCEPT !.reports = 0]
    BY DEF p
  <2> HIDE DEF q
  <2> QED BY <2>2, <2>3 DEF Records
<1>3. F \in [Devices -> Records] /\ F[d] = r /\ F[Other(d)] = D[Other(d)]
  BY <1>1, <1>2
<1>4. Activated(D, d, g, auto) = CheckGrabForSyncs(F, d)
  BY <1>0, Zenon DEF Activated
<1> HIDE DEF F, r
<1>5. SameGrab(F, CheckGrabForSyncs(F, d), Other(d)) =>
         SameGrab(D, CheckGrabForSyncs(F, d), Other(d))
  BY <1>3 DEF SameGrab
<1>6. F[d].grab \in Grabs
  BY <1>2, <1>3
<1> QED BY <1>2, <1>3, <1>4, <1>5, <1>6, SyncsFields

LEMMA DeactivatedFields ==
    ASSUME NEW D \in [Devices -> Records], NEW d \in Devices
    PROVE  LET E == Deactivated(D, d)
           IN /\ E \in [Devices -> Records]
              /\ E[d].grab = None /\ E[d].state = "NotGrabbed"
              /\ SameGrab(D, E, Other(d))
              /\ \A x \in Devices : E[x].other # None => E[x].other = D[x].other /\ E[x].other # d
<1> DEFINE other(x) == IF D[x].other = d THEN None ELSE D[x].other
           R(x) == IF x = d THEN [D[x] EXCEPT !.grab = None, !.state = "NotGrabbed",
                                              !.fromPassive = FALSE, !.other = other(x),
                                              !.reports = 0]
                   ELSE [D[x] EXCEPT !.other = other(x)]
<1>1. Deactivated(D, d) = [x \in Devices |-> R(x)]
  BY DEF Deactivated
<1>2. Other(d) \in Devices /\ Other(d) # d
  BY TwoDevices
<1>3. ASSUME NEW x \in Devices
      PROVE  R(x) \in Records /\ R(x).other = other(x)
  <2>1. D[x] \in Records /\ other(x) \in Devices \cup {None}
    BY RecordFields
  <2>2. "NotGrabbed" \in SyncStates
    BY DEF SyncStates
  <2>3. CASE x = d
    <3>1. PICK a \in BOOLEAN : a = FALSE
      BY Zenon
    <3>2. PICK o \in Devices \cup {None} : o = other(x)
      BY <2>1
    <3>3. R(x) = [D[x] EXCEPT !.grab = None, !.state = "NotGrabbed", !.fromPassive = a,
                              !.other = o, !.reports = 0]
      BY <2>3, <3>1, <3>2, Zenon
    <3> DEFINE p == [D[x] EXCEPT !.grab = None, !.state = "NotGrabbed", !.fromPassive = a, !.other = o]
    <3>4. p \in Records /\ p.other = o
      BY <2>1, <2>2, <3>2 DEF Records
    <3>5. R(x) = [p EXCEPT !.reports = 0]
      BY <3>3
    <3> HIDE DEF p
    <3>6. [p EXCEPT !.reports = 0] \in Records /\ [p EXCEPT !.reports = 0].other = o
      BY <3>4 DEF Records
    <3> QED BY <3>5, <3>6
  <2>4. CASE x # d
    BY <2>1, <2>4 DEF Records
  <2> QED BY <2>3, <2>4
<1>4. R(d).grab = None /\ R(d).state = "NotGrabbed"
  <2>1. D[d] \in Records
    OBVIOUS
  <2> QED BY <2>1 DEF Records
<1>5. SameGrab(D, [x \in Devices |-> R(x)], Other(d))
  <2>1. D[Other(d)] \in Records
    BY <1>2
  <2> QED BY <1>2, <2>1 DEF Records, SameGrab
<1> HIDE DEF R
<1> QED BY <1>1, <1>3, <1>4, <1>5, TwoDevices

(* AllowSome gives a state to the devices that c holds and thaws others.   *)
Allowed(D, E, c, state) ==
    \A x \in Devices :
        /\ E[x].grab = D[x].grab /\ E[x].event = D[x].event
        /\ E[x].other \in {D[x].other, None}
        /\ \/ E[x].state = D[x].state /\ E[x].reports = D[x].reports
           \/ D[x].grab # None /\ E[x].state = state /\ E[x].reports = 0

LEMMA AllowThisFields ==
    ASSUME TypeOK, NEW c \in Clients, NEW d \in Devices, NEW state \in SyncStates
    PROVE  LET E == AllowThis(c, d, state)
           IN /\ E \in [Devices -> Records] /\ Allowed(dev, E, c, state)
              /\ \A x \in Devices : x # d => E[x] = dev[x]
<1> DEFINE E == AllowThis(c, d, state)
<1>1. dev \in [Devices -> Records]
  BY DEF TypeOK, Records
<1>2. PICK s : s = IF d \in Held(c) THEN state ELSE dev[d].state
  OBVIOUS
<1>3. PICK n : n = IF d \in Held(c) THEN 0 ELSE dev[d].reports
  OBVIOUS
<1>4. PICK o : o = IF ThisSynced(c, d) THEN None ELSE dev[d].other
  OBVIOUS
<1> DEFINE r == [dev[d] EXCEPT !.state = s, !.reports = n, !.other = o]
<1>5. E = [dev EXCEPT ![d] = r]
  BY <1>1, <1>2, <1>3, <1>4 DEF AllowThis
<1>6. /\ s \in SyncStates /\ n \in 0 .. 2 /\ o \in Devices \cup {None} /\ o \in {dev[d].other, None}
      /\ \/ s = dev[d].state /\ n = dev[d].reports
         \/ dev[d].grab # None /\ s = state /\ n = 0
  BY <1>1, <1>2, <1>3, <1>4, RecordFields DEF Held
<1>7. /\ r \in Records /\ r.grab = dev[d].grab /\ r.event = dev[d].event
      /\ r.state = s /\ r.reports = n /\ r.other = o
  <2>1. dev[d] \in Records
    BY <1>1
  <2> QED BY <2>1, <1>6 DEF Records
<1> HIDE DEF r
<1>8. E \in [Devices -> Records] /\ E[d] = r /\ \A x \in Devices : x # d => E[x] = dev[x]
  BY <1>1, <1>5, <1>7
<1> QED BY <1>6, <1>7, <1>8 DEF Allowed

LEMMA AllowBothFields ==
    ASSUME TypeOK, NEW c \in Clients, NEW state \in SyncStates
    PROVE  LET E == AllowBoth(c, state)
           IN E \in [Devices -> Records] /\ Allowed(dev, E, c, state)
<1> DEFINE R(e) == [dev[e] EXCEPT !.state = IF e \in Held(c) THEN state ELSE dev[e].state,
                                  !.reports = IF e \in Held(c) THEN 0 ELSE dev[e].reports,
                                  !.other = IF FrozenBy(dev, e, c) THEN None ELSE dev[e].other]
<1>1. dev \in [Devices -> Records]
  BY DEF TypeOK, Records
<1>2. AllowBoth(c, state) = [e \in Devices |-> R(e)]
  BY <1>1 DEF AllowBoth, Records
<1>3. ASSUME NEW x \in Devices
      PROVE  /\ R(x) \in Records /\ R(x).grab = dev[x].grab /\ R(x).event = dev[x].event
             /\ R(x).other \in {dev[x].other, None}
             /\ \/ R(x).state = dev[x].state /\ R(x).reports = dev[x].reports
                \/ dev[x].grab # None /\ R(x).state = state /\ R(x).reports = 0
  <2>1. dev[x] \in Records
    BY <1>1
  <2>2. PICK s : s = IF x \in Held(c) THEN state ELSE dev[x].state
    OBVIOUS
  <2>3. PICK n : n = IF x \in Held(c) THEN 0 ELSE dev[x].reports
    OBVIOUS
  <2>4. PICK o : o = IF FrozenBy(dev, x, c) THEN None ELSE dev[x].other
    OBVIOUS
  <2>5. /\ s \in SyncStates /\ n \in 0 .. 2 /\ o \in Devices \cup {None} /\ o \in {dev[x].other, None}
        /\ \/ s = dev[x].state /\ n = dev[x].reports
           \/ dev[x].grab # None /\ s = state /\ n = 0
    BY <2>1, <2>2, <2>3, <2>4, RecordFields DEF Held
  <2>6. R(x) = [dev[x] EXCEPT !.state = s, !.reports = n, !.other = o]
    BY <2>2, <2>3, <2>4
  <2>7. /\ R(x) \in Records /\ R(x).grab = dev[x].grab /\ R(x).event = dev[x].event
        /\ R(x).state = s /\ R(x).reports = n /\ R(x).other = o
    BY <2>1, <2>5, <2>6 DEF Records
  <2> QED BY <2>5, <2>7
<1> HIDE DEF R
<1> QED BY <1>2, <1>3 DEF Allowed

---------------------------------------------------------------------------
(* The operators keep what is always true of the records.                  *)

LEMMA SameGrabSameEvents ==
    ASSUME NEW D, NEW E, NEW d \in Devices, NEW last, SameGrab(D, E, d), OneFor(D, d, last)
    PROVE  OneFor(E, d, last)
  BY DEF SameGrab, OneFor

LEMMA ActivatedKeeps ==
    ASSUME NEW D \in [Devices -> Records], NEW d \in Devices, NEW g \in Grabs,
           NEW auto \in BOOLEAN, NEW last, WellGrabbed(D), OneFor(D, Other(d), last)
    PROVE  WellGrabbed(Activated(D, d, g, auto)) /\ OneAtATime(Activated(D, d, g, auto), last)
<1> DEFINE E == Activated(D, d, g, auto)
           e == Other(d)
<1>1. /\ E[d].grab = g /\ E[d].reports = 0 /\ E[d].state \in {"FrozenNoEvent", "Thawed"}
      /\ E[d].other \in {D[d].other, None} /\ SameGrab(D, E, e)
      /\ E[e].other \in {d, None, D[e].other}
  BY ActivatedFields
<1> HIDE DEF E
<1>2. g # None /\ e \in Devices /\ e # d /\ \A x \in Devices : x = d \/ x = e
  BY NotNone, TwoDevices
<1>3. /\ E[d].state # "NotGrabbed" /\ E[d].grab # None /\ E[d].state # "FrozenWithEvent"
      /\ E[d].other # None => E[d].other = e /\ E[e].grab # None
  <2>1. D[d].other # None => D[d].other = e /\ D[e].grab # None
    <3>1. D[d].other \in Devices \cup {None}
      BY RecordFields
    <3> QED BY <1>2, <3>1 DEF WellGrabbed
  <2> QED BY <1>1, <1>2, <2>1 DEF SameGrab
<1>4. /\ E[e].state = "NotGrabbed" <=> E[e].grab = None
      /\ E[e].other # None => E[e].other = d
      /\ E[e].state = "FrozenWithEvent" => E[e].event \in Events
  <2>1. D[e].other # None => D[e].other = d
    <3>1. D[e].other \in Devices \cup {None}
      BY <1>2, RecordFields
    <3> QED BY <1>2, <3>1 DEF WellGrabbed
  <2> QED BY <1>1, <1>2, <2>1 DEF SameGrab, WellGrabbed
<1>5. WellGrabbed(E)
  BY <1>2, <1>3, <1>4 DEF WellGrabbed
<1>6. OneFor(E, d, last)
  BY <1>1 DEF OneFor
<1>7. OneFor(E, e, last)
  BY <1>1, <1>2, SameGrabSameEvents
<1>8. OneAtATime(E, last)
  BY <1>2, <1>6, <1>7 DEF OneAtATime
<1> QED BY <1>5, <1>8 DEF E

LEMMA DeactivatedKeeps ==
    ASSUME NEW D \in [Devices -> Records], NEW d \in Devices, NEW last,
           WellGrabbed(D), OneFor(D, Other(d), last)
    PROVE  WellGrabbed(Deactivated(D, d)) /\ OneAtATime(Deactivated(D, d), last)
<1> DEFINE E == Deactivated(D, d)
           e == Other(d)
<1>1. /\ E[d].grab = None /\ E[d].state = "NotGrabbed" /\ SameGrab(D, E, e)
      /\ \A x \in Devices : E[x].other # None => E[x].other = D[x].other /\ E[x].other # d
  BY DeactivatedFields
<1> HIDE DEF E
<1>2. e \in Devices /\ e # d /\ \A x \in Devices : x = d \/ x = e
  BY TwoDevices
<1>3. E[d].other # None => E[d].other = e /\ E[e].grab # None
  <2>1. D[d].other \in Devices \cup {None}
    BY RecordFields
  <2> QED BY <1>1, <1>2, <2>1 DEF WellGrabbed, SameGrab
<1>4. E[e].other = None
  <2>1. D[e].other \in Devices \cup {None}
    BY <1>2, RecordFields
  <2> QED BY <1>1, <1>2, <2>1 DEF WellGrabbed
<1>5. /\ E[e].state = "NotGrabbed" <=> E[e].grab = None
      /\ E[e].state = "FrozenWithEvent" => E[e].event \in Events
  BY <1>1, <1>2 DEF WellGrabbed, SameGrab
<1>6. WellGrabbed(E)
  BY <1>1, <1>2, <1>3, <1>4, <1>5 DEF WellGrabbed
<1>7. OneFor(E, d, last) /\ OneFor(E, e, last)
  <2>1. OneFor(E, d, last)
    BY <1>1 DEF OneFor
  <2> QED BY <1>1, <1>2, <2>1, SameGrabSameEvents
<1>8. OneAtATime(E, last)
  BY <1>2, <1>7 DEF OneAtATime
<1> QED BY <1>6, <1>8 DEF E

LEMMA AllowedKeeps ==
    ASSUME NEW D \in [Devices -> Records], NEW E, NEW c, NEW last,
           NEW state \in {"Thawed", "FreezeNextEvent", "FreezeBothNextEvent"},
           Allowed(D, E, c, state), WellGrabbed(D), OneAtATime(D, last)
    PROVE  WellGrabbed(E) /\ OneAtATime(E, last)
<1>1. ASSUME NEW x \in Devices
      PROVE  /\ E[x].state = "NotGrabbed" <=> E[x].grab = None
             /\ E[x].other # None => E[x].other # x /\ E[E[x].other].grab # None
             /\ E[x].state = "FrozenWithEvent" => E[x].event \in Events
  <2>1. D[x].other \in Devices \cup {None}
    BY RecordFields
  <2>2. E[x].other # None => E[x].other # x /\ E[E[x].other].grab # None
    BY <2>1 DEF Allowed, WellGrabbed
  <2> QED BY <2>2 DEF Allowed, WellGrabbed
<1>2. ASSUME NEW x \in Devices
      PROVE  OneFor(E, x, last)
  BY DEF Allowed, OneAtATime, OneFor
<1> QED BY <1>1, <1>2 DEF WellGrabbed, OneAtATime

LEMMA OneMore == \A n \in 0 .. 2 : Min({n + 1, 2}) \in 1 .. 2 /\ (n = 0 => Min({n + 1, 2}) = 1)
<1> SUFFICES ASSUME NEW n \in 0 .. 2
             PROVE  Min({n + 1, 2}) \in 1 .. 2 /\ (n = 0 => Min({n + 1, 2}) = 1)
  OBVIOUS
<1>1. \E x \in {n + 1, 2} : \A y \in {n + 1, 2} : x =< y
  OBVIOUS
<1>2. Min({n + 1, 2}) \in {n + 1, 2} /\ \A y \in {n + 1, 2} : Min({n + 1, 2}) =< y
  BY <1>1 DEF Min
<1> QED BY <1>2

(* An event was reported: a device that was frozen still is.               *)
LEMMA AfterReportKeeps ==
    ASSUME NEW D \in [Devices -> Records], NEW ev \in Events, NEW last, NEW last0,
           WellGrabbed(D), WellFrozen(D), OneAtATime(D, last0),
           D[ev.device].grab # None, ~D[ev.device].frozen, last[ev.device] = ev.id,
           last[Other(ev.device)] = last0[Other(ev.device)]
    PROVE  LET E == AfterReport(D, ev)
           IN /\ E \in [Devices -> Records]
              /\ WellGrabbed(E) /\ WellFrozen(E) /\ OneAtATime(E, last)
              /\ \A x \in Devices : E[x].grab = D[x].grab /\ (D[x].frozen => E[x].frozen)
<1> DEFINE d == ev.device
           e == Other(d)
           E == AfterReport(D, ev)
<1>1. /\ d \in Devices /\ e \in Devices /\ e # d /\ \A x \in Devices : x = d \/ x = e
      /\ D[d] \in Records /\ D[e] \in Records
  <2>1. d \in Devices
    BY DEF Events
  <2> QED BY <2>1, TwoDevices
<1>2. PICK n \in 0 .. 2 : n = Min({D[d].reports + 1, 2})
  BY <1>1, OneMore, RecordFields
<1>3. D[d].reports = 0 => n = 1
  BY <1>1, <1>2, OneMore, RecordFields
<1> DEFINE F == [D EXCEPT ![d] = [D[d] EXCEPT !.reports = n]]
           both == D[d].state = "FreezeBothNextEvent"
           joint == D[e].state = "FreezeBothNextEvent" /\ D[e].grab.client = D[d].grab.client
<1>4. /\ F \in [Devices -> Records] /\ F[e] = D[e] /\ F[d].reports = n
      /\ F[d].grab = D[d].grab /\ F[d].state = D[d].state /\ F[d].other = D[d].other
      /\ F[d].frozen = D[d].frozen /\ F[d].event = D[d].event
  BY <1>1, <1>2 DEF Records
<1>5. /\ D[d].state \notin Frozen /\ D[d].other = None /\ D[d].state # "NotGrabbed"
      /\ OneFor(D, d, last0) /\ OneFor(D, e, last)
  BY <1>1 DEF WellFrozen, WellGrabbed, OneAtATime, OneFor
<1>6. CASE D[d].state \notin {"FreezeNextEvent", "FreezeBothNextEvent"}
  <2>1. E = F
    BY <1>1, <1>2, <1>4, <1>6 DEF AfterReport
  <2> HIDE DEF E, F
  <2>2. WellGrabbed(F) /\ WellFrozen(F)
    <3>1. \A x \in Devices :
            /\ F[x].grab = D[x].grab /\ F[x].state = D[x].state /\ F[x].other = D[x].other
            /\ F[x].frozen = D[x].frozen /\ F[x].event = D[x].event
      BY <1>1, <1>4
    <3>2. \A x \in Devices : D[x].other \in Devices \cup {None}
      BY RecordFields
    <3>3. WellGrabbed(F)
      BY <3>1, <3>2 DEF WellGrabbed
    <3>4. WellFrozen(F)
      BY <3>1 DEF WellFrozen
    <3> QED BY <3>3, <3>4
  <2>3. OneFor(F, d, last) /\ OneFor(F, e, last)
    BY <1>4, <1>5, <1>6 DEF OneFor, Frozen
  <2>4. OneAtATime(F, last)
    BY <1>1, <2>3 DEF OneAtATime
  <2> QED BY <1>1, <1>4, <2>1, <2>2, <2>4 DEF E
<1>7. CASE D[d].state \in {"FreezeNextEvent", "FreezeBothNextEvent"}
  <2>1. PICK s : s = IF both /\ joint THEN "FrozenNoEvent" ELSE D[e].state
    OBVIOUS
  <2>2. PICK o : o = IF both /\ ~joint THEN d ELSE D[e].other
    OBVIOUS
  <2>3. PICK z \in BOOLEAN : z = (D[e].frozen \/ both)
    BY Zenon
  <2>4. PICK t \in BOOLEAN : t = TRUE
    BY Zenon
  <2> DEFINE r == [F[d] EXCEPT !.state = "FrozenWithEvent", !.frozen = t, !.event = ev]
             q == [D[e] EXCEPT !.frozen = z, !.state = s, !.other = o]
  <2>5. E = [F EXCEPT ![d] = r, ![e] = q]
    <3>1. E = [F EXCEPT ![d].state = "FrozenWithEvent", ![d].frozen = TRUE, ![d].event = ev,
                        ![e].frozen = D[e].frozen \/ both,
                        ![e].state = IF both /\ joint THEN "FrozenNoEvent" ELSE D[e].state,
                        ![e].other = IF both /\ ~joint THEN d ELSE D[e].other]
      <4>1. F = [D EXCEPT ![d].reports = Min({D[d].reports + 1, 2})]
        BY <1>1, <1>2
      <4>2. D[d].state = F[d].state /\ D[e] = F[e] /\ D[d].grab = F[d].grab
        BY <1>4
      <4> HIDE DEF F
      <4> QED BY <1>1, <1>4, <1>7, <4>1, <4>2 DEF AfterReport
    <3>2. E = [F EXCEPT ![d].state = "FrozenWithEvent", ![d].frozen = t, ![d].event = ev,
                        ![e].frozen = z, ![e].state = s, ![e].other = o]
      BY <2>1, <2>2, <2>3, <2>4, <3>1, Zenon
    <3> HIDE DEF E, F
    <3> QED BY <1>1, <1>4, <3>2
  <2>6. /\ r \in Records /\ r.state = "FrozenWithEvent" /\ r.event = ev /\ r.other = None
        /\ r.frozen = t /\ r.grab = D[d].grab /\ r.reports = n
    <3>1. "FrozenWithEvent" \in SyncStates /\ ev \in Events \cup {None} /\ F[d] \in Records
      BY <1>1, <1>4 DEF SyncStates, Frozen
    <3> QED BY <1>4, <1>5, <2>4, <3>1 DEF Records
  <2>7. /\ q \in Records /\ q.state = s /\ q.other = o /\ q.frozen = z
        /\ q.grab = D[e].grab /\ q.event = D[e].event /\ q.reports = D[e].reports
    <3>1. s \in SyncStates /\ o \in Devices \cup {None}
      BY <1>1, <2>1, <2>2, RecordFields DEF SyncStates, Frozen
    <3> QED BY <1>1, <2>3, <3>1 DEF Records
  <2> HIDE DEF E, F, r, q
  <2>8. E \in [Devices -> Records] /\ E[d] = r /\ E[e] = q
    BY <1>1, <1>4, <2>5, <2>6, <2>7
  <2>9. E[d].frozen /\ (D[e].frozen => E[e].frozen)
    <3>1. r.frozen
      BY <2>4, <2>6
    <3>2. D[e].frozen => q.frozen
      BY <2>3, <2>7
    <3> QED BY <2>8, <3>1, <3>2, Zenon
  <2>10. E[e].frozen <=> E[e].state \in Frozen \/ E[e].other # None
    <3>1. D[e].frozen <=> D[e].state \in Frozen \/ D[e].other # None
      BY <1>1 DEF WellFrozen
    <3>2. d # None
      BY <1>1, TwoDevices
    <3>3. z <=> s \in Frozen \/ o # None
      <4>1. CASE both
        BY <2>1, <2>2, <2>3, <3>2, <4>1 DEF Frozen
      <4>2. CASE ~both
        BY <2>1, <2>2, <2>3, <3>1, <4>2
      <4> QED BY <4>1, <4>2
    <3> QED BY <2>7, <2>8, <3>3
  <2>11. WellFrozen(E)
    BY <1>1, <2>6, <2>8, <2>9, <2>10 DEF WellFrozen, Frozen
  <2>12. WellGrabbed(E)
    <3>1. /\ E[d].state # "NotGrabbed" /\ E[d].grab # None /\ E[d].other = None
          /\ E[d].event \in Events
      BY <2>6, <2>8
    <3>2. /\ E[e].state = "NotGrabbed" <=> E[e].grab = None
          /\ E[e].other # None => E[e].other = d
          /\ E[e].state = "FrozenWithEvent" => E[e].event \in Events
      <4>1. /\ D[e].state = "NotGrabbed" <=> D[e].grab = None
            /\ D[e].other # None => D[e].other = d
            /\ D[e].state = "FrozenWithEvent" => D[e].event \in Events
        <5>1. D[e].other \in Devices \cup {None}
          BY <1>1, RecordFields
        <5> QED BY <1>1, <5>1 DEF WellGrabbed
      <4> QED BY <2>1, <2>2, <2>7, <2>8, <4>1
    <3> QED BY <1>1, <3>1, <3>2 DEF WellGrabbed
  <2>13. OneFor(E, d, last)
    <3>1. D[d].reports = 0
      BY <1>5, <1>7 DEF OneFor
    <3> QED BY <1>1, <1>3, <2>6, <2>8, <3>1 DEF OneFor
  <2>14. OneFor(E, e, last)
    BY <1>5, <2>1, <2>7, <2>8 DEF OneFor
  <2>15. OneAtATime(E, last)
    BY <1>1, <2>13, <2>14 DEF OneAtATime
  <2>16. \A x \in Devices : E[x].grab = D[x].grab /\ (D[x].frozen => E[x].frozen)
    BY <1>1, <2>6, <2>7, <2>8, <2>9
  <2> QED BY <2>8, <2>11, <2>12, <2>15, <2>16 DEF E
<1> QED BY <1>6, <1>7

---------------------------------------------------------------------------
(* Processing an event, in a call that returns to rest.                    *)

PlayFrame == [call |-> "play"]

(* A grab is one there was already, or of a window that exists and a       *)
(* client that is there or has a passive grab.                             *)
Grabbing(D) ==
    \A x \in Devices : D[x].grab # None /\ D[x].grab # dev[x].grab =>
        /\ D[x].grab.window <= top
        /\ D[x].grab.client \notin gone \/ \E p \in passive : p.grab.client = D[x].grab.client

(* What has become of the devices and of what is held back.                *)
Changed(rest) ==
    /\ dev' \in [Devices -> Records] /\ WellGrabbed(dev') /\ WellFrozen(dev') /\ Grabbing(dev')
    /\ \/ stack' = rest
       \/ ~Plays(rest) /\ stack' = <<PlayFrame>> \o rest
    /\ Plays(stack') \/ pending = <<>> \/ \A x \in Devices : dev[x].frozen => dev'[x].frozen

LEMMA Frame1 ==
    ASSUME NEW f, NEW S, NEW s \in Seq(S)
    PROVE  /\ (<<f>> \o s)[1] = f /\ Len(<<f>> \o s) = Len(s) + 1
           /\ DOMAIN (<<f>> \o s) = 1 .. Len(s) + 1 /\ DOMAIN s = 1 .. Len(s)
           /\ \A i \in DOMAIN s : (<<f>> \o s)[i + 1] = s[i]
           /\ Tail(<<f>> \o s) = s /\ Head(<<f>> \o s) = f /\ <<f>> \o s # <<>>
OBVIOUS

Push(x, s) == <<x>> \o s

LEMMA TwoFrames ==
    ASSUME NEW S, NEW x \in S, NEW y \in S, NEW t, t = Push(x, <<y>>)
    PROVE  /\ t \in Seq(S) /\ DOMAIN t = 1 .. 2 /\ t[1] = x /\ t[2] = y
           /\ Head(t) = x /\ Tail(t) = <<y>>
<1>1. t \in Seq(S) /\ Len(t) = 2
  BY DEF Push
<1>2. DOMAIN t = 1 .. 2 /\ t[1] = x /\ t[2] = y
  BY DEF Push
<1>3. Head(t) = x
  BY DEF Push
<1>4. Tail(t) = <<y>>
  <2>1. \A r \in Seq(S) : Tail(<<x>> \o r) = r
    OBVIOUS
  <2>2. <<y>> \in Seq(S)
    OBVIOUS
  <2> QED BY <2>1, <2>2 DEF Push
<1> QED BY <1>1, <1>2, <1>3, <1>4

LEMMA ComputeFreezesKeeps ==
    ASSUME NEW D \in [Devices -> Records], NEW rest \in Seq(Frames), NEW last,
           WellGrabbed(D), OneAtATime(D, last), Grabbing(D), ComputeFreezes(D, <<>>, rest)
    PROVE  Changed(rest) /\ OneAtATime(dev', last)
<1>1. dev' = Refrozen(D)
  BY DEF ComputeFreezes
<1>2. /\ dev' \in [Devices -> Records]
      /\ \A x \in Devices : 
           /\ SameGrab(D, dev', x) /\ dev'[x].other = D[x].other
           /\ dev'[x].frozen <=> D[x].state \in Frozen \/ D[x].other # None
  BY <1>1, RefrozenFields
<1>3. \A x \in Devices : D[x].other \in Devices \cup {None}
  BY RecordFields
<1>4. WellGrabbed(dev')
  BY <1>2, <1>3 DEF WellGrabbed, SameGrab
<1>5. WellFrozen(dev')
  BY <1>2 DEF WellFrozen, SameGrab
<1>6. Grabbing(dev')
  BY <1>2 DEF Grabbing, SameGrab
<1>7. OneAtATime(dev', last)
  BY <1>2, SameGrabSameEvents DEF OneAtATime
<1>8. \/ stack' = rest
      \/ ~Plays(rest) /\ stack' = <<PlayFrame>> \o rest
  BY DEF ComputeFreezes, Plays, PlayFrame
<1>9. Plays(stack') \/ pending = <<>>
  <2>1. CASE stack' = rest
    BY <2>1, Frame1 DEF ComputeFreezes, Plays
  <2>2. CASE stack' = <<PlayFrame>> \o rest
    <3>1. 1 \in DOMAIN stack' /\ stack'[1] = PlayFrame
      BY <2>2, Frame1
    <3> QED BY <3>1 DEF Plays, PlayFrame
  <2> QED BY <1>8, <2>1, <2>2
<1> QED BY <1>2, <1>4, <1>5, <1>6, <1>7, <1>8, <1>9 DEF Changed

LEMMA SameChanged ==
    ASSUME NEW rest, TypeOK, WellGrabbed(dev), WellFrozen(dev), dev' = dev, stack' = rest
    PROVE  Changed(rest)
<1>1. dev' \in [Devices -> Records]
  BY DEF TypeOK, Records
<1>2. WellGrabbed(dev') /\ WellFrozen(dev')
  BY DEF WellGrabbed, WellFrozen
<1> QED BY <1>1, <1>2 DEF Changed, Grabbing

LEMMA StartPassiveGrabKeeps ==
    ASSUME TypeOK, NEW ev \in Events, NEW first, NEW keyPressed \in BOOLEAN,
           NEW rest \in Seq(Frames), NEW last,
           WellGrabbed(dev), OneAtATime(dev, last), last[ev.device] = ev.id,
           StartPassiveGrab(ev, first, keyPressed, rest)
    PROVE  Changed(rest) /\ OneAtATime(dev', last)
<1> DEFINE d == ev.device
           e == Other(d)
<1>1. /\ dev \in [Devices -> Records] /\ d \in Devices /\ e \in Devices /\ e # d
      /\ \A x \in Devices : x = d \/ x = e
  <2>1. d \in Devices
    BY DEF Events
  <2> QED BY <2>1, TwoDevices DEF TypeOK, Records
<1> DEFINE A(p) == Activated(dev, d, p.grab, TRUE)
           D(p) == [A(p) EXCEPT ![d].reports = 1, ![d].activating = @ \/ keyPressed]
           E(p) == [D(p) EXCEPT ![d].state = "FrozenWithEvent", ![d].event = ev]
<1>2. PICK p \in Matching(ev, first) :
        ComputeFreezes(IF D(p)[d].state = "FrozenNoEvent" THEN E(p) ELSE D(p), <<>>, rest)
  BY DEF StartPassiveGrab
<1> DEFINE g == p.grab
           a == Activated(dev, d, g, TRUE)
<1>3. g \in Grabs /\ p \in passive /\ g.window <= top
  BY <1>2, DeviceGrabsAssumption DEF Matching, TypeOK
<1>4. /\ a \in [Devices -> Records] /\ WellGrabbed(a) /\ OneAtATime(a, last)
      /\ a[d].grab = g /\ a[d].reports = 0 /\ a[d].state \in {"FrozenNoEvent", "Thawed"}
      /\ SameGrab(dev, a, e)
  <2>1. PICK t \in BOOLEAN : t = TRUE
    BY Zenon
  <2>2. a = Activated(dev, d, g, t)
    BY <2>1, Zenon
  <2>3. OneFor(dev, e, last)
    BY <1>1 DEF OneAtATime
  <2> HIDE DEF a
  <2> QED BY <1>1, <1>3, <2>2, <2>3, ActivatedFields, ActivatedKeeps
<1>5. PICK n \in 0 .. 2 : n = 1
  OBVIOUS
<1>k. PICK k \in BOOLEAN : k = (a[d].activating \/ keyPressed)
  BY Zenon
<1>6. PICK s : s = IF a[d].state = "FrozenNoEvent" THEN "FrozenWithEvent" ELSE a[d].state
  OBVIOUS
<1>7. PICK v : v = IF a[d].state = "FrozenNoEvent" THEN ev ELSE a[d].event
  OBVIOUS
<1> DEFINE q == [a[d] EXCEPT !.reports = n, !.activating = k]
           r == [q EXCEPT !.state = s, !.event = v]
           F == [a EXCEPT ![d] = r]
<1>8. ComputeFreezes(F, <<>>, rest)
  <2> HIDE DEF a
  <2>1. D(p) = [a EXCEPT ![d] = q] /\ D(p)[d].state = a[d].state
    <3> DEFINE b == [a EXCEPT ![d] = [a[d] EXCEPT !.reports = n]]
    <3>1. D(p) = [b EXCEPT ![d] = [b[d] EXCEPT !.activating = b[d].activating \/ keyPressed]]
      BY <1>5 DEF a
    <3>2. b[d] = [a[d] EXCEPT !.reports = n]
      BY <1>1, <1>4
    <3>3. b[d].activating = a[d].activating
      BY <1>1, <1>4, <3>2 DEF Records
    <3>4. D(p) = [b EXCEPT ![d] = [b[d] EXCEPT !.activating = k]]
      BY <1>k, <3>1, <3>3, Zenon
    <3>5. [b[d] EXCEPT !.activating = k] = q
      BY <3>2
    <3>6. D(p) = [a EXCEPT ![d] = q]
      BY <3>4, <3>5
    <3>7. q.state = a[d].state
      BY <1>1, <1>4 DEF Records
    <3> HIDE DEF D, q
    <3> QED BY <1>1, <1>4, <3>6, <3>7
  <2>2. CASE a[d].state = "FrozenNoEvent"
    <3>1. E(p) = F
      BY <1>1, <1>4, <1>6, <1>7, <2>1, <2>2
    <3> HIDE DEF E, F, D
    <3> QED BY <1>2, <2>1, <2>2, <3>1
  <2>3. CASE a[d].state # "FrozenNoEvent"
    <3>1. a[d] \in Records
      BY <1>1, <1>4
    <3>2. r = q
      BY <1>6, <1>7, <2>3, <3>1 DEF Records
    <3>3. D(p) = F
      BY <2>1, <3>2
    <3> HIDE DEF E, F, D
    <3> QED BY <1>2, <2>1, <2>3, <3>3
  <2> QED BY <2>2, <2>3
<1> HIDE DEF a
<1>9. /\ r \in Records /\ r.grab = g /\ r.state = s /\ r.event = v /\ r.reports = n
      /\ r.other = a[d].other
  <2>1. a[d] \in Records
    BY <1>1, <1>4
  <2>2. s \in SyncStates /\ v \in Events \cup {None}
    BY <1>6, <1>7, <2>1, RecordFields DEF SyncStates, Frozen
  <2>3. /\ q \in Records /\ q.grab = g /\ q.reports = n /\ q.other = a[d].other
    BY <1>4, <2>1 DEF Records
  <2> HIDE DEF q
  <2> QED BY <2>2, <2>3 DEF Records
<1> HIDE DEF r
<1>10. F \in [Devices -> Records] /\ F[d] = r /\ F[e] = a[e]
  BY <1>1, <1>4, <1>9
<1> HIDE DEF F
<1>11. WellGrabbed(F)
  <2>1. \A x \in Devices : F[x].grab = a[x].grab /\ F[x].other = a[x].other
    BY <1>1, <1>4, <1>9, <1>10
  <2>2. \A x \in Devices : a[x].other \in Devices \cup {None}
    BY <1>4, RecordFields
  <2>3. g # None
    BY <1>3, NotNone
  <2>4. s # "NotGrabbed" /\ (s = "FrozenWithEvent" => v \in Events)
    BY <1>4, <1>6, <1>7
  <2> QED BY <1>1, <1>4, <1>9, <1>10, <2>1, <2>2, <2>3, <2>4 DEF WellGrabbed
<1>12. OneAtATime(F, last)
  <2>1. OneFor(F, d, last)
    BY <1>4, <1>5, <1>6, <1>7, <1>9, <1>10 DEF OneFor
  <2>2. OneFor(F, e, last)
    BY <1>1, <1>4, <1>10 DEF OneFor, OneAtATime
  <2> QED BY <1>1, <2>1, <2>2 DEF OneAtATime
<1>13. Grabbing(F)
  BY <1>1, <1>3, <1>4, <1>9, <1>10 DEF Grabbing, SameGrab
<1> QED BY <1>8, <1>10, <1>11, <1>12, <1>13, ComputeFreezesKeeps

(* A press that is delivered to whoever selected it grabs the pointer.     *)
LEMMA DeliverUngrabbedKeeps ==
    ASSUME TypeOK, NEW ev \in Events, NEW rest \in Seq(Frames), NEW last,
           WellGrabbed(dev), WellFrozen(dev), OneAtATime(dev, last), DeliverUngrabbed(ev, rest)
    PROVE  Changed(rest) /\ OneAtATime(dev', last)
<1>1. PICK receiver \in (Clients \ gone) \cup {None} :
        IF ev.device = Pointer /\ ev.kind = "Press" /\ receiver # None
        THEN \E w \in 1 .. top :
                ComputeFreezes(
                    Activated(dev, Pointer,
                              [client |-> receiver, window |-> w,
                               this |-> "Async", other |-> "Async"], TRUE),
                    <<>>, rest)
        ELSE dev' = dev /\ stack' = rest
  BY DEF DeliverUngrabbed
<1>2. CASE ev.device = Pointer /\ ev.kind = "Press" /\ receiver # None
  <2>1. PICK w \in 1 .. top :
          ComputeFreezes(
              Activated(dev, Pointer,
                        [client |-> receiver, window |-> w,
                         this |-> "Async", other |-> "Async"], TRUE),
              <<>>, rest)
    BY <1>1, <1>2
  <2> DEFINE g == [client |-> receiver, window |-> w, this |-> "Async", other |-> "Async"]
             a == Activated(dev, Pointer, g, TRUE)
             e == Other(Pointer)
  <2>2. PICK t \in BOOLEAN : t = TRUE
    BY Zenon
  <2>3. a = Activated(dev, Pointer, g, t)
    BY <2>2, Zenon
  <2>4. receiver \in Clients /\ receiver \notin gone /\ w \in Windows /\ w <= top
    BY <1>2, DeviceGrabsAssumption DEF TypeOK, Windows
  <2>5. g \in Grabs /\ g.client = receiver /\ g.window = w
    BY <2>4 DEF Grabs, Modes
  <2>6. /\ dev \in [Devices -> Records] /\ Pointer \in Devices /\ e \in Devices
        /\ \A x \in Devices : x = Pointer \/ x = e
    BY TwoDevices DEF TypeOK, Records
  <2>7. OneFor(dev, e, last)
    BY <2>6 DEF OneAtATime
  <2>8. ComputeFreezes(a, <<>>, rest)
    BY <2>1
  <2> HIDE DEF a, g
  <2>9. /\ a \in [Devices -> Records] /\ WellGrabbed(a) /\ OneAtATime(a, last)
        /\ a[Pointer].grab = g /\ SameGrab(dev, a, e)
    BY <2>3, <2>5, <2>6, <2>7, ActivatedFields, ActivatedKeeps
  <2>10. Grabbing(a)
    BY <2>4, <2>5, <2>6, <2>9 DEF Grabbing, SameGrab
  <2> QED BY <2>8, <2>9, <2>10, ComputeFreezesKeeps
<1>3. CASE ~(ev.device = Pointer /\ ev.kind = "Press" /\ receiver # None)
  <2>1. dev' = dev /\ stack' = rest
    BY <1>1, <1>3
  <2>2. Changed(rest)
    BY <2>1, SameChanged
  <2>3. OneAtATime(dev', last)
    BY <2>1 DEF OneAtATime, OneFor
  <2> QED BY <2>2, <2>3
<1> QED BY <1>2, <1>3

(* A grab is given up.                                                     *)
LEMMA DeactivateKeeps ==
    ASSUME TypeOK, NEW d \in Devices, NEW rest \in Seq(Frames), NEW last,
           WellGrabbed(dev), OneFor(dev, Other(d), last),
           ComputeFreezes(Deactivated(dev, d), <<>>, rest)
    PROVE  /\ Changed(rest) /\ OneAtATime(dev', last) /\ dev'[d].grab = None
           /\ \A x \in Devices : dev'[x].grab = dev[x].grab \/ dev'[x].grab = None
<1> DEFINE D == Deactivated(dev, d)
<1>1. dev \in [Devices -> Records]
  BY DEF TypeOK, Records
<1>2. /\ D \in [Devices -> Records] /\ WellGrabbed(D) /\ OneAtATime(D, last)
      /\ D[d].grab = None /\ SameGrab(dev, D, Other(d))
  BY <1>1, DeactivatedFields, DeactivatedKeeps
<1>3. dev' = Refrozen(D)
  BY DEF ComputeFreezes
<1> HIDE DEF D
<1>4. \A x \in Devices : D[x].grab = dev[x].grab \/ D[x].grab = None
  BY <1>2, TwoDevices DEF SameGrab
<1>5. Grabbing(D)
  BY <1>4 DEF Grabbing
<1>6. Changed(rest) /\ OneAtATime(dev', last)
  BY <1>2, <1>5, ComputeFreezesKeeps DEF D
<1>7. \A x \in Devices : dev'[x].grab = D[x].grab
  BY <1>2, <1>3, RefrozenFields DEF SameGrab
<1> QED BY <1>2, <1>4, <1>6, <1>7

LEMMA DeliverGrabbedKeeps ==
    ASSUME TypeOK, NEW ev \in Events, NEW rest \in Seq(Frames), NEW last,
           WellGrabbed(dev), WellFrozen(dev), OneAtATime(dev, last), last[ev.device] = ev.id,
           dev[ev.device].grab # None, ~dev[ev.device].frozen, DeliverGrabbed(ev, rest)
    PROVE  Changed(rest) /\ OneAtATime(dev', last)
<1> DEFINE d == ev.device
<1>1. dev \in [Devices -> Records] /\ d \in Devices /\ Other(d) \in Devices
  <2>1. d \in Devices
    BY DEF Events
  <2> QED BY <2>1, TwoDevices DEF TypeOK, Records
<1>2. \/ ComputeFreezes(Deactivated(dev, d), <<>>, rest)
      \/ stack' = rest /\ dev' = AfterReport(dev, ev)
      \/ stack' = rest /\ dev' = dev
  BY DEF DeliverGrabbed
<1>3. CASE ComputeFreezes(Deactivated(dev, d), <<>>, rest)
  <2>1. OneFor(dev, Other(d), last)
    BY <1>1 DEF OneAtATime
  <2> QED BY <1>1, <1>3, <2>1, DeactivateKeeps
<1>4. CASE stack' = rest /\ dev' = AfterReport(dev, ev)
  <2>1. /\ dev' \in [Devices -> Records]
        /\ WellGrabbed(dev') /\ WellFrozen(dev') /\ OneAtATime(dev', last)
        /\ \A x \in Devices : dev'[x].grab = dev[x].grab /\ (dev[x].frozen => dev'[x].frozen)
    BY <1>1, <1>4, AfterReportKeeps
  <2>2. Grabbing(dev')
    BY <2>1 DEF Grabbing
  <2> QED BY <1>4, <2>1, <2>2 DEF Changed
<1>5. CASE stack' = rest /\ dev' = dev
  <2>1. Changed(rest)
    BY <1>5, SameChanged
  <2>2. OneAtATime(dev', last)
    BY <1>5 DEF OneAtATime, OneFor
  <2> QED BY <2>1, <2>2
<1> QED BY <1>2, <1>3, <1>4, <1>5

GiveFrame(ev) == [call |-> "give", event |-> ev]

RepeatFrames(ev) == <<GiveFrame([ev EXCEPT !.kind = "Release"]), GiveFrame(ev)>>

(* The key or button of the event is then known to be down or up.          *)
Known(ev) ==
    /\ \A x \in Devices : x # ev.device => down'[x] = down[x]
    /\ ev.kind = "Press" => down'[ev.device]
    /\ ev.kind = "Release" => ~down'[ev.device]
    /\ ev.kind = "Motion" => down'[ev.device] = down[ev.device]

LEMMA ProcessEventKeeps ==
    ASSUME TypeOK, DevInv, NEW ev \in Events, NEW rest \in Seq(Frames),
           ~dev[ev.device].frozen, ProcessEvent(ev, rest)
    PROVE  /\ OneAtATime(dev', seen') /\ seen' \in [Devices -> Ids] /\ down' \in [Devices -> BOOLEAN]
           /\ \/ /\ Repeated(ev) /\ stack' = RepeatFrames(ev) \o rest
                 /\ dev' = dev /\ down' = down /\ seen' = seen
              \/ /\ ~Repeated(ev) /\ Changed(rest)
                 /\ seen' = [seen EXCEPT ![ev.device] = ev.id] /\ Known(ev)
<1> DEFINE d == ev.device
<1>1. d \in Devices /\ ev.id \in Ids /\ ev.kind \in Kinds /\ dev \in [Devices -> Records]
  BY DEF Events, TypeOK, Records
<1>2. seen \in [Devices -> Ids] /\ down \in [Devices -> BOOLEAN]
  BY DEF TypeOK
<1>3. CASE Repeated(ev)
  <2>1. stack' = RepeatFrames(ev) \o rest /\ dev' = dev /\ down' = down /\ seen' = seen
    BY <1>3 DEF ProcessEvent, RepeatFrames, GiveFrame
  <2>2. OneAtATime(dev', seen')
    BY <2>1 DEF DevInv, OneAtATime, OneFor
  <2> QED BY <1>2, <1>3, <2>1, <2>2
<1>4. CASE ~Repeated(ev)
  <2>1. seen' = [seen EXCEPT ![d] = ev.id]
    BY <1>4 DEF ProcessEvent
  <2>2. /\ ev.kind = "Press" => down' = [down EXCEPT ![d] = TRUE]
        /\ ev.kind = "Release" => down' = [down EXCEPT ![d] = FALSE]
        /\ ev.kind = "Motion" => down' = down
    BY <1>4 DEF ProcessEvent
  <2>3. Known(ev) /\ down' \in [Devices -> BOOLEAN]
    BY <1>1, <1>2, <2>2 DEF Known, Kinds
  <2>4. /\ seen' \in [Devices -> Ids] /\ seen'[d] = ev.id
        /\ \A x \in Devices : x # d => seen'[x] = seen[x]
    BY <1>1, <1>2, <2>1
  <2>5. OneAtATime(dev, seen')
    <3>1. dev[d].state \notin Frozen
      BY <1>1 DEF DevInv, WellFrozen
    <3>2. OneFor(dev, d, seen')
      BY <1>1, <3>1 DEF DevInv, OneAtATime, OneFor, Frozen
    <3>3. ASSUME NEW x \in Devices, x # d
          PROVE  OneFor(dev, x, seen')
      BY <2>4, <3>3 DEF DevInv, OneAtATime, OneFor
    <3> QED BY <3>2, <3>3 DEF OneAtATime
  <2>6. \/ dev' = dev /\ stack' = rest
        \/ dev[d].grab # None /\ DeliverGrabbed(ev, rest)
        \/ StartPassiveGrab(ev, 1, d = Keyboard, rest)
        \/ DeliverUngrabbed(ev, rest)
    BY <1>4 DEF ProcessEvent
  <2>7. Changed(rest) /\ OneAtATime(dev', seen')
    <3>1. CASE dev' = dev /\ stack' = rest
      <4>1. Changed(rest)
        BY <3>1, SameChanged DEF DevInv
      <4>2. OneAtATime(dev', seen')
        BY <2>5, <3>1 DEF OneAtATime, OneFor
      <4> QED BY <4>1, <4>2
    <3>2. CASE dev[d].grab # None /\ DeliverGrabbed(ev, rest)
      BY <2>4, <2>5, <3>2, DeliverGrabbedKeeps DEF DevInv
    <3>3. CASE StartPassiveGrab(ev, 1, d = Keyboard, rest)
      <4>1. (d = Keyboard) \in BOOLEAN
        OBVIOUS
      <4> QED BY <2>4, <2>5, <3>3, <4>1, StartPassiveGrabKeeps DEF DevInv
    <3>4. CASE DeliverUngrabbed(ev, rest)
      BY <2>5, <3>4, DeliverUngrabbedKeeps DEF DevInv
    <3> QED BY <2>6, <3>1, <3>2, <3>3, <3>4
  <2> QED BY <1>4, <2>1, <2>3, <2>4, <2>7
<1> QED BY <1>3, <1>4

---------------------------------------------------------------------------
(* What pushing a frame and returning do to what is known of a stack.      *)

LEMMA FrameKinds ==
    ASSUME NEW f \in Frames
    PROVE  /\ f.call \in {"play", "replay", "give", "release", "free", "window"}
           /\ f.call = "replay" => f.event \in Events /\ f.window \in Windows
           /\ f.call = "give" => f.event \in Events
           /\ f.call \in {"release", "free"} => f.client \in Clients
           /\ f.call = "window" => f.left \in Seq(Devices \cup {None})
  BY DEF Frames

LEMMA TailOf ==
    ASSUME NEW S, NEW s \in Seq(S), s # <<>>
    PROVE  /\ Head(s) = s[1] /\ 1 \in DOMAIN s /\ Head(s) \in S
           /\ Tail(s) \in Seq(S) /\ Len(Tail(s)) = Len(s) - 1
           /\ DOMAIN s = 1 .. Len(s) /\ DOMAIN Tail(s) = 1 .. Len(s) - 1
           /\ \A i \in DOMAIN Tail(s) : i + 1 \in DOMAIN s /\ Tail(s)[i] = s[i + 1]
OBVIOUS

LEMMA NestedTail ==
    ASSUME NEW s \in Seq(Frames), s # <<>>, Nested(s)
    PROVE  Nested(Tail(s)) /\ (Head(s).call = "play" => ~Plays(Tail(s)))
<1> DEFINE t == Tail(s)
<1>1. /\ DOMAIN s = 1 .. Len(s) /\ DOMAIN t = 1 .. Len(s) - 1 /\ Len(s) \in Nat
      /\ \A i \in DOMAIN t : i + 1 \in DOMAIN s /\ t[i] = s[i + 1]
      /\ Head(s) = s[1] /\ 1 \in DOMAIN s
  BY TailOf
<1> HIDE DEF t
<1>2. ASSUME NEW i \in DOMAIN t
      PROVE  /\ t[i].call = "play" => \A j \in DOMAIN t : t[j].call = "play" => j = i
             /\ t[i].call = "give" => t[i].event.device = Keyboard
             /\ t[i].call = "give" /\ t[i].event.kind # "Press" =>
                   i + 1 \in DOMAIN t /\ t[i + 1].call = "give" /\ t[i + 1].event.kind = "Press"
             /\ t[i].call = "window" => t[i].left \in Lefts
  <2>1. i + 1 \in DOMAIN s /\ t[i] = s[i + 1] /\ i \in Nat
    BY <1>1
  <2>2. ASSUME t[i].call = "play", NEW j \in DOMAIN t, t[j].call = "play"
        PROVE  j = i
    <3>1. j + 1 \in DOMAIN s /\ s[j + 1].call = "play" /\ j \in Nat
      BY <1>1, <2>2
    <3> QED BY <2>1, <2>2, <3>1 DEF Nested
  <2>3. ASSUME t[i].call = "give", t[i].event.kind # "Press"
        PROVE  i + 1 \in DOMAIN t /\ t[i + 1].call = "give" /\ t[i + 1].event.kind = "Press"
    <3>1. i + 2 \in DOMAIN s /\ s[i + 2].call = "give" /\ s[i + 2].event.kind = "Press"
      BY <2>1, <2>3 DEF Nested
    <3> QED BY <1>1, <2>1, <3>1
  <2> QED BY <2>1, <2>2, <2>3 DEF Nested
<1>3. ASSUME Head(s).call = "play", NEW i \in DOMAIN t, t[i].call = "play"
      PROVE  FALSE
  BY <1>1, <1>3 DEF Nested
<1> QED BY <1>2, <1>3 DEF Nested, Plays, t

LEMMA NestedPush ==
    ASSUME NEW s \in Seq(Frames), NEW f, Nested(s),
           f.call = "play" => ~Plays(s),
           f.call = "give" => f.event.device = Keyboard,
           f.call = "give" /\ f.event.kind # "Press" =>
              s # <<>> /\ Head(s).call = "give" /\ Head(s).event.kind = "Press",
           f.call = "window" => f.left \in Lefts
    PROVE  Nested(<<f>> \o s)
<1> DEFINE t == <<f>> \o s
<1>1. /\ DOMAIN s = 1 .. Len(s) /\ DOMAIN t = 1 .. Len(s) + 1 /\ Len(s) \in Nat /\ t[1] = f
      /\ \A i \in DOMAIN s : t[i + 1] = s[i]
  BY Frame1
<1>2. s # <<>> => 1 \in DOMAIN s /\ Head(s) = s[1]
  BY TailOf
<1> HIDE DEF t
<1>3. \A i \in DOMAIN t : i # 1 => i - 1 \in DOMAIN s /\ t[i] = s[i - 1]
  <2> TAKE i \in DOMAIN t
  <2> HAVE i # 1
  <2>1. i - 1 \in DOMAIN s
    BY <1>1
  <2>2. t[(i - 1) + 1] = s[i - 1] /\ (i - 1) + 1 = i
    BY <1>1, <2>1
  <2> QED BY <2>1, <2>2
<1>4. ASSUME NEW i \in DOMAIN t
      PROVE  /\ t[i].call = "play" => \A j \in DOMAIN t : t[j].call = "play" => j = i
             /\ t[i].call = "give" => t[i].event.device = Keyboard
             /\ t[i].call = "window" => t[i].left \in Lefts
  <2>1. ASSUME t[i].call = "play", NEW j \in DOMAIN t, t[j].call = "play"
        PROVE  j = i
    <3>1. CASE i = 1
      BY <1>1, <1>3, <2>1, <3>1 DEF Plays
    <3>2. CASE j = 1
      BY <1>1, <1>3, <2>1, <3>2 DEF Plays
    <3>3. CASE i # 1 /\ j # 1
      <4>1. i - 1 = j - 1
        BY <1>3, <2>1, <3>3 DEF Nested
      <4> QED BY <1>1, <4>1
    <3> QED BY <3>1, <3>2, <3>3
  <2>2. CASE i = 1
    BY <1>1, <2>1, <2>2
  <2>3. CASE i # 1
    BY <1>3, <2>1, <2>3 DEF Nested
  <2> QED BY <2>2, <2>3
<1>5. ASSUME NEW i \in DOMAIN t, t[i].call = "give", t[i].event.kind # "Press"
      PROVE  i + 1 \in DOMAIN t /\ t[i + 1].call = "give" /\ t[i + 1].event.kind = "Press"
  <2>1. CASE i = 1
    BY <1>1, <1>2, <1>5, <2>1
  <2>2. CASE i # 1
    <3>1. i - 1 \in DOMAIN s /\ s[i - 1].call = "give" /\ s[i - 1].event.kind # "Press"
      BY <1>3, <1>5, <2>2
    <3>2. (i - 1) + 1 \in DOMAIN s /\ s[(i - 1) + 1].call = "give"
          /\ s[(i - 1) + 1].event.kind = "Press"
      BY <3>1 DEF Nested
    <3>3. (i - 1) + 1 = i
      BY <1>1
    <3> QED BY <1>1, <3>2, <3>3
  <2> QED BY <2>1, <2>2
<1> QED BY <1>4, <1>5 DEF Nested, t

LEMMA ReturnedTail ==
    ASSUME NEW s \in Seq(Frames), s # <<>>, Returned(s)
    PROVE  Returned(Tail(s))
  BY TailOf DEF Returned

LEMMA ReturnedWhole ==
    ASSUME NEW s \in Seq(Frames), s # <<>>, Returned(Tail(s)), Head(s).call # "replay",
           Head(s).call = "free" => Head(s).client = LeafOwner
    PROVE  Returned(s)
<1>1. /\ DOMAIN s = 1 .. Len(s) /\ DOMAIN Tail(s) = 1 .. Len(s) - 1 /\ Len(s) \in Nat
      /\ \A i \in DOMAIN Tail(s) : Tail(s)[i] = s[i + 1]
      /\ Head(s) = s[1]
  BY TailOf
<1>2. ASSUME NEW i \in DOMAIN s
      PROVE  s[i].call # "replay" /\ (s[i].call = "free" => s[i].client = LeafOwner)
  <2>1. CASE i = 1
    BY <1>1, <2>1
  <2>2. CASE i # 1
    <3>1. i - 1 \in DOMAIN Tail(s) /\ (i - 1) + 1 = i
      BY <1>1, <2>2
    <3>2. Tail(s)[i - 1] = s[i]
      BY <1>1, <3>1
    <3> QED BY <3>1, <3>2 DEF Returned
  <2> QED BY <2>1, <2>2
<1> QED BY <1>2 DEF Returned

(* What of the stack a call of this kind leaves to those below it.         *)
LEMMA TailKeeps ==
    ASSUME NEW s \in Seq(Frames), s # <<>>
    PROVE  /\ Head(s).call # "play" => (Plays(s) <=> Plays(Tail(s)))
           /\ Head(s).call # "give" => (Gives(s) <=> Gives(Tail(s)))
           /\ \A d : Head(s).call # "window" => (Leaves(s, d) <=> Leaves(Tail(s), d))
<1>1. PICK t : t = Tail(s)
  OBVIOUS
<1>2. PICK f : f = Head(s)
  OBVIOUS
<1>3. \A i \in DOMAIN t : \E j \in DOMAIN s : s[j] = t[i]
  <2>1. \A i \in DOMAIN t : i + 1 \in DOMAIN s /\ t[i] = s[i + 1]
    BY <1>1, TailOf
  <2> QED BY <2>1
<1>4. \A i \in DOMAIN s : s[i] = f \/ \E j \in DOMAIN t : t[j] = s[i]
  <2> TAKE i \in DOMAIN s
  <2>1. /\ DOMAIN s = 1 .. Len(s) /\ DOMAIN t = 1 .. Len(s) - 1 /\ Len(s) \in Nat
        /\ \A j \in DOMAIN t : t[j] = s[j + 1]
        /\ f = s[1]
    BY <1>1, <1>2, TailOf
  <2>2. CASE i = 1
    BY <2>1, <2>2
  <2>3. CASE i # 1
    <3>1. i - 1 \in DOMAIN t /\ (i - 1) + 1 = i
      BY <2>1, <2>3
    <3> QED BY <2>1, <3>1
  <2> QED BY <2>2, <2>3
<1>5. f.call # "play" => (Plays(s) <=> Plays(t))
  BY <1>3, <1>4 DEF Plays
<1>6. f.call # "give" => (Gives(s) <=> Gives(t))
  BY <1>3, <1>4 DEF Gives
<1>7. \A d : f.call # "window" => (Leaves(s, d) <=> Leaves(t, d))
  BY <1>3, <1>4 DEF Leaves
<1> QED BY <1>1, <1>2, <1>5, <1>6, <1>7

LEMMA PushKeeps ==
    ASSUME NEW s \in Seq(Frames), NEW f
    PROVE  /\ Plays(<<f>> \o s) <=> f.call = "play" \/ Plays(s)
           /\ Gives(<<f>> \o s) <=> f.call = "give" \/ Gives(s)
           /\ \A d : Leaves(s, d) => Leaves(<<f>> \o s, d)
           /\ \A d : f.call = "window" /\ (\E j \in DOMAIN f.left : f.left[j] = d)
                   => Leaves(<<f>> \o s, d)
<1>0. PICK t : t = <<f>> \o s
  OBVIOUS
<1>1. /\ DOMAIN s = 1 .. Len(s) /\ DOMAIN t = 1 .. Len(s) + 1 /\ Len(s) \in Nat /\ t[1] = f
      /\ \A i \in DOMAIN s : t[i + 1] = s[i]
  BY <1>0, Frame1
<1>2. \A i \in DOMAIN t : i # 1 => i - 1 \in DOMAIN s /\ t[i] = s[i - 1]
  <2> TAKE i \in DOMAIN t
  <2> HAVE i # 1
  <2>1. i - 1 \in DOMAIN s
    BY <1>1
  <2>2. t[(i - 1) + 1] = s[i - 1] /\ (i - 1) + 1 = i
    BY <1>1, <2>1
  <2> QED BY <2>1, <2>2
<1>3. \A i \in DOMAIN s : i + 1 \in DOMAIN t /\ t[i + 1] = s[i]
  BY <1>1
<1>4. 1 \in DOMAIN t
  BY <1>1
<1>5. Plays(t) <=> f.call = "play" \/ Plays(s)
  BY <1>1, <1>2, <1>3, <1>4 DEF Plays
<1>6. Gives(t) <=> f.call = "give" \/ Gives(s)
  BY <1>1, <1>2, <1>3, <1>4 DEF Gives
<1>7. \A d : Leaves(s, d) => Leaves(t, d)
  BY <1>3 DEF Leaves
<1>8. \A d : f.call = "window" /\ (\E j \in DOMAIN f.left : f.left[j] = d) => Leaves(t, d)
  BY <1>1, <1>4 DEF Leaves
<1> QED BY <1>0, <1>5, <1>6, <1>7, <1>8

LEMMA GivenTail ==
    ASSUME NEW s \in Seq(Frames), s # <<>>, NEW held, NEW n
    PROVE  /\ GivenFirst(s, held) => GivenFirst(Tail(s), held)
           /\ GivenBefore(s, n) => GivenBefore(Tail(s), n)
<1>1. PICK t : t = Tail(s)
  OBVIOUS
<1>2. /\ DOMAIN s = 1 .. Len(s) /\ DOMAIN t = 1 .. Len(s) - 1 /\ Len(s) \in Nat
      /\ \A i \in DOMAIN t : t[i] = s[i + 1]
  BY <1>1, TailOf
<1>3. ASSUME NEW i \in DOMAIN t
      PROVE  /\ i + 1 \in DOMAIN s /\ t[i] = s[i + 1]
             /\ \A k \in DOMAIN s : k > i + 1 => \E j \in DOMAIN t : j > i /\ t[j] = s[k]
  <2>1. ASSUME NEW k \in DOMAIN s, k > i + 1
        PROVE  \E j \in DOMAIN t : j > i /\ t[j] = s[k]
    <3>1. k - 1 \in DOMAIN t /\ k - 1 > i /\ (k - 1) + 1 = k
      BY <1>2, <2>1
    <3> QED BY <1>2, <3>1
  <2> QED BY <1>2, <2>1
<1>4. GivenFirst(s, held) => GivenFirst(t, held)
  <2> SUFFICES ASSUME GivenFirst(s, held), NEW i \in DOMAIN t, t[i].call = "give"
               PROVE  /\ \A j \in DOMAIN held : held[j].device = Keyboard => t[i].event.id < held[j].id
                      /\ (\A k \in DOMAIN t : k > i => t[k].call # "play") =>
                            \A j \in DOMAIN held : held[j].device # Keyboard
    BY DEF GivenFirst
  <2>1. /\ i + 1 \in DOMAIN s /\ t[i] = s[i + 1]
        /\ \A k \in DOMAIN s : k > i + 1 => \E j \in DOMAIN t : j > i /\ t[j] = s[k]
    BY <1>3
  <2>2. /\ \A j \in DOMAIN held : held[j].device = Keyboard => s[i + 1].event.id < held[j].id
        /\ (\A k \in DOMAIN s : k > i + 1 => s[k].call # "play") =>
             \A j \in DOMAIN held : held[j].device # Keyboard
    BY <2>1 DEF GivenFirst
  <2>3. (\A k \in DOMAIN t : k > i => t[k].call # "play") =>
           \A k \in DOMAIN s : k > i + 1 => s[k].call # "play"
    BY <2>1
  <2> QED BY <2>1, <2>2, <2>3
<1>5. GivenBefore(s, n) => GivenBefore(t, n)
  BY <1>3 DEF GivenBefore
<1> QED BY <1>1, <1>4, <1>5

LEMMA GivenPush ==
    ASSUME NEW s \in Seq(Frames), NEW f, NEW held, NEW n,
           f.call = "give" =>
              /\ f.event.id <= n
              /\ \A j \in DOMAIN held : held[j].device = Keyboard => f.event.id < held[j].id
              /\ ~Plays(s) => \A j \in DOMAIN held : held[j].device # Keyboard
    PROVE  /\ GivenFirst(s, held) => GivenFirst(<<f>> \o s, held)
           /\ GivenBefore(s, n) => GivenBefore(<<f>> \o s, n)
<1>1. PICK t : t = <<f>> \o s
  OBVIOUS
<1>2. /\ DOMAIN s = 1 .. Len(s) /\ DOMAIN t = 1 .. Len(s) + 1 /\ Len(s) \in Nat /\ t[1] = f
      /\ \A i \in DOMAIN s : t[i + 1] = s[i]
  BY <1>1, Frame1
<1>3. ASSUME NEW i \in DOMAIN t, i # 1
      PROVE  /\ i - 1 \in DOMAIN s /\ t[i] = s[i - 1]
             /\ \A k \in DOMAIN s : k > i - 1 => k + 1 \in DOMAIN t /\ k + 1 > i /\ t[k + 1] = s[k]
  <2>1. i - 1 \in DOMAIN s /\ (i - 1) + 1 = i
    BY <1>2, <1>3
  <2> QED BY <1>2, <2>1
<1>4. \A k \in DOMAIN s : k + 1 \in DOMAIN t /\ k + 1 > 1 /\ t[k + 1] = s[k]
  BY <1>2
<1>5. GivenFirst(s, held) => GivenFirst(t, held)
  <2> SUFFICES ASSUME GivenFirst(s, held), NEW i \in DOMAIN t, t[i].call = "give"
               PROVE  /\ \A j \in DOMAIN held : held[j].device = Keyboard => t[i].event.id < held[j].id
                      /\ (\A k \in DOMAIN t : k > i => t[k].call # "play") =>
                            \A j \in DOMAIN held : held[j].device # Keyboard
    BY DEF GivenFirst
  <2>1. CASE i = 1
    <3>1. (\A k \in DOMAIN t : k > 1 => t[k].call # "play") => ~Plays(s)
      BY <1>4 DEF Plays
    <3> QED BY <1>2, <2>1, <3>1
  <2>2. CASE i # 1
    <3>1. /\ i - 1 \in DOMAIN s /\ t[i] = s[i - 1]
          /\ \A k \in DOMAIN s : k > i - 1 => k + 1 \in DOMAIN t /\ k + 1 > i /\ t[k + 1] = s[k]
      BY <1>3, <2>2
    <3>2. /\ \A j \in DOMAIN held : held[j].device = Keyboard => s[i - 1].event.id < held[j].id
          /\ (\A k \in DOMAIN s : k > i - 1 => s[k].call # "play") =>
               \A j \in DOMAIN held : held[j].device # Keyboard
      BY <3>1 DEF GivenFirst
    <3>3. (\A k \in DOMAIN t : k > i => t[k].call # "play") =>
             \A k \in DOMAIN s : k > i - 1 => s[k].call # "play"
      BY <3>1
    <3> QED BY <3>1, <3>2, <3>3
  <2> QED BY <2>1, <2>2
<1>6. GivenBefore(s, n) => GivenBefore(t, n)
  BY <1>2, <1>3 DEF GivenBefore
<1> QED BY <1>1, <1>5, <1>6

---------------------------------------------------------------------------
(* A step that changes grabs.                                              *)

(* What is left to the calls below.                                        *)
Rest(rest) ==
    /\ rest \in Seq(Frames) /\ Nested(rest) /\ Returned(rest)
    /\ Plays(stack) => Plays(rest)
    /\ Gives(stack) <=> Gives(rest)
    /\ GivenFirst(stack, pending) => GivenFirst(rest, pending)
    /\ GivenBefore(stack, arrived) => GivenBefore(rest, arrived)

LEMMA RestTail ==
    ASSUME TypeOK, StackInv, stack # <<>>, Head(stack).call \notin {"play", "give"}
    PROVE  Rest(Tail(stack))
<1>1. stack \in Seq(Frames) /\ Tail(stack) \in Seq(Frames)
  BY TailOf DEF TypeOK
<1>2. Nested(Tail(stack)) /\ Returned(Tail(stack))
  BY <1>1, NestedTail DEF StackInv
<1>3. (Plays(stack) <=> Plays(Tail(stack))) /\ (Gives(stack) <=> Gives(Tail(stack)))
  BY <1>1, TailKeeps
<1>4. /\ GivenFirst(stack, pending) => GivenFirst(Tail(stack), pending)
      /\ GivenBefore(stack, arrived) => GivenBefore(Tail(stack), arrived)
  BY <1>1, GivenTail
<1> QED BY <1>1, <1>2, <1>3, <1>4 DEF Rest

LEMMA RestWhole ==
    ASSUME TypeOK, StackInv, stack = <<>> \/ Head(stack).call \notin {"replay", "free"}
    PROVE  Rest(stack)
<1>1. stack \in Seq(Frames)
  BY DEF TypeOK
<1>2. CASE stack = <<>>
  <2>1. Returned(stack)
    BY <1>2 DEF Returned
  <2> QED BY <1>1, <2>1 DEF Rest, StackInv
<1>3. CASE stack # <<>>
  <2>1. Returned(stack)
    BY <1>1, <1>3, ReturnedWhole DEF StackInv
  <2> QED BY <1>1, <2>1 DEF Rest, StackInv
<1> QED BY <1>2, <1>3

LEMMA ChangedStack ==
    ASSUME NEW rest, rest \in Seq(Frames), Nested(rest), Returned(rest), Changed(rest), NEW held, NEW n
    PROVE  /\ stack' \in Seq(Frames) /\ StackInv'
           /\ Plays(rest) => Plays(stack')
           /\ Gives(stack') <=> Gives(rest)
           /\ \A d : Leaves(rest, d) => Leaves(stack', d)
           /\ GivenFirst(rest, held) => GivenFirst(stack', held)
           /\ GivenBefore(rest, n) => GivenBefore(stack', n)
<1>1. CASE stack' = rest
  <2>1. stack' # <<>> => Returned(Tail(stack')) /\ Head(stack').call # "replay"
    BY <1>1, ReturnedTail, TailOf DEF Returned
  <2>2. StackInv'
    BY <1>1, <2>1 DEF StackInv, Calling
  <2> QED BY <1>1, <2>2
<1>2. CASE ~Plays(rest) /\ stack' = <<PlayFrame>> \o rest
  <2>1. PlayFrame \in Frames /\ PlayFrame.call = "play"
    BY DEF Frames, PlayFrame
  <2>2. stack' \in Seq(Frames)
    BY <1>2, <2>1
  <2>3. Tail(stack') = rest /\ Head(stack') = PlayFrame
    BY <1>2, Frame1
  <2>4. Nested(stack')
    BY <1>2, <2>1, NestedPush
  <2>5. StackInv'
    BY <2>1, <2>3, <2>4 DEF StackInv, Calling
  <2>6. /\ Plays(rest) => Plays(stack')
        /\ Gives(stack') <=> Gives(rest)
        /\ \A d : Leaves(rest, d) => Leaves(stack', d)
    BY <1>2, <2>1, PushKeeps
  <2>7. /\ GivenFirst(rest, held) => GivenFirst(stack', held)
        /\ GivenBefore(rest, n) => GivenBefore(stack', n)
    BY <1>2, <2>1, GivenPush
  <2> QED BY <2>2, <2>5, <2>6, <2>7
<1> QED BY <1>1, <1>2 DEF Changed

(* Nothing about the order of events changes when only frames that give    *)
(* nothing come and go.                                                    *)
LEMMA SameOrder ==
    ASSUME OrderInv, Gives(stack') <=> Gives(stack),
           GivenFirst(stack, pending) => GivenFirst(stack', pending),
           GivenBefore(stack, arrived) => GivenBefore(stack', arrived),
           down' = down, physical' = physical, pending' = pending,
           arrived' = arrived, seen' = seen, cut' = cut
    PROVE  OrderInv'
<1>1. Numbered'
  BY DEF OrderInv, Numbered
<1>2. ASSUME ~cut'
      PROVE  PendingInOrder' /\ GivenFirst(stack', pending') /\ HeldTruth'
  <2>1. PendingInOrder /\ GivenFirst(stack, pending) /\ HeldTruth /\ ~cut
    BY <1>2 DEF OrderInv
  <2>2. PendingInOrder'
    BY <2>1 DEF PendingInOrder
  <2>3. GivenFirst(stack', pending')
    BY <2>1
  <2>4. HeldTruth'
    BY <2>1 DEF HeldTruth, LastHeld, NoneHeld
  <2> QED BY <2>2, <2>3, <2>4
<1> QED BY <1>1, <1>2 DEF OrderInv

LEMMA EventFields ==
    ASSUME NEW ev \in Events
    PROVE  ev.device \in Devices /\ ev.kind \in Kinds /\ ev.id \in Ids
  BY DEF Events

LEMMA PendingTypes ==
    ASSUME TypeOK
    PROVE  /\ pending \in Seq(Events)
           /\ DOMAIN pending = 1 .. Len(pending) /\ Len(pending) \in Nat
           /\ \A i \in DOMAIN pending :
                /\ pending[i] \in Events /\ pending[i].device \in Devices
                /\ pending[i].kind \in Kinds /\ pending[i].id \in Ids
<1>1. pending \in Seq(Events)
  BY DEF TypeOK
<1>2. \A i \in DOMAIN pending : pending[i] \in Events
  BY <1>1
<1> QED BY <1>1, <1>2, EventFields

LEMMA Regrab ==
    ASSUME IInv, NEW rest, Rest(rest), Changed(rest), OneAtATime(dev', seen),
           \A d \in Devices : dev'[d].grab # None /\ Leaves(stack, d) => Leaves(rest, d),
           UNCHANGED <<down, physical, pending, pendtail, arrived, seen, cut, top>>,
           passive' \subseteq PassiveGrabs, gone' \subseteq Clients
    PROVE  IInv' /\ Grabbing(dev')
<1>1. /\ stack' \in Seq(Frames) /\ StackInv'
      /\ Plays(rest) => Plays(stack')
      /\ Gives(stack') <=> Gives(rest)
      /\ \A d : Leaves(rest, d) => Leaves(stack', d)
      /\ GivenFirst(rest, pending) => GivenFirst(stack', pending)
      /\ GivenBefore(rest, arrived) => GivenBefore(stack', arrived)
  BY ChangedStack DEF Rest
<1>2. TypeOK'
  BY <1>1 DEF IInv, TypeOK, Changed, Records
<1>3. DevInv'
  <2>1. OneAtATime(dev', seen')
    BY DEF OneAtATime, OneFor
  <2> QED BY <2>1 DEF DevInv, Changed
<1>4. HeldBackInv'
  <2>1. CASE Plays(stack') \/ pending = <<>>
    BY <2>1 DEF HeldBackInv
  <2>2. CASE \A x \in Devices : dev[x].frozen => dev'[x].frozen
    <3>1. \A i \in DOMAIN pending : pending[i].device \in Devices
      BY PendingTypes DEF IInv
    <3>2. Plays(stack) => Plays(stack')
      BY <1>1 DEF Rest
    <3> QED BY <2>2, <3>1, <3>2 DEF IInv, HeldBackInv
  <2> QED BY <2>1, <2>2 DEF Changed
<1>5. WindowInv'
  <2>1. ASSUME NEW d \in Devices, dev'[d].grab # None, dev'[d].grab.window > top
        PROVE  Leaves(stack', d)
    <3>1. CASE dev'[d].grab = dev[d].grab
      BY <1>1, <2>1, <3>1 DEF IInv, WindowInv
    <3>2. CASE dev'[d].grab # dev[d].grab
      <4>1. dev'[d].grab \in Grabs /\ top \in Nat
        <5>1. dev'[d] \in Records
          BY DEF Changed
        <5>2. top \in Nat
          BY DeviceGrabsAssumption DEF IInv, TypeOK
        <5> QED BY <2>1, <5>1, <5>2, RecordFields
      <4>2. dev'[d].grab.window \in Nat /\ dev'[d].grab.window <= top
        <5>1. dev'[d].grab.window \in Nat
          BY <4>1, GrabFields, DeviceGrabsAssumption DEF Windows
        <5> QED BY <2>1, <3>2, <5>1 DEF Changed, Grabbing
      <4> QED BY <2>1, <4>1, <4>2
    <3> QED BY <3>1, <3>2
  <2> QED BY <2>1 DEF WindowInv
<1>6. OrderInv'
  <2>1. /\ Gives(stack') <=> Gives(stack)
        /\ GivenFirst(stack, pending) => GivenFirst(stack', pending)
        /\ GivenBefore(stack, arrived) => GivenBefore(stack', arrived)
    BY <1>1 DEF Rest
  <2>2. /\ down' = down /\ physical' = physical /\ pending' = pending
        /\ arrived' = arrived /\ seen' = seen /\ cut' = cut
    OBVIOUS
  <2>3. OrderInv
    BY DEF IInv
  <2> QED BY <2>1, <2>2, <2>3, SameOrder
<1>7. Grabbing(dev')
  BY DEF Changed
<1> QED BY <1>1, <1>2, <1>3, <1>4, <1>5, <1>6, <1>7 DEF IInv

---------------------------------------------------------------------------
(* Requests.                                                               *)

LEMMA ReturnToLoop ==
    ASSUME IInv, stack = <<>>
    PROVE  Rest(<<>>) /\ \A d : ~Leaves(stack, d)
<1>1. Rest(stack)
  BY RestWhole DEF IInv
<1> QED BY <1>1 DEF Leaves

(* A request that changes the records to D and returns.                    *)
LEMMA RequestStep ==
    ASSUME IInv, stack = <<>>, NEW D \in [Devices -> Records],
           WellGrabbed(D), OneAtATime(D, seen), Grabbing(D),
           ComputeFreezes(D, <<>>, <<>>), RequestUnchanged
    PROVE  IInv' /\ Grabbing(dev')
<1>1. Rest(<<>>) /\ \A d : ~Leaves(stack, d)
  BY ReturnToLoop
<1>2. Changed(<<>>) /\ OneAtATime(dev', seen)
  <2>1. <<>> \in Seq(Frames)
    OBVIOUS
  <2> QED BY <2>1, ComputeFreezesKeeps
<1>3. passive' \subseteq PassiveGrabs /\ gone' \subseteq Clients
  BY DEF RequestUnchanged, IInv, TypeOK
<1> QED BY <1>1, <1>2, <1>3, Regrab DEF RequestUnchanged

LEMMA ProcGrabStep ==
    ASSUME IInv, NEW c \in Clients, NEW a \in ActiveGrabs, ProcGrab(c, a.device, a.grab)
    PROVE  IInv' /\ Grabbing(dev')
<1> DEFINE d == a.device
           g == a.grab
           D == Activated(dev, d, g, FALSE)
           e == Other(d)
<1>1. PICK f \in BOOLEAN : f = FALSE
  BY Zenon
<1>2. D = Activated(dev, d, g, f)
  BY <1>1, Zenon
<1>3. d \in Devices /\ g \in Grabs /\ g.client = c /\ g.window <= top /\ c \notin gone /\ stack = <<>>
  BY DeviceGrabsAssumption DEF ProcGrab, Running
<1>4. /\ dev \in [Devices -> Records] /\ e \in Devices /\ \A x \in Devices : x = d \/ x = e
  BY <1>3, TwoDevices DEF IInv, TypeOK, Records
<1>5. OneFor(dev, e, seen) /\ WellGrabbed(dev)
  BY <1>4 DEF IInv, DevInv, OneAtATime
<1>6. ComputeFreezes(D, <<>>, <<>>) /\ RequestUnchanged
  BY DEF ProcGrab
<1> HIDE DEF D
<1>7. /\ D \in [Devices -> Records] /\ WellGrabbed(D) /\ OneAtATime(D, seen)
      /\ D[d].grab = g /\ SameGrab(dev, D, e)
  BY <1>2, <1>3, <1>4, <1>5, ActivatedFields, ActivatedKeeps
<1>8. Grabbing(D)
  BY <1>3, <1>4, <1>7 DEF Grabbing, SameGrab
<1> QED BY <1>3, <1>6, <1>7, <1>8, RequestStep

LEMMA ProcUngrabStep ==
    ASSUME IInv, NEW c \in Clients, NEW d \in Devices, ProcUngrab(c, d)
    PROVE  IInv' /\ Grabbing(dev')
<1> DEFINE D == Deactivated(dev, d)
           e == Other(d)
<1>1. stack = <<>> /\ ComputeFreezes(D, <<>>, <<>>) /\ RequestUnchanged
  BY DEF ProcUngrab, Running
<1>2. /\ dev \in [Devices -> Records] /\ e \in Devices /\ \A x \in Devices : x = d \/ x = e
  BY TwoDevices DEF IInv, TypeOK, Records
<1>3. OneFor(dev, e, seen) /\ WellGrabbed(dev)
  BY <1>2 DEF IInv, DevInv, OneAtATime
<1> HIDE DEF D
<1>4. /\ D \in [Devices -> Records] /\ WellGrabbed(D) /\ OneAtATime(D, seen)
      /\ D[d].grab = None /\ SameGrab(dev, D, e)
  BY <1>2, <1>3, DeactivatedFields, DeactivatedKeeps DEF D
<1>5. Grabbing(D)
  BY <1>2, <1>4 DEF Grabbing, SameGrab
<1> QED BY <1>1, <1>4, <1>5, RequestStep

(* AllowEvents without replaying.                                          *)
LEMMA AllowedStep ==
    ASSUME IInv, stack = <<>>, NEW D \in [Devices -> Records], NEW c,
           NEW state \in {"Thawed", "FreezeNextEvent", "FreezeBothNextEvent"},
           Allowed(dev, D, c, state), ComputeFreezes(D, <<>>, <<>>), RequestUnchanged
    PROVE  IInv' /\ Grabbing(dev')
<1>1. dev \in [Devices -> Records]
  BY DEF IInv, TypeOK, Records
<1>2. WellGrabbed(D) /\ OneAtATime(D, seen)
  BY <1>1, AllowedKeeps DEF IInv, DevInv
<1>3. Grabbing(D)
  BY DEF Grabbing, Allowed
<1> QED BY <1>2, <1>3, RequestStep

(* ReplayPointer, ReplayKeyboard: the grab is given up and the event it    *)
(* was frozen with is to be replayed first.                                *)
LEMMA ReplayStep ==
    ASSUME IInv, stack = <<>>, NEW c \in Clients, NEW d \in Devices,
           d \in Held(c), dev[d].state = "FrozenWithEvent", RequestUnchanged,
           ComputeFreezes(
               Deactivated(AllowThis(c, d, dev[d].state), d),
               <<[call |-> "replay", event |-> dev[d].event,
                  window |-> dev[d].grab.window]>>,
               <<>>)
    PROVE  IInv' /\ Grabbing(dev')
<1> DEFINE s == dev[d].state
           A == AllowThis(c, d, s)
           D == Deactivated(A, d)
           e == Other(d)
           f == [call |-> "replay", event |-> dev[d].event, window |-> dev[d].grab.window]
<1>1. /\ dev \in [Devices -> Records] /\ e \in Devices /\ e # d
      /\ \A x \in Devices : x = d \/ x = e
      /\ WellGrabbed(dev) /\ OneAtATime(dev, seen)
  BY TwoDevices DEF IInv, TypeOK, Records, DevInv
<1>2. s \in SyncStates /\ s = "FrozenWithEvent"
  BY <1>1, RecordFields
<1>3. /\ A \in [Devices -> Records] /\ Allowed(dev, A, c, s) /\ A[e] = dev[e]
  BY <1>1, <1>2, AllowThisFields DEF IInv
<1>4. /\ dev[d].grab \in Grabs /\ dev[d].event \in Events
      /\ dev[d].event.device = d /\ dev[d].event.id = seen[d]
  BY <1>1, <1>2, RecordFields DEF Held, WellGrabbed, OneAtATime, OneFor
<1>5. WellGrabbed(A)
  <2>1. \A x \in Devices : A[x].grab = dev[x].grab /\ A[x].state = dev[x].state
                          /\ A[x].event = dev[x].event /\ A[x].other \in {dev[x].other, None}
    BY <1>1, <1>3 DEF Allowed
  <2>2. \A x \in Devices : dev[x].other \in Devices \cup {None}
    BY <1>1, RecordFields
  <2> HIDE DEF A
  <2> QED BY <1>1, <2>1, <2>2 DEF WellGrabbed
<1>6. OneFor(A, e, seen)
  BY <1>1, <1>3 DEF OneAtATime, OneFor
<1>7. /\ D \in [Devices -> Records] /\ WellGrabbed(D) /\ OneAtATime(D, seen)
      /\ D[d].grab = None /\ SameGrab(A, D, e)
  <2> HIDE DEF A
  <2> QED BY <1>3, <1>5, <1>6, DeactivatedFields, DeactivatedKeeps
<1>8. dev' = Refrozen(D) /\ stack' = <<f>> \o <<PlayFrame>> \o <<>>
  BY DEF ComputeFreezes, PlayFrame
<1>9. /\ dev' \in [Devices -> Records]
      /\ \A x \in Devices :
           /\ SameGrab(D, dev', x) /\ dev'[x].other = D[x].other
           /\ dev'[x].frozen <=> D[x].state \in Frozen \/ D[x].other # None
  <2> HIDE DEF D
  <2> QED BY <1>7, <1>8, RefrozenFields
<1>10. DevInv'
  <2> HIDE DEF D
  <2>1. \A x \in Devices : D[x].other \in Devices \cup {None}
    BY <1>7, RecordFields
  <2>2. WellGrabbed(dev')
    BY <1>7, <1>9, <2>1 DEF WellGrabbed, SameGrab
  <2>3. WellFrozen(dev')
    BY <1>9 DEF WellFrozen, SameGrab
  <2>4. OneAtATime(dev', seen)
    BY <1>7, <1>9, SameGrabSameEvents DEF OneAtATime
  <2>5. OneAtATime(dev', seen')
    BY <2>4 DEF RequestUnchanged, OneAtATime, OneFor
  <2> QED BY <2>2, <2>3, <2>5 DEF DevInv
<1>11. /\ f \in Frames /\ PlayFrame \in Frames /\ f.call = "replay" /\ f.event = dev[d].event
       /\ PlayFrame.call = "play"
  <2>1. dev[d].grab.window \in Windows
    BY <1>4, GrabFields
  <2> QED BY <1>4, <2>1 DEF Frames, PlayFrame
<1> HIDE DEF f
<1>12. stack' = Push(f, <<PlayFrame>>)
  <2>1. <<f>> \o <<PlayFrame>> \in Seq(Frames)
    BY <1>11
  <2> QED BY <1>8, <2>1, ConcatEmptySeq DEF Push
<1>13. /\ stack' \in Seq(Frames) /\ Head(stack') = f /\ Tail(stack') = <<PlayFrame>>
       /\ DOMAIN stack' = 1 .. 2 /\ stack'[1] = f /\ stack'[2] = PlayFrame
  BY <1>11, <1>12, TwoFrames
<1>14. StackInv'
  <2>1. Nested(stack')
    BY <1>11, <1>13 DEF Nested
  <2>2. Returned(Tail(stack'))
    BY <1>11, <1>13 DEF Returned
  <2>3. Head(stack').event.id = seen'[Head(stack').event.device]
    BY <1>4, <1>11, <1>13 DEF RequestUnchanged
  <2> QED BY <2>1, <2>2, <2>3 DEF StackInv
<1>15. TypeOK'
  BY <1>9, <1>13 DEF IInv, TypeOK, RequestUnchanged, Records
<1>16. HeldBackInv'
  BY <1>11, <1>13 DEF HeldBackInv, Plays
<1>17. \A x \in Devices : dev'[x].grab = None \/ dev'[x].grab = dev[x].grab
  <2> HIDE DEF A, D
  <2> QED BY <1>1, <1>3, <1>7, <1>9 DEF SameGrab
<1>18. WindowInv'
  <2>1. \A x \in Devices : ~Leaves(stack, x)
    BY ReturnToLoop
  <2> QED BY <1>17, <2>1 DEF IInv, WindowInv, RequestUnchanged
<1>19. OrderInv'
  <2>1. Gives(stack') <=> Gives(stack)
    BY <1>11, <1>13 DEF Gives
  <2>2. GivenFirst(stack', pending) /\ GivenBefore(stack', arrived)
    BY <1>11, <1>13 DEF GivenFirst, GivenBefore
  <2> QED BY <2>1, <2>2, SameOrder DEF RequestUnchanged, IInv
<1>20. Grabbing(dev')
  BY <1>17 DEF Grabbing
<1> QED BY <1>10, <1>14, <1>15, <1>16, <1>18, <1>19, <1>20 DEF IInv

LEMMA AllowSomeStep ==
    ASSUME IInv, NEW c \in Clients, NEW d \in Devices, NEW mode, AllowSome(c, d, mode)
    PROVE  IInv' /\ Grabbing(dev')
<1>1. stack = <<>> /\ RequestUnchanged
  BY DEF AllowSome, Running
<1>2. \/ ComputeFreezes(AllowThis(c, d, "Thawed"), <<>>, <<>>)
      \/ ComputeFreezes(AllowThis(c, d, "FreezeNextEvent"), <<>>, <<>>)
      \/ ComputeFreezes(AllowBoth(c, "Thawed"), <<>>, <<>>)
      \/ ComputeFreezes(AllowBoth(c, "FreezeBothNextEvent"), <<>>, <<>>)
      \/ /\ d \in Held(c) /\ dev[d].state = "FrozenWithEvent"
         /\ ComputeFreezes(
               Deactivated(AllowThis(c, d, dev[d].state), d),
               <<[call |-> "replay", event |-> dev[d].event,
                  window |-> dev[d].grab.window]>>,
               <<>>)
  BY DEF AllowSome
<1>3. TypeOK /\ {"Thawed", "FreezeNextEvent", "FreezeBothNextEvent"} \subseteq SyncStates
  BY DEF IInv, SyncStates
<1>4. ASSUME NEW state \in {"Thawed", "FreezeNextEvent", "FreezeBothNextEvent"},
             ComputeFreezes(AllowThis(c, d, state), <<>>, <<>>)
      PROVE  IInv' /\ Grabbing(dev')
  BY <1>1, <1>3, <1>4, AllowThisFields, AllowedStep
<1>5. ASSUME NEW state \in {"Thawed", "FreezeNextEvent", "FreezeBothNextEvent"},
             ComputeFreezes(AllowBoth(c, state), <<>>, <<>>)
      PROVE  IInv' /\ Grabbing(dev')
  BY <1>1, <1>3, <1>5, AllowBothFields, AllowedStep
<1> QED BY <1>1, <1>2, <1>4, <1>5, ReplayStep

---------------------------------------------------------------------------
(* Clients and windows that go away.                                       *)

(* A step that changes no grab, but what is still to be done.              *)
LEMMA Restack ==
    ASSUME IInv, stack' \in Seq(Frames), StackInv', WindowInv', Plays(stack) => Plays(stack'),
           Gives(stack') <=> Gives(stack),
           GivenFirst(stack, pending) => GivenFirst(stack', pending),
           GivenBefore(stack, arrived) => GivenBefore(stack', arrived),
           UNCHANGED <<dev, down, physical, pending, pendtail, arrived, seen, cut>>,
           passive' \subseteq PassiveGrabs, gone' \subseteq Clients, top' \in {Depth - 1, Depth}
    PROVE  IInv' /\ Grabbing(dev')
<1>1. TypeOK'
  BY DEF IInv, TypeOK
<1>2. DevInv'
  BY DEF IInv, DevInv, WellGrabbed, WellFrozen, OneAtATime, OneFor
<1>3. HeldBackInv'
  BY DEF IInv, HeldBackInv
<1>4. OrderInv'
  BY SameOrder DEF IInv
<1>5. Grabbing(dev')
  BY DEF Grabbing
<1> QED BY <1>1, <1>2, <1>3, <1>4, <1>5 DEF IInv

LEMMA OneFrame ==
    ASSUME NEW f \in Frames, NEW t, t = <<f>>
    PROVE  /\ t \in Seq(Frames) /\ DOMAIN t = {1} /\ t[1] = f /\ Head(t) = f /\ Tail(t) = <<>>
OBVIOUS

(* Something is called from the dispatch loop.                             *)
LEMMA CallStep ==
    ASSUME IInv, stack = <<>>, NEW f \in Frames, f.call \in {"release", "window"},
           f.call = "window" => f.left \in Lefts, stack' = <<f>>,
           UNCHANGED <<dev, down, physical, pending, pendtail, passive, top, gone,
                       arrived, seen, cut>>
    PROVE  IInv' /\ Grabbing(dev')
<1>1. /\ stack' \in Seq(Frames) /\ DOMAIN stack' = {1} /\ stack'[1] = f /\ Head(stack') = f
      /\ Tail(stack') = <<>>
  BY OneFrame
<1>2. StackInv'
  <2>1. Nested(stack')
    BY <1>1 DEF Nested
  <2>2. Returned(Tail(stack')) /\ Head(stack').call # "replay"
    BY <1>1 DEF Returned
  <2> QED BY <2>1, <2>2 DEF StackInv, Calling
<1>3. WindowInv'
  BY DEF IInv, WindowInv, Leaves
<1>4. /\ Plays(stack) => Plays(stack')
      /\ Gives(stack') <=> Gives(stack)
      /\ GivenFirst(stack', pending) /\ GivenBefore(stack', arrived)
  BY <1>1 DEF Plays, Gives, GivenFirst, GivenBefore
<1>5. passive' \subseteq PassiveGrabs /\ gone' \subseteq Clients /\ top' \in {Depth - 1, Depth}
  BY DEF IInv, TypeOK
<1> QED BY <1>1, <1>2, <1>3, <1>4, <1>5, Restack

LEMMA CloseDownClientStep ==
    ASSUME IInv, NEW c \in Clients, CloseDownClient(c)
    PROVE  IInv' /\ Grabbing(dev')
<1> DEFINE f == [call |-> "release", client |-> c]
<1>1. f \in Frames /\ f.call = "release"
  BY DEF Frames
<1>2. /\ stack = <<>> /\ stack' = <<f>>
      /\ UNCHANGED <<dev, down, physical, pending, pendtail, passive, top, gone, arrived, seen, cut>>
  BY DEF CloseDownClient, Running
<1> HIDE DEF f
<1> QED BY <1>1, <1>2, CallStep

LEMMA DestroyFrameType == /\ DestroyFrame \in Frames /\ DestroyFrame.call = "window"
                          /\ DestroyFrame.left \in Lefts
<1>1. PICK l : l = <<Pointer, Keyboard, None, Pointer, Keyboard>>
  OBVIOUS
<1>2. l \in Seq(Devices \cup {None}) /\ l \in Lefts
  BY <1>1 DEF Devices, Lefts
<1>3. DestroyFrame = [call |-> "window", left |-> l]
  BY <1>1 DEF DestroyFrame
<1> QED BY <1>2, <1>3 DEF Frames

LEMMA ProcDestroyWindowStep ==
    ASSUME IInv, ProcDestroyWindow
    PROVE  IInv' /\ Grabbing(dev')
<1>1. /\ stack = <<>> /\ stack' = <<DestroyFrame>>
      /\ UNCHANGED <<dev, down, physical, pending, pendtail, passive, top, gone, arrived, seen, cut>>
  BY DEF ProcDestroyWindow
<1> QED BY <1>1, CallStep, DestroyFrameType

LEMMA CallingFacts ==
    ASSUME IInv, NEW call, Calling(call)
    PROVE  /\ stack # <<>> /\ stack \in Seq(Frames) /\ Tail(stack) \in Seq(Frames)
           /\ Head(stack) \in Frames /\ Head(stack).call = call
           /\ Nested(stack) /\ Nested(Tail(stack)) /\ Returned(Tail(stack))
<1>1. stack # <<>> /\ stack \in Seq(Frames) /\ Head(stack).call = call
  BY DEF Calling, IInv, TypeOK
<1> QED BY <1>1, TailOf, NestedTail DEF IInv, StackInv

LEMMA ReleaseActiveGrabsStep ==
    ASSUME IInv, ReleaseActiveGrabs
    PROVE  IInv' /\ Grabbing(dev')
<1> DEFINE c == Head(stack).client
           f == [call |-> "free", client |-> c]
<1>1. /\ stack # <<>> /\ stack \in Seq(Frames) /\ Tail(stack) \in Seq(Frames)
      /\ Head(stack) \in Frames /\ Head(stack).call = "release"
      /\ Nested(stack) /\ Nested(Tail(stack)) /\ Returned(Tail(stack))
  BY CallingFacts DEF ReleaseActiveGrabs
<1>2. c \in Clients
  BY <1>1, FrameKinds
<1>3. UNCHANGED <<down, physical, pending, pendtail, passive, top, arrived, seen, cut>>
  BY DEF ReleaseActiveGrabs
<1>4. /\ top \in {Depth - 1, Depth} /\ passive \subseteq PassiveGrabs /\ gone \subseteq Clients
      /\ TypeOK
  BY DEF IInv, TypeOK
<1>5. CASE Held(c) # {}
  <2>1. gone' = gone
    BY <1>5 DEF ReleaseActiveGrabs
  <2>2. PICK d \in Held(c) : ComputeFreezes(Deactivated(dev, d), <<>>, stack)
    BY <1>5 DEF ReleaseActiveGrabs
  <2>3. d \in Devices /\ Other(d) \in Devices
    BY TwoDevices DEF Held
  <2>4. WellGrabbed(dev) /\ OneFor(dev, Other(d), seen)
    BY <2>3 DEF IInv, DevInv, OneAtATime
  <2>5. Changed(stack) /\ OneAtATime(dev', seen)
    BY <1>1, <1>4, <2>2, <2>3, <2>4, DeactivateKeeps
  <2>6. Rest(stack)
    BY <1>1, <1>4, RestWhole DEF IInv
  <2>7. passive' \subseteq PassiveGrabs /\ gone' \subseteq Clients
    BY <1>3, <1>4, <2>1
  <2>8. UNCHANGED <<down, physical, pending, pendtail, arrived, seen, cut, top>>
    BY <1>3
  <2> QED BY <2>5, <2>6, <2>7, <2>8, Regrab
<1>6. CASE Held(c) = {}
  <2>1. gone' = gone \cup {c} /\ stack' = <<f>> \o Tail(stack) /\ dev' = dev
    BY <1>6 DEF ReleaseActiveGrabs
  <2>2. f \in Frames /\ f.call = "free"
    BY <1>2 DEF Frames
  <2> HIDE DEF f
  <2>3. PICK r \in Seq(Frames) : r = Tail(stack)
    BY <1>1
  <2>4. stack' = <<f>> \o r /\ Rest(r)
    BY <1>1, <1>4, <2>1, <2>3, RestTail DEF IInv
  <2>5. stack' \in Seq(Frames) /\ Head(stack') = f /\ Tail(stack') = r
    BY <2>2, <2>4
  <2>6. Nested(stack')
    BY <1>1, <2>2, <2>3, <2>4, NestedPush
  <2>7. StackInv'
    BY <1>1, <2>2, <2>3, <2>5, <2>6 DEF StackInv, Calling
  <2>8. /\ Plays(r) <=> Plays(stack')
        /\ Gives(r) <=> Gives(stack')
        /\ \A d : Leaves(r, d) => Leaves(stack', d)
    BY <2>2, <2>4, PushKeeps
  <2>9. /\ GivenFirst(r, pending) => GivenFirst(stack', pending)
        /\ GivenBefore(r, arrived) => GivenBefore(stack', arrived)
    BY <2>2, <2>4, GivenPush
  <2>10. \A d : Leaves(stack, d) => Leaves(r, d)
    BY <1>1, <2>3, TailKeeps
  <2>11. WindowInv'
    BY <1>3, <2>1, <2>8, <2>10 DEF IInv, WindowInv
  <2>12. /\ passive' \subseteq PassiveGrabs /\ gone' \subseteq Clients /\ top' \in {Depth - 1, Depth}
    BY <1>2, <1>3, <1>4, <2>1
  <2>13. /\ Plays(stack) => Plays(stack')
         /\ Gives(stack') <=> Gives(stack)
         /\ GivenFirst(stack, pending) => GivenFirst(stack', pending)
         /\ GivenBefore(stack, arrived) => GivenBefore(stack', arrived)
    BY <2>4, <2>8, <2>9 DEF Rest
  <2>14. UNCHANGED <<dev, down, physical, pending, pendtail, arrived, seen, cut>>
    BY <1>3, <2>1
  <2> QED BY <2>5, <2>7, <2>11, <2>12, <2>13, <2>14, Restack
<1> QED BY <1>5, <1>6

(* A call that returns and leaves the grabs alone.                         *)
LEMMA RestStacks ==
    ASSUME NEW rest, Rest(rest), stack' = rest
    PROVE  /\ stack' \in Seq(Frames) /\ StackInv'
           /\ Plays(stack) => Plays(stack')
           /\ Gives(stack') <=> Gives(stack)
           /\ GivenFirst(stack, pending) => GivenFirst(stack', pending)
           /\ GivenBefore(stack, arrived) => GivenBefore(stack', arrived)
<1>1. rest \in Seq(Frames) /\ Nested(rest) /\ Returned(rest)
  BY DEF Rest
<1>2. stack' # <<>> => Returned(Tail(stack')) /\ Head(stack').call # "replay"
  BY <1>1, ReturnedTail, TailOf DEF Returned
<1>3. StackInv'
  BY <1>1, <1>2 DEF StackInv, Calling
<1> QED BY <1>1, <1>3 DEF Rest

LEMMA FreeClientResourcesStep ==
    ASSUME IInv, FreeClientResources
    PROVE  IInv' /\ Grabbing(dev')
<1> DEFINE c == Head(stack).client
           grabs == {p \in passive : p.grab.client = c}
           window == LeafOwner = c /\ top = Depth
<1>1. /\ stack # <<>> /\ stack \in Seq(Frames) /\ Tail(stack) \in Seq(Frames)
      /\ Head(stack) \in Frames /\ Head(stack).call = "free"
      /\ Nested(stack) /\ Nested(Tail(stack)) /\ Returned(Tail(stack))
  BY CallingFacts DEF FreeClientResources
<1>2. UNCHANGED <<dev, down, physical, pending, pendtail, top, gone, arrived, seen, cut>>
  BY DEF FreeClientResources
<1>3. \/ passive' \subseteq passive /\ stack' = stack
      \/ window /\ stack' = <<DestroyFrame>> \o stack /\ passive' = passive
      \/ stack' = Tail(stack) /\ passive' = passive
  BY DEF FreeClientResources
<1>4. /\ top' \in {Depth - 1, Depth} /\ passive \subseteq PassiveGrabs /\ gone' \subseteq Clients
      /\ TypeOK
  BY <1>2 DEF IInv, TypeOK
<1>5. CASE passive' \subseteq passive /\ stack' = stack
  <2>1. StackInv' /\ WindowInv'
    BY <1>2, <1>5 DEF IInv, StackInv, Calling, WindowInv
  <2>2. passive' \subseteq PassiveGrabs
    BY <1>4, <1>5
  <2>3. stack' \in Seq(Frames)
    BY <1>1, <1>5
  <2> QED BY <1>2, <1>4, <1>5, <2>1, <2>2, <2>3, Restack
<1>6. CASE window /\ stack' = <<DestroyFrame>> \o stack /\ passive' = passive
  <2>1. PICK f : f = DestroyFrame
    OBVIOUS
  <2>2. f \in Frames /\ f.call = "window" /\ f.left \in Lefts /\ stack' = <<f>> \o stack
    BY <1>6, <2>1, DestroyFrameType
  <2>3. stack' \in Seq(Frames) /\ Head(stack') = f /\ Tail(stack') = stack
    BY <1>1, <2>2, Frame1
  <2>4. Nested(stack')
    BY <1>1, <2>2, NestedPush
  <2>5. Returned(stack)
    BY <1>1, <1>6, ReturnedWhole
  <2>6. StackInv'
    BY <2>2, <2>3, <2>4, <2>5 DEF StackInv, Calling
  <2>7. /\ Plays(stack) <=> Plays(stack')
        /\ Gives(stack) <=> Gives(stack')
        /\ \A d : Leaves(stack, d) => Leaves(stack', d)
    BY <1>1, <2>2, PushKeeps
  <2>8. /\ GivenFirst(stack, pending) => GivenFirst(stack', pending)
        /\ GivenBefore(stack, arrived) => GivenBefore(stack', arrived)
    BY <1>1, <2>2, GivenPush
  <2>9. WindowInv'
    BY <1>2, <2>7 DEF IInv, WindowInv
  <2>10. passive' \subseteq PassiveGrabs
    BY <1>4, <1>6
  <2> QED BY <1>2, <1>4, <2>3, <2>6, <2>7, <2>8, <2>9, <2>10, Restack
<1>7. CASE stack' = Tail(stack) /\ passive' = passive
  <2>1. Rest(Tail(stack))
    BY <1>1, <1>4, RestTail DEF IInv
  <2>2. /\ stack' \in Seq(Frames) /\ StackInv'
        /\ Plays(stack) => Plays(stack')
        /\ Gives(stack') <=> Gives(stack)
        /\ GivenFirst(stack, pending) => GivenFirst(stack', pending)
        /\ GivenBefore(stack, arrived) => GivenBefore(stack', arrived)
    BY <1>7, <2>1, RestStacks
  <2>3. \A d : Leaves(stack, d) => Leaves(Tail(stack), d)
    BY <1>1, TailKeeps
  <2>4. WindowInv'
    BY <1>2, <1>7, <2>3 DEF IInv, WindowInv
  <2>5. passive' \subseteq PassiveGrabs
    BY <1>4, <1>7
  <2> QED BY <1>2, <1>4, <2>2, <2>4, <2>5, Restack
<1> QED BY <1>3, <1>5, <1>6, <1>7

(* What a window has still to do after one thing more is done.             *)
LEMMA LeftsTail ==
    ASSUME NEW l \in Lefts, l # <<>>
    PROVE  /\ l \in Seq(Devices \cup {None}) /\ Tail(l) \in Lefts
           /\ Head(l) = None => \A d \in Devices : \E j \in DOMAIN Tail(l) : Tail(l)[j] = d
<1>1. ASSUME NEW a \in Devices \cup {None}, NEW r \in Seq(Devices \cup {None}), l = <<a>> \o r
      PROVE  l \in Seq(Devices \cup {None}) /\ Head(l) = a /\ Tail(l) = r
  BY <1>1, Frame1
<1>2. Pointer \in Devices /\ Keyboard \in Devices /\ None \notin Devices
  BY TwoDevices
<1>3. PICK k : k = <<Keyboard>>
  OBVIOUS
<1>4. PICK pk : pk = <<Pointer, Keyboard>>
  OBVIOUS
<1>5. PICK npk : npk = <<None, Pointer, Keyboard>>
  OBVIOUS
<1>6. PICK knpk : knpk = <<Keyboard, None, Pointer, Keyboard>>
  OBVIOUS
<1>7. PICK pknpk : pknpk = <<Pointer, Keyboard, None, Pointer, Keyboard>>
  OBVIOUS
<1>8. PICK e : e = <<>>
  OBVIOUS
<1>9. /\ e \in Seq(Devices \cup {None}) /\ k \in Seq(Devices \cup {None})
      /\ pk \in Seq(Devices \cup {None}) /\ npk \in Seq(Devices \cup {None})
      /\ knpk \in Seq(Devices \cup {None})
  BY <1>2, <1>3, <1>4, <1>5, <1>6, <1>8
<1>10. k = <<Keyboard>> \o e
  BY <1>2, <1>3, <1>8
<1>11. pk = <<Pointer>> \o k
  BY <1>2, <1>3, <1>4
<1>12. npk = <<None>> \o pk
  BY <1>2, <1>4, <1>5
<1>13. knpk = <<Keyboard>> \o npk
  BY <1>2, <1>5, <1>6
<1>14. pknpk = <<Pointer>> \o knpk
  BY <1>2, <1>6, <1>7
<1>15. Lefts = {pknpk, knpk, npk, pk, k, e}
  BY <1>3, <1>4, <1>5, <1>6, <1>7, <1>8 DEF Lefts
<1>16. DOMAIN pk = 1 .. 2 /\ pk[1] = Pointer /\ pk[2] = Keyboard
  BY <1>4
<1>17. \A d \in Devices : \E j \in DOMAIN pk : pk[j] = d
  BY <1>16 DEF Devices
<1>18. CASE l = npk
  <2>1. l \in Seq(Devices \cup {None}) /\ Tail(l) = pk
    BY <1>1, <1>2, <1>9, <1>12, <1>18
  <2> QED BY <1>15, <1>17, <2>1
<1>19. CASE l = k
  BY <1>1, <1>2, <1>9, <1>10, <1>15, <1>19
<1>20. CASE l = pk
  BY <1>1, <1>2, <1>9, <1>11, <1>15, <1>20
<1>21. CASE l = knpk
  BY <1>1, <1>2, <1>9, <1>13, <1>15, <1>21
<1>22. CASE l = pknpk
  BY <1>1, <1>2, <1>9, <1>14, <1>15, <1>22
<1> QED BY <1>8, <1>15, <1>18, <1>19, <1>20, <1>21, <1>22

(* The window on top of the stack has one thing less to do.                *)
LEMMA WindowStacks ==
    ASSUME TypeOK, StackInv, stack # <<>>, Head(stack).call = "window", Head(stack).left # <<>>,
           NEW rest, rest = <<[Head(stack) EXCEPT !.left = Tail(@)]>> \o Tail(stack)
    PROVE  /\ Rest(rest)
           /\ \A d : Leaves(stack, d) => d = Head(Head(stack).left) \/ Leaves(rest, d)
           /\ Head(Head(stack).left) = None => \A d \in Devices : Leaves(rest, d)
<1>1. PICK f : f = Head(stack)
  OBVIOUS
<1>2. PICK t : t = Tail(stack)
  OBVIOUS
<1>3. PICK h : h = [f EXCEPT !.left = Tail(@)]
  OBVIOUS
<1>4. /\ stack \in Seq(Frames) /\ f \in Frames /\ f = stack[1] /\ 1 \in DOMAIN stack
      /\ t \in Seq(Frames)
  BY <1>1, <1>2, TailOf DEF TypeOK
<1>5. f.left \in Lefts
  BY <1>1, <1>4 DEF StackInv, Nested
<1>6. /\ f.left \in Seq(Devices \cup {None}) /\ Tail(f.left) \in Lefts
      /\ Head(f.left) = None =>
            \A d \in Devices : \E j \in DOMAIN Tail(f.left) : Tail(f.left)[j] = d
  BY <1>1, <1>5, LeftsTail
<1>7. Tail(f.left) \in Seq(Devices \cup {None})
  BY <1>1, <1>6, TailOf
<1>8. f \in [call: {"window"}, left: Seq(Devices \cup {None})]
  BY <1>1, <1>4 DEF Frames
<1>9. h \in Frames /\ h.call = "window" /\ h.left = Tail(f.left)
  BY <1>3, <1>7, <1>8 DEF Frames
<1>10. rest = <<h>> \o t
  BY <1>1, <1>2, <1>3
<1>11. Rest(t)
  BY <1>1, <1>2, RestTail
<1>12. rest \in Seq(Frames) /\ Head(rest) = h /\ Tail(rest) = t /\ rest # <<>>
  <2>1. \A x, r : x \in Frames /\ r \in Seq(Frames) =>
          /\ <<x>> \o r \in Seq(Frames) /\ <<x>> \o r # <<>>
          /\ Head(<<x>> \o r) = x /\ Tail(<<x>> \o r) = r
    OBVIOUS
  <2>2. /\ <<h>> \o t \in Seq(Frames) /\ <<h>> \o t # <<>>
        /\ Head(<<h>> \o t) = h /\ Tail(<<h>> \o t) = t
    BY <1>4, <1>9, <2>1
  <2> QED BY <1>10, <2>2
<1>13. Nested(rest)
  <2>1. Nested(t)
    BY <1>11 DEF Rest
  <2>2. h.left \in Lefts
    BY <1>6, <1>9
  <2>3. Nested(<<h>> \o t)
    BY <1>4, <1>9, <2>1, <2>2, NestedPush
  <2> QED BY <1>10, <2>3
<1>14. Returned(rest)
  <2>1. Returned(Tail(rest)) /\ Head(rest).call = "window"
    BY <1>9, <1>11, <1>12 DEF Rest
  <2> QED BY <1>12, <2>1, ReturnedWhole
<1>15. /\ Plays(t) <=> Plays(rest)
       /\ Gives(t) <=> Gives(rest)
       /\ \A d : Leaves(t, d) => Leaves(rest, d)
       /\ \A d : (\E j \in DOMAIN h.left : h.left[j] = d) => Leaves(rest, d)
  BY <1>4, <1>9, <1>10, PushKeeps
<1>16. /\ GivenFirst(t, pending) => GivenFirst(rest, pending)
       /\ GivenBefore(t, arrived) => GivenBefore(rest, arrived)
  BY <1>4, <1>9, <1>10, GivenPush
<1>17. Rest(rest)
  BY <1>11, <1>12, <1>13, <1>14, <1>15, <1>16 DEF Rest
<1>18. ASSUME NEW d, Leaves(stack, d)
       PROVE  d = Head(f.left) \/ Leaves(rest, d)
  <2>1. PICK i \in DOMAIN stack :
          stack[i].call = "window" /\ \E j \in DOMAIN stack[i].left : stack[i].left[j] = d
    BY <1>18 DEF Leaves
  <2>2. CASE i = 1
    <3>1. PICK j \in DOMAIN f.left : f.left[j] = d
      BY <1>4, <2>1, <2>2
    <3>2. /\ DOMAIN f.left = 1 .. Len(f.left) /\ DOMAIN Tail(f.left) = 1 .. Len(f.left) - 1
          /\ Len(f.left) \in Nat /\ Head(f.left) = f.left[1]
          /\ \A k \in DOMAIN Tail(f.left) : Tail(f.left)[k] = f.left[k + 1]
      BY <1>1, <1>6, TailOf
    <3>3. CASE j = 1
      BY <3>1, <3>2, <3>3
    <3>4. CASE j # 1
      <4>1. j - 1 \in DOMAIN h.left /\ (j - 1) + 1 = j
        BY <1>9, <3>2, <3>4
      <4>2. h.left[j - 1] = d
        BY <1>9, <3>1, <3>2, <4>1
      <4> QED BY <1>15, <4>1, <4>2
    <3> QED BY <3>3, <3>4
  <2>3. CASE i # 1
    <3>1. /\ DOMAIN stack = 1 .. Len(stack) /\ DOMAIN t = 1 .. Len(stack) - 1 /\ Len(stack) \in Nat
          /\ \A k \in DOMAIN t : t[k] = stack[k + 1]
      BY <1>2, <1>4, TailOf
    <3>2. i - 1 \in DOMAIN t /\ (i - 1) + 1 = i
      BY <2>3, <3>1
    <3>3. t[i - 1] = stack[i]
      BY <3>1, <3>2
    <3>4. Leaves(t, d)
      BY <2>1, <3>2, <3>3 DEF Leaves
    <3> QED BY <1>15, <3>4
  <2> QED BY <2>2, <2>3
<1>19. ASSUME Head(f.left) = None, NEW d \in Devices
       PROVE  Leaves(rest, d)
  BY <1>6, <1>9, <1>15, <1>19
<1> QED BY <1>1, <1>17, <1>18, <1>19

LEMMA DeleteWindowStep ==
    ASSUME IInv, DeleteWindow
    PROVE  IInv' /\ Grabbing(dev')
<1> DEFINE left == Head(stack).left
           rest == <<[Head(stack) EXCEPT !.left = Tail(@)]>> \o Tail(stack)
<1>1. /\ stack # <<>> /\ stack \in Seq(Frames) /\ Tail(stack) \in Seq(Frames)
      /\ Head(stack) \in Frames /\ Head(stack).call = "window"
      /\ Nested(stack) /\ Nested(Tail(stack)) /\ Returned(Tail(stack))
  BY CallingFacts DEF DeleteWindow
<1>2. UNCHANGED <<down, physical, pending, pendtail, gone, arrived, seen, cut>>
  BY DEF DeleteWindow
<1>3. /\ top \in {Depth - 1, Depth} /\ passive \subseteq PassiveGrabs /\ gone' \subseteq Clients
      /\ TypeOK /\ StackInv /\ Depth \in Nat /\ Depth - 1 < Depth /\ ~(Depth < Depth)
  BY <1>2, DeviceGrabsAssumption DEF IInv, TypeOK
<1>4. CASE left = <<>>
  <2>1. passive' \subseteq passive /\ stack' = Tail(stack) /\ dev' = dev /\ top' = top
    BY <1>4 DEF DeleteWindow
  <2>2. Rest(Tail(stack))
    BY <1>1, <1>3, RestTail
  <2>3. /\ stack' \in Seq(Frames) /\ StackInv'
        /\ Plays(stack) => Plays(stack')
        /\ Gives(stack') <=> Gives(stack)
        /\ GivenFirst(stack, pending) => GivenFirst(stack', pending)
        /\ GivenBefore(stack, arrived) => GivenBefore(stack', arrived)
    BY <2>1, <2>2, RestStacks
  <2>4. ASSUME NEW d, Leaves(stack, d)
        PROVE  Leaves(Tail(stack), d)
    <3>1. PICK i \in DOMAIN stack :
            stack[i].call = "window" /\ \E j \in DOMAIN stack[i].left : stack[i].left[j] = d
      BY <2>4 DEF Leaves
    <3>2. /\ DOMAIN stack = 1 .. Len(stack) /\ DOMAIN Tail(stack) = 1 .. Len(stack) - 1
          /\ Len(stack) \in Nat /\ Head(stack) = stack[1]
          /\ \A k \in DOMAIN Tail(stack) : Tail(stack)[k] = stack[k + 1]
      BY <1>1, TailOf
    <3>3. i # 1
      BY <1>4, <3>1, <3>2
    <3>4. i - 1 \in DOMAIN Tail(stack) /\ (i - 1) + 1 = i
      BY <3>2, <3>3
    <3>5. Tail(stack)[i - 1] = stack[i]
      BY <3>2, <3>4
    <3> QED BY <3>1, <3>4, <3>5 DEF Leaves
  <2>5. WindowInv'
    BY <2>1, <2>4 DEF IInv, WindowInv
  <2>6. passive' \subseteq PassiveGrabs /\ top' \in {Depth - 1, Depth}
    BY <1>3, <2>1
  <2>7. UNCHANGED <<dev, down, physical, pending, pendtail, arrived, seen, cut>>
    BY <1>2, <2>1
  <2> QED BY <1>3, <2>3, <2>5, <2>6, <2>7, Restack
<1>5. CASE left # <<>>
  <2>1. /\ Rest(rest)
        /\ \A d : Leaves(stack, d) => d = Head(left) \/ Leaves(rest, d)
        /\ Head(left) = None => \A d \in Devices : Leaves(rest, d)
    BY <1>1, <1>3, <1>5, WindowStacks
  <2>2. stack' = rest =>
          /\ stack' \in Seq(Frames) /\ StackInv'
          /\ Plays(stack) => Plays(stack')
          /\ Gives(stack') <=> Gives(stack)
          /\ GivenFirst(stack, pending) => GivenFirst(stack', pending)
          /\ GivenBefore(stack, arrived) => GivenBefore(stack', arrived)
    <3> HIDE DEF rest
    <3> QED BY <2>1, RestStacks
  <2>3. CASE Head(left) = None
    <3>1. top' = Depth - 1 /\ stack' = rest /\ UNCHANGED <<dev, passive>>
      BY <1>5, <2>3 DEF DeleteWindow
    <3> HIDE DEF rest
    <3>2. WindowInv'
      BY <2>1, <2>3, <3>1 DEF WindowInv
    <3>3. passive' \subseteq PassiveGrabs /\ top' \in {Depth - 1, Depth}
      BY <1>3, <3>1
    <3>4. UNCHANGED <<dev, down, physical, pending, pendtail, arrived, seen, cut>>
      BY <1>2, <3>1
    <3> HIDE DEF left
    <3> QED BY <1>3, <2>2, <3>1, <3>2, <3>3, <3>4, Restack
  <2>4. CASE Head(left) # None
    <3> DEFINE d == Head(left)
               onIt == dev[d].grab # None /\ dev[d].grab.window = Depth
    <3>1. /\ IF onIt THEN ComputeFreezes(Deactivated(dev, d), <<>>, rest)
             ELSE stack' = rest /\ UNCHANGED dev
          /\ UNCHANGED <<top, passive>>
      BY <1>5, <2>4 DEF DeleteWindow
    <3>2. d \in Devices
      <4>1. left \in Seq(Devices \cup {None})
        BY <1>1, FrameKinds
      <4> QED BY <1>5, <2>4, <4>1, TailOf
    <3>3. passive' \subseteq PassiveGrabs /\ top' \in {Depth - 1, Depth}
      BY <1>3, <3>1
    <3> HIDE DEF rest, left
    <3>4. CASE onIt
      <4>1. Other(d) \in Devices
        BY <3>2, TwoDevices
      <4>2. WellGrabbed(dev) /\ OneFor(dev, Other(d), seen) /\ rest \in Seq(Frames)
        BY <2>1, <4>1 DEF IInv, DevInv, OneAtATime, Rest
      <4>3. Changed(rest) /\ OneAtATime(dev', seen) /\ dev'[d].grab = None
        BY <1>3, <3>1, <3>2, <3>4, <4>2, DeactivateKeeps
      <4>4. \A x \in Devices : dev'[x].grab # None /\ Leaves(stack, x) => Leaves(rest, x)
        BY <2>1, <4>3
      <4>5. UNCHANGED <<down, physical, pending, pendtail, arrived, seen, cut, top>>
        BY <1>2, <3>1
      <4> QED BY <1>3, <2>1, <3>3, <4>3, <4>4, <4>5, Regrab
    <3>5. CASE ~onIt
      <4>1. stack' = rest /\ UNCHANGED dev /\ UNCHANGED <<top, passive>>
        BY <3>1, <3>5
      <4>2. ASSUME NEW x \in Devices, dev[x].grab # None, dev[x].grab.window > top
            PROVE  Leaves(rest, x)
        <5>1. Leaves(stack, x)
          BY <4>2 DEF IInv, WindowInv
        <5>2. dev[x].grab \in Grabs
          <6>1. dev[x] \in Records
            BY DEF IInv, TypeOK, Records
          <6> QED BY <4>2, <6>1, RecordFields
        <5>3. dev[x].grab.window \in 1 .. Depth
          BY <5>2, GrabFields DEF Windows
        <5>4. dev[x].grab.window = Depth
          BY <1>3, <4>2, <5>3
        <5> QED BY <2>1, <3>5, <4>2, <5>1, <5>4
      <4>3. WindowInv'
        BY <4>1, <4>2 DEF WindowInv
      <4>4. UNCHANGED <<dev, down, physical, pending, pendtail, arrived, seen, cut>>
        BY <1>2, <4>1
      <4> QED BY <1>3, <2>2, <3>3, <4>1, <4>3, <4>4, Restack
    <3> QED BY <3>4, <3>5
  <2> QED BY <2>3, <2>4
<1> QED BY <1>4, <1>5

LEMMA ReplayEventStep ==
    ASSUME IInv, ReplayEvent
    PROVE  IInv' /\ Grabbing(dev')
<1> DEFINE ev == Head(stack).event
           first == Head(stack).window + 1
           rest == Tail(stack)
<1>1. /\ stack # <<>> /\ stack \in Seq(Frames) /\ Tail(stack) \in Seq(Frames)
      /\ Head(stack) \in Frames /\ Head(stack).call = "replay"
      /\ Nested(stack) /\ Nested(Tail(stack)) /\ Returned(Tail(stack))
  BY CallingFacts DEF ReplayEvent
<1>2. UNCHANGED <<down, physical, pending, pendtail, passive, top, gone, arrived, seen, cut>>
  BY DEF ReplayEvent
<1>3. /\ passive' \subseteq PassiveGrabs /\ gone' \subseteq Clients
      /\ TypeOK /\ StackInv /\ WellGrabbed(dev) /\ WellFrozen(dev) /\ OneAtATime(dev, seen)
  BY <1>2 DEF IInv, TypeOK, DevInv
<1>4. ev \in Events
  BY <1>1, FrameKinds
<1>5. seen[ev.device] = ev.id
  BY <1>1, <1>3 DEF StackInv, Calling
<1>6. StartPassiveGrab(ev, first, FALSE, rest) \/ DeliverUngrabbed(ev, rest)
  BY DEF ReplayEvent
<1>7. Rest(rest)
  BY <1>1, <1>3, RestTail
<1>8. \A d : Leaves(stack, d) => Leaves(rest, d)
  BY <1>1, TailKeeps
<1>9. rest \in Seq(Frames)
  BY <1>1
<1> HIDE DEF ev, first, rest
<1>10. Changed(rest) /\ OneAtATime(dev', seen)
  <2>1. CASE StartPassiveGrab(ev, first, FALSE, rest)
    BY <1>3, <1>4, <1>5, <1>9, <2>1, StartPassiveGrabKeeps
  <2>2. CASE DeliverUngrabbed(ev, rest)
    BY <1>3, <1>4, <1>9, <2>2, DeliverUngrabbedKeeps
  <2> QED BY <1>6, <2>1, <2>2
<1> QED BY <1>2, <1>3, <1>7, <1>8, <1>10, Regrab

---------------------------------------------------------------------------
(* The list of events held back.                                           *)

LEMMA Removed ==
    ASSUME NEW S, NEW s \in Seq(S), NEW i \in DOMAIN s
    PROVE  /\ RemoveAt(s, i) \in Seq(S) /\ Len(RemoveAt(s, i)) = Len(s) - 1
           /\ DOMAIN RemoveAt(s, i) = 1 .. Len(s) - 1
           /\ \A k \in 1 .. Len(s) - 1 : RemoveAt(s, i)[k] = IF k < i THEN s[k] ELSE s[k + 1]
<1> DEFINE n == Len(s)
           a == SubSeq(s, 1, i - 1)
           b == SubSeq(s, i + 1, n)
<1>1. n \in Nat /\ DOMAIN s = 1 .. n /\ i \in 1 .. n /\ \A k \in 1 .. n : s[k] \in S
  OBVIOUS
<1>2. /\ a \in Seq(S) /\ Len(a) = i - 1
      /\ \A k \in 1 .. i - 1 : a[k] = s[k]
  <2>1. \A k \in 1 .. i - 1 : s[k] \in S
    BY <1>1
  <2>2. /\ a \in Seq(S) /\ Len(a) = IF 1 <= i - 1 THEN (i - 1) - 1 + 1 ELSE 0
        /\ \A k \in 1 .. (i - 1) - 1 + 1 : a[k] = s[1 + k - 1]
    <3> HIDE DEF n
    <3> QED BY <1>1, <2>1, SubSeqProperties
  <2> HIDE DEF a, n
  <2>3. \A k \in 1 .. i - 1 : 1 + k - 1 = k
    OBVIOUS
  <2> QED BY <1>1, <2>2, <2>3
<1>3. /\ b \in Seq(S) /\ Len(b) = n - i
      /\ \A k \in 1 .. n - i : b[k] = s[i + k]
  <2>1. \A k \in i + 1 .. n : s[k] \in S
    BY <1>1
  <2>2. /\ b \in Seq(S) /\ Len(b) = IF i + 1 <= n THEN n - (i + 1) + 1 ELSE 0
        /\ \A k \in 1 .. n - (i + 1) + 1 : b[k] = s[(i + 1) + k - 1]
    <3> HIDE DEF n
    <3> QED BY <1>1, <2>1, SubSeqProperties
  <2> HIDE DEF b, n
  <2>3. \A k \in 1 .. n - i : (i + 1) + k - 1 = i + k
    BY <1>1
  <2> QED BY <1>1, <2>2, <2>3
<1>4. RemoveAt(s, i) = a \o b
  BY DEF RemoveAt
<1> HIDE DEF a, b, n
<1>5. /\ a \o b \in Seq(S) /\ Len(a \o b) = n - 1
      /\ DOMAIN (a \o b) = 1 .. n - 1
      /\ \A k \in 1 .. n - 1 : (a \o b)[k] = IF k < i THEN a[k] ELSE b[k - (i - 1)]
  <2>1. /\ a \o b \in Seq(S) /\ Len(a \o b) = Len(a) + Len(b)
        /\ \A k \in 1 .. Len(a) + Len(b) :
              (a \o b)[k] = IF k <= Len(a) THEN a[k] ELSE b[k - Len(a)]
    BY <1>2, <1>3, ConcatProperties
  <2>2. Len(a) + Len(b) = n - 1
    BY <1>1, <1>2, <1>3
  <2>3. \A k \in 1 .. n - 1 : (k <= i - 1) <=> (k < i)
    BY <1>1
  <2>4. DOMAIN (a \o b) = 1 .. Len(a \o b)
    BY <2>1
  <2> QED BY <1>2, <2>1, <2>2, <2>3, <2>4
<1>6. ASSUME NEW k \in 1 .. n - 1
      PROVE  (a \o b)[k] = IF k < i THEN s[k] ELSE s[k + 1]
  <2>1. CASE k < i
    BY <1>1, <1>2, <1>5, <1>6, <2>1
  <2>2. CASE ~(k < i)
    <3>1. k - (i - 1) \in 1 .. n - i /\ i + (k - (i - 1)) = k + 1
      BY <1>1, <1>6, <2>2
    <3> QED BY <1>3, <1>5, <1>6, <2>2, <3>1
  <2> QED BY <2>1, <2>2
<1> QED BY <1>4, <1>5, <1>6 DEF n

(* An event goes to the tail, or a motion takes the place of a motion.     *)
LEMMA Appended ==
    ASSUME NEW S, NEW s \in Seq(S), NEW e \in S, NEW t,
           t = Append(SubSeq(s, 1, Len(s)), e)
    PROVE  /\ t \in Seq(S) /\ Len(t) = Len(s) + 1 /\ DOMAIN t = 1 .. Len(t)
           /\ t[Len(t)] = e /\ \A i \in DOMAIN s : t[i] = s[i]
<1>1. SubSeq(s, 1, Len(s)) = s
  OBVIOUS
<1>2. t = Append(s, e)
  BY <1>1
<1> QED BY <1>2

LEMMA Replaced ==
    ASSUME NEW S, NEW s \in Seq(S), NEW e \in S, NEW t, s # <<>>, t = [s EXCEPT ![Len(s)] = e]
    PROVE  /\ t \in Seq(S) /\ Len(t) = Len(s) /\ DOMAIN t = 1 .. Len(t) /\ Len(s) > 0
           /\ t[Len(t)] = e /\ \A i \in DOMAIN s : i # Len(s) => t[i] = s[i]
OBVIOUS

LEMMA EnqueueEventFields ==
    ASSUME TypeOK, NEW ev \in Events, EnqueueEvent(ev)
    PROVE  /\ pending' \in Seq(Events) /\ pendtail' \in {Len(pending'), Len(pending') - 1} \cap Nat
           /\ DOMAIN pending' = 1 .. Len(pending') /\ pending'[Len(pending')] = ev
           /\ \/ /\ Len(pending') = Len(pending) + 1
                 /\ \A i \in DOMAIN pending : pending'[i] = pending[i]
              \/ /\ Len(pending') = Len(pending) /\ Len(pending) > 0
                 /\ \A i \in DOMAIN pending : i # Len(pending) => pending'[i] = pending[i]
                 /\ ev.kind = "Motion" /\ pending[Len(pending)].kind = "Motion"
<1>1. PICK n \in Nat : n = Len(pending)
  BY DEF TypeOK
<1>2. /\ pending \in Seq(Events) /\ DOMAIN pending = 1 .. n
      /\ pendtail \in {n, n - 1} /\ pendtail \in Nat
  BY <1>1 DEF TypeOK
<1>3. PICK at : at = IF pendtail = n THEN pendtail ELSE pendtail + 1
  OBVIOUS
<1>4. PICK t : t = pending'
  OBVIOUS
<1>5. \/ /\ ev.kind = "Motion" /\ pendtail # n /\ pending[pendtail + 1].kind = "Motion"
         /\ t = [pending EXCEPT ![pendtail + 1] = ev] /\ pendtail' = pendtail
      \/ t = Append(SubSeq(pending, 1, at), ev) /\ pendtail' = at
  BY <1>1, <1>3, <1>4 DEF EnqueueEvent
<1>6. CASE /\ ev.kind = "Motion" /\ pendtail # n /\ pending[pendtail + 1].kind = "Motion"
           /\ t = [pending EXCEPT ![pendtail + 1] = ev] /\ pendtail' = pendtail
  <2>1. pendtail = n - 1 /\ pendtail + 1 = n /\ n > 0
    BY <1>2, <1>6
  <2>2. t = [pending EXCEPT ![Len(pending)] = ev] /\ pending # <<>>
    BY <1>1, <1>2, <1>6, <2>1
  <2>3. /\ t \in Seq(Events) /\ Len(t) = Len(pending) /\ DOMAIN t = 1 .. Len(t)
        /\ t[Len(t)] = ev /\ \A i \in DOMAIN pending : i # Len(pending) => t[i] = pending[i]
    BY <1>2, <2>2, Replaced
  <2> QED BY <1>1, <1>4, <1>6, <2>1, <2>3
<1>7. CASE t = Append(SubSeq(pending, 1, at), ev) /\ pendtail' = at
  <2>1. at = Len(pending)
    BY <1>1, <1>2, <1>3
  <2>2. t = Append(SubSeq(pending, 1, Len(pending)), ev)
    BY <1>7, <2>1
  <2>3. /\ t \in Seq(Events) /\ Len(t) = Len(pending) + 1 /\ DOMAIN t = 1 .. Len(t)
        /\ t[Len(t)] = ev /\ \A i \in DOMAIN pending : t[i] = pending[i]
    BY <1>2, <2>2, Appended
  <2>4. pendtail' = Len(t) - 1 /\ pendtail' \in Nat
    BY <1>1, <1>7, <2>1, <2>3
  <2> QED BY <1>4, <2>3, <2>4
<1> QED BY <1>5, <1>6, <1>7

NatLess == {ss \in Nat \X Nat : ss[1] < ss[2]}

(* Every set of natural numbers that is not empty has a least one: the     *)
(* form in which induction over numbers is used here.                      *)
LEMMA LeastExists ==
    ASSUME NEW T, T \subseteq Nat, T # {}
    PROVE  \E x \in T : \A y \in T : x <= y
<1>1. IsWellFoundedOn(NatLess, Nat)
  BY NatLessThanWellFounded DEF OpToRel, NatLess
<1>2. PICK x \in T : \A y \in T : ~ (<<y, x>> \in NatLess)
  BY <1>1, WFMin
<1>3. ASSUME NEW y \in T PROVE x <= y
  <2>1. y \in Nat /\ x \in Nat
    OBVIOUS
  <2>2. y < x => <<y, x>> \in NatLess
    BY <2>1 DEF NatLess
  <2> QED BY <1>2, <2>1, <2>2
<1> QED BY <1>3

(* What PlayReleasedEvents plays is the first event of its device.         *)
LEMMA PlayableFirst ==
    ASSUME TypeOK, Playable # {}
    PROVE  /\ Min(Playable) \in DOMAIN pending
           /\ ~dev[pending[Min(Playable)].device].frozen
           /\ \A j \in DOMAIN pending :
                j < Min(Playable) => pending[j].device # pending[Min(Playable)].device
<1>1. DOMAIN pending = 1 .. Len(pending) /\ Len(pending) \in Nat
  BY PendingTypes
<1>2. Playable \subseteq DOMAIN pending /\ Playable \subseteq Nat
  BY <1>1 DEF Playable
<1>3. \E x \in Playable : \A y \in Playable : x =< y
  BY <1>2, LeastExists
<1>4. Min(Playable) \in Playable /\ \A y \in Playable : Min(Playable) =< y
  BY <1>3 DEF Min
<1>5. PICK i : i = Min(Playable)
  OBVIOUS
<1>6. i \in DOMAIN pending /\ ~dev[pending[i].device].frozen
  BY <1>4, <1>5 DEF Playable
<1>7. ASSUME NEW j \in DOMAIN pending, j < i
      PROVE  pending[j].device # pending[i].device
  <2>1. j \notin Playable
    BY <1>1, <1>4, <1>5, <1>6, <1>7
  <2> QED BY <1>6, <1>7, <2>1 DEF Playable
<1> QED BY <1>5, <1>6, <1>7

LEMMA UnlinkFields ==
    ASSUME TypeOK, NEW i \in DOMAIN pending, Unlink(i)
    PROVE  /\ pending' \in Seq(Events) /\ pendtail' \in {Len(pending'), Len(pending') - 1} \cap Nat
           /\ DOMAIN pending' = 1 .. Len(pending) - 1 /\ DOMAIN pending = 1 .. Len(pending)
           /\ Len(pending) \in Nat
           /\ \A k \in DOMAIN pending' : pending'[k] = IF k < i THEN pending[k] ELSE pending[k + 1]
<1>1. PICK n \in Nat : n = Len(pending)
  BY DEF TypeOK
<1>2. /\ pending \in Seq(Events) /\ DOMAIN pending = 1 .. n
      /\ pendtail \in {n, n - 1} /\ pendtail \in Nat
  BY <1>1 DEF TypeOK
<1>3. PICK t : t = pending'
  OBVIOUS
<1>4. t = RemoveAt(pending, i)
  BY <1>3 DEF Unlink
<1>5. pendtail' = IF pendtail \in {i - 1, i} THEN i - 1 ELSE pendtail - 1
  BY DEF Unlink
<1>6. /\ t \in Seq(Events) /\ Len(t) = n - 1 /\ DOMAIN t = 1 .. n - 1
      /\ \A k \in 1 .. n - 1 : t[k] = IF k < i THEN pending[k] ELSE pending[k + 1]
  BY <1>1, <1>2, <1>4, Removed
<1>7. i \in 1 .. n
  BY <1>2
<1>8. pendtail' \in {n - 1, n - 2} /\ pendtail' \in Nat
  BY <1>2, <1>5, <1>7
<1>9. n - 2 = (n - 1) - 1
  OBVIOUS
<1> QED BY <1>1, <1>2, <1>3, <1>6, <1>8, <1>9

---------------------------------------------------------------------------
(* Events that are processed.                                              *)

LEMMA RepeatStack ==
    ASSUME NEW ev \in Events, ev.device = Keyboard, ev.kind = "Press",
           NEW rest \in Seq(Frames), Nested(rest), Returned(rest),
           stack' = RepeatFrames(ev) \o rest, NEW held, NEW n
    PROVE  /\ stack' \in Seq(Frames) /\ StackInv'
           /\ Plays(stack') <=> Plays(rest)
           /\ Gives(stack')
           /\ \A d : Leaves(rest, d) => Leaves(stack', d)
           /\ /\ GivenFirst(rest, held)
              /\ \A j \in DOMAIN held : held[j].device = Keyboard => ev.id < held[j].id
              /\ ~Plays(rest) => \A j \in DOMAIN held : held[j].device # Keyboard
              => GivenFirst(stack', held)
           /\ GivenBefore(rest, n) /\ ev.id <= n => GivenBefore(stack', n)
<1>1. PICK r : r = [ev EXCEPT !.kind = "Release"]
  OBVIOUS
<1>2. r \in Events /\ r.device = Keyboard /\ r.kind = "Release" /\ r.id = ev.id
  BY <1>1 DEF Events, Kinds
<1>3. PICK f : f = GiveFrame(r)
  OBVIOUS
<1>4. PICK g : g = GiveFrame(ev)
  OBVIOUS
<1>5. /\ f \in Frames /\ f.call = "give" /\ f.event = r
      /\ g \in Frames /\ g.call = "give" /\ g.event = ev
  BY <1>2, <1>3, <1>4 DEF GiveFrame, Frames
<1>6. PICK s : s = <<g>> \o rest
  OBVIOUS
<1>7. s \in Seq(Frames) /\ Head(s) = g /\ Tail(s) = rest /\ s # <<>>
  BY <1>5, <1>6, Frame1
<1>8. stack' = <<f>> \o s
  <2>1. RepeatFrames(ev) = <<f, g>>
    BY <1>1, <1>3, <1>4 DEF RepeatFrames
  <2>2. <<f, g>> = <<f>> \o <<g>>
    OBVIOUS
  <2>3. <<f>> \in Seq(Frames) /\ <<g>> \in Seq(Frames)
    BY <1>5
  <2>4. (<<f>> \o <<g>>) \o rest = <<f>> \o (<<g>> \o rest)
    BY <2>3, ConcatAssociative
  <2> QED BY <1>6, <2>1, <2>2, <2>4
<1>9. stack' \in Seq(Frames) /\ Head(stack') = f /\ Tail(stack') = s /\ stack' # <<>>
  BY <1>5, <1>7, <1>8, Frame1
<1>10. StackInv'
  <2>1. Nested(s)
    BY <1>5, <1>6, NestedPush
  <2>2. Nested(stack')
    BY <1>2, <1>5, <1>7, <1>8, <2>1, NestedPush
  <2>3. Returned(s)
    BY <1>5, <1>7, ReturnedWhole
  <2> QED BY <1>5, <1>9, <2>2, <2>3 DEF StackInv, Calling
<1>11. /\ Plays(s) <=> Plays(rest)
       /\ \A d : Leaves(rest, d) => Leaves(s, d)
  BY <1>5, <1>6, PushKeeps
<1>12. /\ Plays(stack') <=> Plays(s)
       /\ Gives(stack')
       /\ \A d : Leaves(s, d) => Leaves(stack', d)
  BY <1>5, <1>7, <1>8, PushKeeps
<1>13. ASSUME GivenFirst(rest, held),
              \A j \in DOMAIN held : held[j].device = Keyboard => ev.id < held[j].id,
              ~Plays(rest) => \A j \in DOMAIN held : held[j].device # Keyboard
       PROVE  GivenFirst(stack', held)
  <2>1. g.event.id <= g.event.id /\ f.event.id = g.event.id
    BY <1>2, <1>5 DEF Events, Ids
  <2>2. GivenFirst(s, held)
    BY <1>5, <1>6, <1>13, <2>1, GivenPush
  <2>3. GivenFirst(<<f>> \o s, held)
    BY <1>2, <1>5, <1>7, <1>11, <1>13, <2>1, <2>2, GivenPush
  <2> QED BY <1>8, <2>3
<1>14. ASSUME GivenBefore(rest, n), ev.id <= n
       PROVE  GivenBefore(stack', n)
  <2>1. GivenFirst(rest, <<>>) /\ DOMAIN <<>> = {}
    BY DEF GivenFirst
  <2>2. GivenBefore(s, n)
    BY <1>5, <1>6, <1>14, <2>1, GivenPush
  <2>3. GivenBefore(<<f>> \o s, n)
    BY <1>2, <1>5, <1>7, <1>14, <2>1, <2>2, GivenPush
  <2> QED BY <1>8, <2>3
<1> QED BY <1>9, <1>10, <1>11, <1>12, <1>13, <1>14

(* What is true of the rest when an event was processed, whatever its      *)
(* order.                                                                  *)
LEMMA Processed ==
    ASSUME IInv, NEW ev \in Events, NEW rest \in Seq(Frames), Nested(rest), Returned(rest),
           ~dev[ev.device].frozen, ProcessEvent(ev, rest),
           Plays(stack) => Plays(rest), pending' = pending \/ Plays(rest),
           \A d : Leaves(stack, d) => Leaves(rest, d),
           UNCHANGED <<passive, top, gone>>,
           arrived' \in Ids, physical' \in [Devices -> BOOLEAN], cut' \in BOOLEAN,
           pending' \in Seq(Events),
           pendtail' \in {Len(pending'), Len(pending') - 1} \cap Nat,
           OrderInv'
    PROVE  IInv' /\ Grabbing(dev')
<1>1. TypeOK /\ DevInv /\ HeldBackInv /\ WindowInv
  BY DEF IInv
<1>2. /\ OneAtATime(dev', seen') /\ seen' \in [Devices -> Ids] /\ down' \in [Devices -> BOOLEAN]
      /\ \/ /\ Repeated(ev) /\ stack' = RepeatFrames(ev) \o rest
            /\ dev' = dev /\ down' = down /\ seen' = seen
         \/ /\ ~Repeated(ev) /\ Changed(rest)
            /\ seen' = [seen EXCEPT ![ev.device] = ev.id] /\ Known(ev)
  BY <1>1, ProcessEventKeeps
<1>3. passive' \subseteq PassiveGrabs /\ gone' \subseteq Clients /\ top' \in {Depth - 1, Depth}
  BY <1>1 DEF TypeOK
<1>4. \A i \in DOMAIN pending : pending[i].device \in Devices
  BY <1>1, PendingTypes
<1>5. CASE Repeated(ev) /\ stack' = RepeatFrames(ev) \o rest /\ dev' = dev
  <2>1. ev.device = Keyboard /\ ev.kind = "Press"
    BY <1>5 DEF Repeated
  <2>2. /\ stack' \in Seq(Frames) /\ StackInv'
        /\ Plays(stack') <=> Plays(rest)
        /\ \A d : Leaves(rest, d) => Leaves(stack', d)
    BY <1>5, <2>1, RepeatStack
  <2>3. TypeOK'
    BY <1>1, <1>2, <1>3, <1>5, <2>2 DEF TypeOK
  <2>4. DevInv'
    BY <1>1, <1>2, <1>5 DEF DevInv, WellGrabbed, WellFrozen
  <2>5. HeldBackInv'
    BY <1>1, <1>5, <2>2 DEF HeldBackInv
  <2>6. WindowInv'
    BY <1>1, <1>5, <2>2 DEF WindowInv
  <2>7. Grabbing(dev')
    BY <1>5 DEF Grabbing
  <2> QED BY <2>2, <2>3, <2>4, <2>5, <2>6, <2>7 DEF IInv
<1>6. CASE Changed(rest)
  <2>1. /\ stack' \in Seq(Frames) /\ StackInv'
        /\ Plays(rest) => Plays(stack')
        /\ \A d : Leaves(rest, d) => Leaves(stack', d)
    BY <1>6, ChangedStack
  <2>2. TypeOK'
    BY <1>2, <1>3, <1>6, <2>1 DEF TypeOK, Changed, Records
  <2>3. DevInv'
    BY <1>2, <1>6 DEF DevInv, Changed
  <2>4. HeldBackInv'
    <3>1. CASE Plays(stack')
      BY <3>1 DEF HeldBackInv
    <3>2. CASE ~Plays(stack')
      <4>1. pending' = pending /\ ~Plays(stack)
        BY <2>1, <3>2
      <4>2. \A i \in DOMAIN pending : dev[pending[i].device].frozen
        BY <1>1, <4>1 DEF HeldBackInv
      <4>3. pending = <<>> \/ \A x \in Devices : dev[x].frozen => dev'[x].frozen
        BY <1>6, <3>2 DEF Changed
      <4>4. \A i \in DOMAIN pending : dev'[pending[i].device].frozen
        BY <1>4, <4>2, <4>3
      <4> QED BY <4>1, <4>4 DEF HeldBackInv
    <3> QED BY <3>1, <3>2
  <2>5. ASSUME NEW d \in Devices, dev'[d].grab # None, dev'[d].grab.window > top
        PROVE  Leaves(stack', d)
    <3>1. CASE dev'[d].grab = dev[d].grab
      BY <1>1, <2>1, <2>5, <3>1 DEF WindowInv
    <3>2. CASE dev'[d].grab # dev[d].grab
      <4>1. dev'[d].grab \in Grabs /\ top \in Nat
        <5>1. dev'[d] \in Records
          BY <1>6 DEF Changed
        <5>2. top \in Nat
          BY <1>1, DeviceGrabsAssumption DEF TypeOK
        <5> QED BY <2>5, <5>1, <5>2, RecordFields
      <4>2. dev'[d].grab.window \in Nat
        BY <4>1, GrabFields, DeviceGrabsAssumption DEF Windows
      <4>3. dev'[d].grab.window <= top
        BY <1>6, <2>5, <3>2 DEF Changed, Grabbing
      <4> QED BY <2>5, <4>1, <4>2, <4>3
    <3> QED BY <3>1, <3>2
  <2>6. WindowInv'
    BY <2>5 DEF WindowInv
  <2>7. Grabbing(dev')
    BY <1>6 DEF Changed
  <2> QED BY <2>1, <2>2, <2>3, <2>4, <2>6, <2>7 DEF IInv
<1> QED BY <1>2, <1>5, <1>6

(* An event of a device that is not frozen: nothing of it is held back.    *)
LEMMA ArrivedOrder ==
    ASSUME IInv, NEW ev \in Events, stack = <<>>, ~dev[ev.device].frozen, ProcessEvent(ev, <<>>),
           ev.id = arrived + 1, arrived' = arrived + 1, pending' = pending, cut' = cut,
           physical' = CASE ev.kind = "Press"   -> [physical EXCEPT ![ev.device] = TRUE]
                         [] ev.kind = "Release" -> [physical EXCEPT ![ev.device] = FALSE]
                         [] OTHER               -> physical
    PROVE  OrderInv'
<1> DEFINE d == ev.device
<1>1. /\ TypeOK /\ DevInv /\ OrderInv /\ d \in Devices /\ ev.kind \in Kinds /\ arrived \in Nat
      /\ seen \in [Devices -> Ids] /\ Ids \subseteq Nat
  BY EventFields, DeviceGrabsAssumption DEF IInv, TypeOK, Ids
<1>2. /\ \A x \in Devices : x # d => physical'[x] = physical[x]
      /\ ev.kind = "Press" => physical'[d]
      /\ ev.kind = "Release" => ~physical'[d]
      /\ ev.kind = "Motion" => physical'[d] = physical[d]
  <2>1. physical \in [Devices -> BOOLEAN]
    BY <1>1 DEF TypeOK
  <2>2. /\ ev.kind = "Press" => physical' = [physical EXCEPT ![d] = TRUE]
        /\ ev.kind = "Release" => physical' = [physical EXCEPT ![d] = FALSE]
        /\ ev.kind = "Motion" => physical' = physical
    OBVIOUS
  <2> QED BY <1>1, <2>1, <2>2
<1>3. \A i \in DOMAIN pending : pending[i].device # d
  <2>1. ~Plays(stack)
    BY DEF Plays
  <2> QED BY <2>1 DEF IInv, HeldBackInv
<1>4. \A i \in DOMAIN pending : pending[i].device \in Devices /\ pending[i].id \in Nat
  BY <1>1, PendingTypes
<1>5. ~Gives(stack) /\ GivenFirst(<<>>, pending) /\ GivenBefore(<<>>, arrived + 1) /\ ~Gives(<<>>)
  BY DEF Gives, GivenFirst, GivenBefore
<1>6. <<>> \in Seq(Frames) /\ Nested(<<>>) /\ Returned(<<>>)
  BY DEF Nested, Returned
<1>7. \/ /\ Repeated(ev) /\ stack' = RepeatFrames(ev) \o <<>>
         /\ dev' = dev /\ down' = down /\ seen' = seen
      \/ /\ ~Repeated(ev) /\ Changed(<<>>)
         /\ seen' = [seen EXCEPT ![d] = ev.id] /\ Known(ev)
  BY <1>1, <1>6, ProcessEventKeeps
<1>8. /\ \A x \in Devices : seen[x] <= arrived
      /\ \A i \in DOMAIN pending : pending[i].id <= arrived
  BY <1>1 DEF OrderInv, Numbered
<1>9. /\ \A x \in Devices : seen[x] <= arrived + 1
      /\ \A i \in DOMAIN pending : pending[i].id <= arrived + 1
  BY <1>1, <1>4, <1>8
<1>10. ~cut => PendingInOrder /\ HeldTruth
  BY <1>1 DEF OrderInv
<1>11. CASE /\ Repeated(ev) /\ stack' = RepeatFrames(ev) \o <<>>
            /\ dev' = dev /\ down' = down /\ seen' = seen
  <2>1. ev.kind = "Press" /\ d = Keyboard
    BY <1>11 DEF Repeated
  <2>2. /\ Gives(stack') /\ GivenBefore(stack', arrived + 1) /\ GivenFirst(stack', pending)
    <3>1. ev.id <= arrived + 1
      BY <1>1
    <3> HIDE DEF d
    <3> QED BY <1>3, <1>5, <1>6, <1>11, <2>1, <3>1, RepeatStack DEF d
  <2>3. Numbered'
    BY <1>9, <1>11, <2>2 DEF Numbered
  <2>4. ASSUME ~cut
        PROVE  PendingInOrder' /\ HeldTruth'
    <3>1. PendingInOrder'
      BY <1>10, <1>11, <2>4 DEF PendingInOrder
    <3>2. HeldTruth'
      BY <1>2, <1>3, <1>5, <1>10, <1>11, <2>1, <2>2, <2>4 DEF HeldTruth, LastHeld, NoneHeld
    <3> QED BY <3>1, <3>2
  <2> QED BY <2>2, <2>3, <2>4 DEF OrderInv
<1>12. CASE /\ ~Repeated(ev) /\ Changed(<<>>)
            /\ seen' = [seen EXCEPT ![d] = ev.id] /\ Known(ev)
  <2>1. /\ ~Gives(stack') /\ GivenFirst(stack', pending) /\ GivenBefore(stack', arrived + 1)
    BY <1>5, <1>6, <1>12, ChangedStack
  <2>2. seen'[d] = arrived + 1 /\ \A x \in Devices : x # d => seen'[x] = seen[x]
    BY <1>1, <1>12
  <2>3. Numbered'
    <3>1. \A x \in Devices : seen'[x] <= arrived + 1
      BY <1>1, <1>9, <2>2
    <3> QED BY <1>9, <2>1, <3>1 DEF Numbered
  <2>4. ASSUME ~cut
        PROVE  PendingInOrder' /\ HeldTruth'
    <3>1. PendingInOrder'
      BY <1>3, <1>4, <1>10, <2>2, <2>4 DEF PendingInOrder
    <3>2. ASSUME NEW x \in Devices, x # d
          PROVE  /\ \A i \in DOMAIN pending : LastHeld(i, x) =>
                      (physical'[x] <=> pending[i].kind = "Press")
                 /\ NoneHeld(x) => down'[x] = physical'[x]
      BY <1>2, <1>5, <1>10, <1>12, <2>4, <3>2 DEF HeldTruth, Known
    <3>3. down'[d] = physical'[d]
      <4>1. NoneHeld(d)
        BY <1>3 DEF NoneHeld
      <4>2. down[d] = physical[d]
        BY <1>1, <1>5, <1>10, <2>4, <4>1 DEF HeldTruth
      <4>3. /\ down \in [Devices -> BOOLEAN] /\ physical \in [Devices -> BOOLEAN]
            /\ down' \in [Devices -> BOOLEAN] /\ physical' \in [Devices -> BOOLEAN]
        <5>1. down' \in [Devices -> BOOLEAN]
          BY <1>1, <1>6, ProcessEventKeeps
        <5> QED BY <1>1, <5>1 DEF TypeOK
      <4> QED BY <1>1, <1>2, <1>12, <4>2, <4>3 DEF Known, Kinds
    <3>4. \A i \in DOMAIN pending : ~LastHeld(i, d)
      BY <1>3 DEF LastHeld
    <3>5. HeldTruth'
      <4>1. ASSUME NEW x \in Devices
            PROVE  /\ \A i \in DOMAIN pending : LastHeld(i, x) =>
                        (physical'[x] <=> pending[i].kind = "Press")
                   /\ NoneHeld(x) => down'[x] = physical'[x]
        BY <3>2, <3>3, <3>4
      <4>2. /\ \A i, x : LastHeld(i, x)' <=> LastHeld(i, x)
            /\ \A x : NoneHeld(x)' <=> NoneHeld(x)
        BY DEF LastHeld, NoneHeld
      <4> QED BY <2>1, <4>1, <4>2 DEF HeldTruth
    <3> QED BY <3>1, <3>5
  <2> QED BY <2>1, <2>3, <2>4 DEF OrderInv
<1> QED BY <1>7, <1>11, <1>12

(* An event of a frozen device joins those held back.                      *)
LEMMA HeldBackOrder ==
    ASSUME IInv, NEW ev \in Events, stack = <<>>, stack' = <<>>, EnqueueEvent(ev),
           ev.id = arrived + 1, arrived' = arrived + 1,
           UNCHANGED <<down, seen, cut>>,
           physical' = CASE ev.kind = "Press"   -> [physical EXCEPT ![ev.device] = TRUE]
                         [] ev.kind = "Release" -> [physical EXCEPT ![ev.device] = FALSE]
                         [] OTHER               -> physical
    PROVE  OrderInv'
<1> DEFINE d == ev.device
           n == Len(pending)
<1>1. /\ TypeOK /\ OrderInv /\ d \in Devices /\ ev.kind \in Kinds /\ arrived \in Nat
      /\ seen \in [Devices -> Ids] /\ Ids \subseteq Nat /\ physical \in [Devices -> BOOLEAN]
      /\ n \in Nat /\ DOMAIN pending = 1 .. n
  BY EventFields, DeviceGrabsAssumption DEF IInv, TypeOK, Ids
<1>2. /\ \A x \in Devices : x # d => physical'[x] = physical[x]
      /\ ev.kind = "Press" => physical'[d]
      /\ ev.kind = "Release" => ~physical'[d]
      /\ ev.kind = "Motion" => physical'[d] = physical[d]
  <2>1. /\ ev.kind = "Press" => physical' = [physical EXCEPT ![d] = TRUE]
        /\ ev.kind = "Release" => physical' = [physical EXCEPT ![d] = FALSE]
        /\ ev.kind = "Motion" => physical' = physical
    OBVIOUS
  <2> QED BY <1>1, <2>1
<1>3. \A i \in DOMAIN pending : pending[i].id \in Nat /\ pending[i].id <= arrived
  BY <1>1, PendingTypes DEF OrderInv, Numbered
<1>4. \A x \in Devices : seen[x] \in Nat /\ seen[x] <= arrived
  BY <1>1 DEF OrderInv, Numbered
<1>5. /\ ~Gives(stack) /\ ~Gives(stack')
      /\ GivenFirst(stack', pending') /\ GivenBefore(stack', arrived')
  BY DEF Gives, GivenFirst, GivenBefore
<1>6. ~cut => PendingInOrder /\ HeldTruth
  BY <1>1 DEF OrderInv
<1>7. PICK m \in Nat : m = Len(pending')
  BY <1>1, EnqueueEventFields
<1>8. /\ DOMAIN pending' = 1 .. m /\ pending'[m] = ev
      /\ \/ m = n + 1 /\ \A i \in 1 .. n : pending'[i] = pending[i]
         \/ /\ m = n /\ n > 0
            /\ \A i \in 1 .. n : i # n => pending'[i] = pending[i]
            /\ ev.kind = "Motion" /\ pending[n].kind = "Motion"
  BY <1>1, <1>7, EnqueueEventFields
<1>9. /\ m \in DOMAIN pending'
      /\ \A i \in DOMAIN pending' : i # m => i \in DOMAIN pending /\ i < m /\ pending'[i] = pending[i]
  BY <1>1, <1>7, <1>8
<1>10. Numbered'
  <2>1. \A i \in DOMAIN pending' : pending'[i].id <= arrived + 1
    BY <1>1, <1>3, <1>8, <1>9
  <2>2. \A x \in Devices : seen[x] <= arrived + 1
    BY <1>1, <1>4
  <2> QED BY <1>5, <2>1, <2>2 DEF Numbered
<1>11. ASSUME ~cut
       PROVE  PendingInOrder'
  <2>1. \A x \in Devices : seen[x] < ev.id
    BY <1>1, <1>4
  <2>2. \A i \in DOMAIN pending : pending[i].id < ev.id
    BY <1>1, <1>3
  <2>3. ASSUME NEW i \in DOMAIN pending', NEW j \in 1 .. i - 1,
               pending'[j].device = pending'[i].device
        PROVE  pending'[j].id < pending'[i].id
    <3>1. j \in DOMAIN pending' /\ j # m /\ j < i /\ j \in 1 .. i - 1
      BY <1>8, <1>9, <2>3
    <3>2. CASE i = m
      BY <1>8, <1>9, <2>2, <3>1, <3>2
    <3>3. CASE i # m
      BY <1>6, <1>9, <1>11, <2>3, <3>1, <3>3 DEF PendingInOrder
    <3> QED BY <3>2, <3>3
  <2>4. ASSUME NEW i \in DOMAIN pending'
        PROVE  seen[pending'[i].device] < pending'[i].id
    <3>1. CASE i = m
      BY <1>1, <1>8, <2>1, <3>1
    <3>2. CASE i # m
      BY <1>6, <1>9, <1>11, <3>2 DEF PendingInOrder
    <3> QED BY <3>1, <3>2
  <2> QED BY <2>3, <2>4 DEF PendingInOrder
<1>12. ASSUME ~cut, NEW x \in Devices
       PROVE  /\ \A i \in DOMAIN pending' : LastHeld(i, x)' =>
                     (physical'[x] <=> pending'[i].kind = "Press")
              /\ NoneHeld(x)' => down[x] = physical'[x]
  <2>1. /\ \A i \in DOMAIN pending : LastHeld(i, x) => (physical[x] <=> pending[i].kind = "Press")
        /\ NoneHeld(x) => down[x] = physical[x]
    BY <1>5, <1>6, <1>12 DEF HeldTruth
  <2>2. ASSUME NEW i \in DOMAIN pending', LastHeld(i, x)'
        PROVE  physical'[x] <=> pending'[i].kind = "Press"
    <3>1. /\ pending'[i].device = x /\ pending'[i].kind # "Motion"
          /\ \A j \in DOMAIN pending' : j > i /\ pending'[j].device = x => pending'[j].kind = "Motion"
      BY <2>2 DEF LastHeld
    <3>2. CASE i = m
      BY <1>1, <1>2, <1>8, <3>1, <3>2 DEF Kinds
    <3>3. CASE i # m
      <4>1. i \in DOMAIN pending /\ i < m /\ pending'[i] = pending[i]
        BY <1>9, <3>3
      <4>2. x = d => ev.kind = "Motion"
        BY <1>8, <1>9, <3>1, <4>1
      <4>3. physical'[x] = physical[x]
        BY <1>1, <1>2, <4>2
      <4>4. ASSUME NEW j \in DOMAIN pending, j > i, pending[j].device = x
            PROVE  pending[j].kind = "Motion"
        <5>1. CASE j # m
          <6>1. j \in DOMAIN pending' /\ pending'[j] = pending[j]
            BY <1>1, <1>8, <4>4, <5>1
          <6> QED BY <3>1, <4>4, <6>1
        <5>2. CASE j = m
          BY <1>1, <1>8, <4>4, <5>2
        <5> QED BY <5>1, <5>2
      <4>5. LastHeld(i, x)
        BY <3>1, <4>1, <4>4 DEF LastHeld
      <4> QED BY <2>1, <4>1, <4>3, <4>5
    <3> QED BY <3>2, <3>3
  <2>3. ASSUME NoneHeld(x)'
        PROVE  down[x] = physical'[x]
    <3>1. \A i \in DOMAIN pending' : pending'[i].device = x => pending'[i].kind = "Motion"
      BY <2>3 DEF NoneHeld
    <3>2. x = d => ev.kind = "Motion"
      BY <1>8, <1>9, <3>1
    <3>3. ASSUME NEW i \in DOMAIN pending, pending[i].device = x
          PROVE  pending[i].kind = "Motion"
      <4>1. CASE i # m
        <5>1. i \in DOMAIN pending' /\ pending'[i] = pending[i]
          BY <1>1, <1>8, <3>3, <4>1
        <5> QED BY <3>1, <3>3, <5>1
      <4>2. CASE i = m
        BY <1>1, <1>8, <3>3, <4>2
      <4> QED BY <4>1, <4>2
    <3>4. NoneHeld(x)
      BY <3>3 DEF NoneHeld
    <3> QED BY <1>1, <1>2, <2>1, <3>2, <3>4
  <2> QED BY <2>2, <2>3
<1>13. ~cut => HeldTruth'
  BY <1>5, <1>12 DEF HeldTruth
<1> QED BY <1>5, <1>10, <1>11, <1>13 DEF OrderInv

LEMMA DeviceEventStep ==
    ASSUME IInv, NEW d \in Devices, NEW kind \in Kinds, DeviceEvent(d, kind)
    PROVE  IInv' /\ Grabbing(dev')
<1> DEFINE ev == [device |-> d, kind |-> kind, id |-> arrived + 1]
<1>1. /\ TypeOK /\ OrderInv /\ DevInv /\ arrived \in Nat /\ MaxEvents \in Nat /\ arrived < MaxEvents
      /\ stack = <<>> /\ arrived' = arrived + 1 /\ UNCHANGED <<passive, top, gone, cut>>
      /\ ProcessInput(ev, <<>>)
  BY DeviceGrabsAssumption DEF IInv, TypeOK, Ids, DeviceEvent
<1>2. /\ ev \in Events /\ ev.device = d /\ ev.kind = kind /\ ev.id = arrived + 1
      /\ arrived' \in Ids
  BY <1>1 DEF Events, Ids
<1>3. physical' = CASE kind = "Press"   -> [physical EXCEPT ![d] = TRUE]
                    [] kind = "Release" -> [physical EXCEPT ![d] = FALSE]
                    [] OTHER            -> physical
  BY DEF DeviceEvent
<1>4. physical' \in [Devices -> BOOLEAN]
  <2>1. /\ kind = "Press" => physical' = [physical EXCEPT ![d] = TRUE]
        /\ kind = "Release" => physical' = [physical EXCEPT ![d] = FALSE]
        /\ kind = "Motion" => physical' = physical
    BY <1>3
  <2> QED BY <1>1, <2>1 DEF TypeOK, Kinds
<1> HIDE DEF ev
<1>5. CASE dev[d].frozen
  <2>1. EnqueueEvent(ev) /\ stack' = <<>> /\ UNCHANGED <<dev, down, seen>>
    BY <1>1, <1>2, <1>5 DEF ProcessInput
  <2>2. OrderInv'
    BY <1>1, <1>2, <1>3, <2>1, HeldBackOrder
  <2>3. /\ pending' \in Seq(Events) /\ pendtail' \in {Len(pending'), Len(pending') - 1} \cap Nat
    BY <1>1, <1>2, <2>1, EnqueueEventFields
  <2>4. TypeOK'
    BY <1>1, <1>2, <1>4, <2>1, <2>3 DEF TypeOK
  <2>5. DevInv'
    BY <1>1, <2>1 DEF DevInv, WellGrabbed, WellFrozen, OneAtATime, OneFor
  <2>6. StackInv'
    BY <1>1, <2>1 DEF IInv, StackInv, Calling
  <2>7. WindowInv'
    BY <1>1, <2>1 DEF IInv, WindowInv
  <2>8. \A i \in DOMAIN pending' : dev[pending'[i].device].frozen
    <3>1. \A i \in DOMAIN pending : dev[pending[i].device].frozen
      BY <1>1 DEF IInv, HeldBackInv, Plays
    <3>2. PICK n \in Nat : n = Len(pending) /\ DOMAIN pending = 1 .. n
      BY <1>1, PendingTypes
    <3>3. PICK m \in Nat : m = Len(pending')
      BY <2>3
    <3>4. /\ DOMAIN pending' = 1 .. m /\ pending'[m] = ev
          /\ \/ m = n + 1 /\ \A i \in 1 .. n : pending'[i] = pending[i]
             \/ m = n /\ n > 0 /\ \A i \in 1 .. n : i # n => pending'[i] = pending[i]
      BY <1>1, <1>2, <2>1, <3>2, <3>3, EnqueueEventFields
    <3>5. \A i \in DOMAIN pending' : i # m => i \in DOMAIN pending /\ pending'[i] = pending[i]
      BY <3>2, <3>3, <3>4
    <3> QED BY <1>2, <1>5, <3>1, <3>4, <3>5
  <2>9. HeldBackInv'
    BY <2>1, <2>8 DEF HeldBackInv
  <2>10. Grabbing(dev')
    BY <2>1 DEF Grabbing
  <2> QED BY <2>2, <2>4, <2>5, <2>6, <2>7, <2>9, <2>10 DEF IInv
<1>6. CASE ~dev[d].frozen
  <2>1. ProcessEvent(ev, <<>>) /\ UNCHANGED <<pending, pendtail>>
    BY <1>1, <1>2, <1>6 DEF ProcessInput
  <2>2. OrderInv'
    BY <1>1, <1>2, <1>3, <1>6, <2>1, ArrivedOrder
  <2>3. <<>> \in Seq(Frames) /\ Nested(<<>>) /\ Returned(<<>>)
    BY DEF Nested, Returned
  <2>4. /\ pending' \in Seq(Events) /\ pendtail' \in {Len(pending'), Len(pending') - 1} \cap Nat
        /\ cut' \in BOOLEAN
    BY <1>1, <2>1 DEF TypeOK
  <2>5. (Plays(stack) => Plays(<<>>)) /\ \A x : Leaves(stack, x) => Leaves(<<>>, x)
    BY <1>1
  <2>6. UNCHANGED <<passive, top, gone>>
    BY <1>1
  <2>7. ~dev[ev.device].frozen /\ pending' = pending
    BY <1>2, <1>6, <2>1
  <2> QED BY <1>2, <1>4, <2>1, <2>2, <2>3, <2>4, <2>5, <2>6, <2>7, Processed
<1> QED BY <1>5, <1>6

---------------------------------------------------------------------------
(* The halves of a repeated press, and the events that are played.         *)

(* A half that is processed: whatever is held back of the keyboard came    *)
(* later.                                                                  *)
LEMMA GivenOrder ==
    ASSUME IInv, Calling("give"), NEW ev \in Events, ev = Head(stack).event,
           ~dev[ev.device].frozen, ProcessEvent(ev, Tail(stack)),
           UNCHANGED <<pending, physical, arrived, cut>>
    PROVE  OrderInv'
<1> DEFINE rest == Tail(stack)
<1>1. /\ stack # <<>> /\ stack \in Seq(Frames) /\ rest \in Seq(Frames)
      /\ Head(stack).call = "give" /\ Nested(stack) /\ Nested(rest) /\ Returned(rest)
  BY CallingFacts
<1>2. /\ DOMAIN stack = 1 .. Len(stack) /\ Len(stack) \in Nat
      /\ 1 \in DOMAIN stack /\ stack[1] = Head(stack)
      /\ DOMAIN rest = 1 .. Len(stack) - 1
      /\ \A i \in DOMAIN rest : i + 1 \in DOMAIN stack /\ rest[i] = stack[i + 1]
  BY <1>1, TailOf
<1>3. ev.device = Keyboard /\ Gives(stack)
  BY <1>1, <1>2 DEF Nested, Gives
<1>4. ev.kind # "Press" => Gives(rest)
  <2>1. SUFFICES ASSUME ev.kind # "Press"
                 PROVE  Gives(rest)
    OBVIOUS
  <2>2. 1 + 1 \in DOMAIN stack /\ stack[1 + 1].call = "give"
    BY <1>1, <1>2, <2>1 DEF Nested
  <2>3. 1 \in DOMAIN rest /\ rest[1] = stack[1 + 1]
    BY <1>2, <2>2
  <2> QED BY <2>2, <2>3 DEF Gives
<1>5. /\ TypeOK /\ DevInv /\ OrderInv /\ arrived \in Nat /\ Ids \subseteq Nat
      /\ seen \in [Devices -> Ids] /\ ev.kind \in Kinds /\ ev.id \in Nat
      /\ Keyboard \in Devices
  BY EventFields, DeviceGrabsAssumption, TwoDevices DEF IInv, TypeOK, Ids
<1>6. GivenBefore(stack, arrived) /\ Numbered
  BY <1>5 DEF OrderInv, Numbered
<1>7. ev.id <= arrived
  BY <1>1, <1>2, <1>6 DEF GivenBefore
<1>8. GivenBefore(rest, arrived)
  BY <1>1, <1>6, GivenTail
<1>9. ~cut => PendingInOrder /\ GivenFirst(stack, pending) /\ HeldTruth
  BY <1>5 DEF OrderInv
<1>10. ~cut => GivenFirst(rest, pending)
  BY <1>1, <1>9, GivenTail
<1>11. ~cut => /\ \A j \in DOMAIN pending : pending[j].device = Keyboard => ev.id < pending[j].id
               /\ ~Plays(rest) => \A j \in DOMAIN pending : pending[j].device # Keyboard
  <2>1. SUFFICES ASSUME ~cut
                 PROVE  /\ \A j \in DOMAIN pending : pending[j].device = Keyboard => ev.id < pending[j].id
                        /\ ~Plays(rest) => \A j \in DOMAIN pending : pending[j].device # Keyboard
    OBVIOUS
  <2>2. /\ \A j \in DOMAIN pending : pending[j].device = Keyboard => stack[1].event.id < pending[j].id
        /\ (\A k \in DOMAIN stack : k > 1 => stack[k].call # "play") =>
             \A j \in DOMAIN pending : pending[j].device # Keyboard
    BY <1>1, <1>2, <1>9, <2>1 DEF GivenFirst
  <2>3. ASSUME ~Plays(rest), NEW k \in DOMAIN stack, k > 1
        PROVE  stack[k].call # "play"
    <3>1. k - 1 \in DOMAIN rest /\ (k - 1) + 1 = k
      BY <1>2, <2>3
    <3>2. rest[k - 1] = stack[k]
      BY <1>2, <3>1
    <3> QED BY <2>3, <3>1, <3>2 DEF Plays
  <2> QED BY <1>2, <2>2, <2>3
<1>12. \/ /\ Repeated(ev) /\ stack' = RepeatFrames(ev) \o rest
          /\ dev' = dev /\ down' = down /\ seen' = seen
       \/ /\ ~Repeated(ev) /\ Changed(rest)
          /\ seen' = [seen EXCEPT ![Keyboard] = ev.id] /\ Known(ev)
  BY <1>1, <1>3, <1>5, ProcessEventKeeps
<1>13. /\ \A i, x : LastHeld(i, x)' <=> LastHeld(i, x)
       /\ \A x : NoneHeld(x)' <=> NoneHeld(x)
  BY DEF LastHeld, NoneHeld
<1> HIDE DEF rest
<1>14. CASE /\ Repeated(ev) /\ stack' = RepeatFrames(ev) \o rest
            /\ dev' = dev /\ down' = down /\ seen' = seen
  <2>1. ev.kind = "Press"
    BY <1>14 DEF Repeated
  <2>2. Gives(stack') /\ GivenBefore(stack', arrived) /\ (~cut => GivenFirst(stack', pending))
    BY <1>1, <1>3, <1>7, <1>8, <1>10, <1>11, <1>14, <2>1, RepeatStack
  <2>3. Numbered'
    BY <1>6, <1>14, <2>2 DEF Numbered
  <2>4. ASSUME ~cut
        PROVE  PendingInOrder' /\ HeldTruth'
    <3>1. PendingInOrder'
      BY <1>9, <1>14, <2>4 DEF PendingInOrder
    <3>2. HeldTruth'
      BY <1>3, <1>9, <1>13, <1>14, <2>2, <2>4 DEF HeldTruth
    <3> QED BY <3>1, <3>2
  <2> QED BY <2>2, <2>3, <2>4 DEF OrderInv
<1>15. CASE /\ ~Repeated(ev) /\ Changed(rest)
            /\ seen' = [seen EXCEPT ![Keyboard] = ev.id] /\ Known(ev)
  <2>1. /\ Gives(stack') <=> Gives(rest)
        /\ GivenBefore(stack', arrived) /\ (~cut => GivenFirst(stack', pending))
    BY <1>1, <1>8, <1>10, <1>15, ChangedStack
  <2>2. seen'[Keyboard] = ev.id /\ \A x \in Devices : x # Keyboard => seen'[x] = seen[x]
    BY <1>5, <1>15
  <2>3. Numbered'
    <3>1. \A x \in Devices : seen'[x] <= arrived
      BY <1>6, <1>7, <2>2 DEF Numbered
    <3> QED BY <1>6, <2>1, <3>1 DEF Numbered
  <2>4. ASSUME ~cut
        PROVE  PendingInOrder' /\ HeldTruth'
    <3>1. PendingInOrder'
      <4>1. \A i \in DOMAIN pending : pending[i].device \in Devices
        BY <1>5, PendingTypes
      <4> QED BY <1>9, <1>11, <2>2, <2>4, <4>1 DEF PendingInOrder
    <3>2. ASSUME NEW x \in Devices, x # Keyboard
          PROVE  /\ \A i \in DOMAIN pending : LastHeld(i, x) =>
                      (physical[x] <=> pending[i].kind = "Press")
                 /\ NoneHeld(x) => down'[x] = physical[x]
      BY <1>3, <1>9, <1>15, <2>4, <3>2 DEF HeldTruth, Known
    <3>3. /\ \A i \in DOMAIN pending : LastHeld(i, Keyboard) =>
               (physical[Keyboard] <=> pending[i].kind = "Press")
          /\ NoneHeld(Keyboard) => physical[Keyboard]
      BY <1>3, <1>5, <1>9, <2>4 DEF HeldTruth
    <3>4. ~Gives(rest) => down'[Keyboard]
      BY <1>3, <1>4, <1>15 DEF Known
    <3>5. physical[Keyboard] \in BOOLEAN /\ down'[Keyboard] \in BOOLEAN
      <4>1. down' \in [Devices -> BOOLEAN]
        BY <1>1, <1>5, ProcessEventKeeps DEF rest
      <4> QED BY <1>5, <4>1 DEF TypeOK
    <3>6. HeldTruth'
      <4>1. ASSUME NEW x \in Devices
            PROVE  /\ \A i \in DOMAIN pending : LastHeld(i, x) =>
                        (physical[x] <=> pending[i].kind = "Press")
                   /\ NoneHeld(x) => IF x = Keyboard /\ Gives(stack') THEN physical[x]
                                     ELSE down'[x] = physical[x]
        BY <2>1, <3>2, <3>3, <3>4, <3>5
      <4> QED BY <1>13, <4>1 DEF HeldTruth
    <3> QED BY <3>1, <3>6
  <2> QED BY <2>1, <2>3, <2>4 DEF OrderInv
<1> QED BY <1>12, <1>14, <1>15

LEMMA GiveRepeatStep ==
    ASSUME IInv, GiveRepeat
    PROVE  IInv' /\ Grabbing(dev')
<1>1. PICK ev : ev = Head(stack).event
  OBVIOUS
<1>2. PICK rest : rest = Tail(stack)
  OBVIOUS
<1>3. /\ stack # <<>> /\ stack \in Seq(Frames) /\ rest \in Seq(Frames) /\ Calling("give")
      /\ Head(stack) \in Frames /\ Head(stack).call = "give"
      /\ Nested(stack) /\ Nested(rest) /\ Returned(rest)
  BY <1>2, CallingFacts DEF GiveRepeat
<1>4. ev \in Events
  BY <1>1, <1>3, FrameKinds
<1>5. ev.device = Keyboard
  <2>1. stack[1] = Head(stack) /\ 1 \in DOMAIN stack
    BY <1>3, TailOf
  <2> QED BY <1>1, <1>3, <2>1 DEF Nested
<1>6. /\ ProcessInput(ev, rest) /\ cut' = (cut \/ dev[Keyboard].frozen)
      /\ UNCHANGED <<physical, passive, top, gone, arrived>>
  BY <1>1, <1>2 DEF GiveRepeat
<1>7. TypeOK /\ DevInv /\ StackInv /\ HeldBackInv /\ WindowInv /\ OrderInv /\ Keyboard \in Devices
  BY TwoDevices DEF IInv
<1>8. /\ cut \in BOOLEAN /\ dev[Keyboard].frozen \in BOOLEAN
      /\ arrived' \in Ids /\ physical' \in [Devices -> BOOLEAN]
  <2>1. dev[Keyboard] \in Records
    BY <1>7 DEF TypeOK, Records
  <2> QED BY <1>6, <1>7, <2>1, RecordFields DEF TypeOK
<1>9. /\ Plays(stack) <=> Plays(rest)
      /\ \A d : Leaves(stack, d) <=> Leaves(rest, d)
  BY <1>2, <1>3, TailKeeps
<1>10. CASE dev[Keyboard].frozen
  <2>1. EnqueueEvent(ev) /\ stack' = rest /\ UNCHANGED <<dev, down, seen>>
    BY <1>5, <1>6, <1>10 DEF ProcessInput
  <2>2. /\ pending' \in Seq(Events) /\ pendtail' \in {Len(pending'), Len(pending') - 1} \cap Nat
    BY <1>4, <1>7, <2>1, EnqueueEventFields
  <2>3. TypeOK'
    BY <1>3, <1>6, <1>7, <1>8, <2>1, <2>2 DEF TypeOK
  <2>4. DevInv'
    BY <1>7, <2>1 DEF DevInv, WellGrabbed, WellFrozen, OneAtATime, OneFor
  <2>5. StackInv'
    <3>1. stack' # <<>> => Returned(Tail(stack')) /\ Head(stack').call # "replay"
      BY <1>3, <2>1, ReturnedTail, TailOf DEF Returned
    <3> QED BY <1>3, <2>1, <3>1 DEF StackInv, Calling
  <2>6. WindowInv'
    BY <1>6, <1>7, <1>9, <2>1 DEF WindowInv
  <2>7. PICK n \in Nat : n = Len(pending) /\ DOMAIN pending = 1 .. n
    BY <1>7, PendingTypes
  <2>8. PICK m \in Nat : m = Len(pending')
    BY <2>2
  <2>9. /\ DOMAIN pending' = 1 .. m /\ pending'[m] = ev
        /\ \/ m = n + 1 /\ \A i \in 1 .. n : pending'[i] = pending[i]
           \/ m = n /\ n > 0 /\ \A i \in 1 .. n : i # n => pending'[i] = pending[i]
    BY <1>4, <1>7, <2>1, <2>7, <2>8, EnqueueEventFields
  <2>10. \A i \in DOMAIN pending' : i # m => i \in DOMAIN pending /\ pending'[i] = pending[i]
    BY <2>7, <2>8, <2>9
  <2>11. HeldBackInv'
    <3>1. ASSUME ~Plays(rest), NEW i \in DOMAIN pending'
          PROVE  dev[pending'[i].device].frozen
      <4>1. \A j \in DOMAIN pending : dev[pending[j].device].frozen
        BY <1>7, <1>9, <3>1 DEF HeldBackInv
      <4> QED BY <1>5, <1>10, <2>9, <2>10, <4>1
    <3> QED BY <2>1, <3>1 DEF HeldBackInv
  <2>12. OrderInv'
    <3>1. cut'
      BY <1>6, <1>10
    <3>2. Numbered /\ GivenBefore(stack, arrived)
      BY <1>7 DEF OrderInv, Numbered
    <3>3. GivenBefore(stack', arrived)
      BY <1>2, <1>3, <2>1, <3>2, GivenTail
    <3>4. ev.id <= arrived
      <4>1. stack[1] = Head(stack) /\ 1 \in DOMAIN stack
        BY <1>3, TailOf
      <4> QED BY <1>1, <1>3, <3>2, <4>1 DEF GivenBefore
    <3>5. \A i \in DOMAIN pending' : pending'[i].id <= arrived
      BY <2>9, <2>10, <3>2, <3>4 DEF Numbered
    <3>6. Numbered'
      BY <1>6, <2>1, <3>2, <3>3, <3>5 DEF Numbered
    <3> QED BY <3>1, <3>6 DEF OrderInv
  <2>13. Grabbing(dev')
    BY <2>1 DEF Grabbing
  <2> QED BY <2>3, <2>4, <2>5, <2>6, <2>11, <2>12, <2>13 DEF IInv
<1>11. CASE ~dev[Keyboard].frozen
  <2>1. ProcessEvent(ev, rest) /\ UNCHANGED <<pending, pendtail>>
    BY <1>5, <1>6, <1>11 DEF ProcessInput
  <2>2. cut' = cut
    BY <1>6, <1>8, <1>11
  <2>3. OrderInv'
    BY <1>1, <1>2, <1>3, <1>4, <1>5, <1>6, <1>11, <2>1, <2>2, GivenOrder
  <2>4. /\ pending' \in Seq(Events) /\ pendtail' \in {Len(pending'), Len(pending') - 1} \cap Nat
        /\ cut' \in BOOLEAN /\ pending' = pending
    BY <1>7, <1>8, <2>1, <2>2 DEF TypeOK
  <2>5. UNCHANGED <<passive, top, gone>> /\ ~dev[ev.device].frozen
    BY <1>5, <1>6, <1>11
  <2> QED BY <1>3, <1>4, <1>8, <1>9, <2>1, <2>3, <2>4, <2>5, Processed
<1> QED BY <1>10, <1>11

(* The list without element i, the first of its device.                    *)
LEMMA WithoutFirst ==
    ASSUME TypeOK, NEW i \in DOMAIN pending, Unlink(i),
           \A j \in DOMAIN pending : j < i => pending[j].device # pending[i].device
    PROVE  /\ \A k \in DOMAIN pending' : \E j \in DOMAIN pending : j # i /\ pending'[k] = pending[j]
           /\ \A j \in DOMAIN pending : j # i => \E k \in DOMAIN pending' : pending'[k] = pending[j]
           /\ ~cut /\ PendingInOrder =>
                \A k \in DOMAIN pending' :
                    /\ seen[pending'[k].device] < pending'[k].id
                    /\ pending'[k].device = pending[i].device => pending[i].id < pending'[k].id
                    /\ \A l \in 1 .. k - 1 : pending'[l].device = pending'[k].device =>
                                               pending'[l].id < pending'[k].id
           /\ \A x : \A k \in DOMAIN pending' : LastHeld(k, x)' =>
                \E j \in DOMAIN pending : LastHeld(j, x) /\ pending'[k] = pending[j]
           /\ \A x : NoneHeld(x)' => NoneHeld(x) \/ LastHeld(i, x)
<1>1. PICK n \in Nat : n = Len(pending)
  BY DEF TypeOK
<1>2. /\ DOMAIN pending' = 1 .. n - 1 /\ DOMAIN pending = 1 .. n
      /\ \A k \in 1 .. n - 1 : pending'[k] = IF k < i THEN pending[k] ELSE pending[k + 1]
  BY <1>1, UnlinkFields
<1>3. PICK t : t = pending'
  OBVIOUS
<1> DEFINE old(k) == IF k < i THEN k ELSE k + 1
<1>4. /\ DOMAIN t = 1 .. n - 1 /\ i \in 1 .. n
      /\ \A k \in 1 .. n - 1 : old(k) \in 1 .. n /\ old(k) # i /\ t[k] = pending[old(k)]
  BY <1>2, <1>3
<1>5. \A k, l \in 1 .. n - 1 : l < k => old(l) < old(k)
  BY <1>2
<1>6. \A j \in 1 .. n : j # i => \E k \in 1 .. n - 1 : old(k) = j
  <2> SUFFICES ASSUME NEW j \in 1 .. n, j # i
               PROVE  \E k \in 1 .. n - 1 : old(k) = j
    OBVIOUS
  <2>1. CASE j < i
    BY <1>4, <2>1
  <2>2. CASE j > i
    <3>1. j - 1 \in 1 .. n - 1 /\ old(j - 1) = j
      BY <1>4, <2>2
    <3> QED BY <3>1
  <2> QED BY <1>4, <2>1, <2>2
<1>7. \A k, l \in 1 .. n - 1 : old(l) < old(k) => l < k
  BY <1>2
<1>8. \A j \in 1 .. n : pending[j].device = pending[i].device => j >= i
  BY <1>2
<1> HIDE DEF old
<1>9. \A k \in DOMAIN t : \E j \in DOMAIN pending : j # i /\ t[k] = pending[j]
  BY <1>2, <1>4
<1>10. \A j \in DOMAIN pending : j # i => \E k \in DOMAIN t : t[k] = pending[j]
  <2> SUFFICES ASSUME NEW j \in 1 .. n, j # i
               PROVE  \E k \in DOMAIN t : t[k] = pending[j]
    BY <1>2
  <2>1. PICK k \in 1 .. n - 1 : old(k) = j
    BY <1>6
  <2>2. t[k] = pending[j]
    BY <1>4, <2>1
  <2> QED BY <1>4, <2>2
<1>11. ASSUME ~cut, PendingInOrder, NEW k \in DOMAIN t
       PROVE  /\ seen[t[k].device] < t[k].id
              /\ t[k].device = pending[i].device => pending[i].id < t[k].id
              /\ \A l \in 1 .. k - 1 : t[l].device = t[k].device => t[l].id < t[k].id
  <2>1. old(k) \in DOMAIN pending /\ t[k] = pending[old(k)] /\ old(k) # i /\ k \in 1 .. n - 1
    BY <1>2, <1>4, <1>11
  <2>2. /\ seen[t[k].device] < t[k].id
        /\ \A j \in 1 .. old(k) - 1 : pending[j].device = t[k].device => pending[j].id < t[k].id
    <3>1. PICK o : o = old(k)
      OBVIOUS
    <3>2. o \in DOMAIN pending /\ t[k] = pending[o]
      BY <2>1, <3>1
    <3>3. /\ seen[pending[o].device] < pending[o].id
          /\ \A j \in 1 .. o - 1 : pending[j].device = pending[o].device =>
                                    pending[j].id < pending[o].id
      BY <1>11, <3>2 DEF PendingInOrder
    <3>4. seen[t[k].device] < t[k].id
      BY <3>2, <3>3
    <3>5. \A j \in 1 .. o - 1 : pending[j].device = t[k].device => pending[j].id < t[k].id
      BY <3>2, <3>3
    <3> QED BY <3>1, <3>4, <3>5
  <2>3. ASSUME t[k].device = pending[i].device
        PROVE  pending[i].id < t[k].id
    <3>1. i \in 1 .. old(k) - 1
      BY <1>2, <1>4, <1>8, <2>1, <2>3
    <3> QED BY <2>2, <2>3, <3>1
  <2>4. ASSUME NEW l \in 1 .. k - 1, t[l].device = t[k].device
        PROVE  t[l].id < t[k].id
    <3>1. l \in 1 .. n - 1 /\ l < k
      BY <2>1
    <3>2. old(l) < old(k) /\ old(l) \in 1 .. n /\ t[l] = pending[old(l)]
      BY <1>4, <1>5, <2>1, <3>1
    <3>3. old(l) \in 1 .. old(k) - 1
      BY <1>2, <2>1, <3>2
    <3> QED BY <2>2, <2>4, <3>2, <3>3
  <2> QED BY <2>2, <2>3, <2>4
<1>12. ASSUME NEW k \in DOMAIN t, NEW x, t[k].device = x, t[k].kind # "Motion",
              \A j \in DOMAIN t : j > k /\ t[j].device = x => t[j].kind = "Motion"
       PROVE  \E j \in DOMAIN pending : LastHeld(j, x) /\ t[k] = pending[j]
  <2>1. old(k) \in 1 .. n /\ t[k] = pending[old(k)] /\ old(k) # i /\ k \in 1 .. n - 1
    BY <1>4, <1>12
  <2>2. ASSUME NEW j \in 1 .. n, j > old(k), pending[j].device = x
        PROVE  pending[j].kind = "Motion"
    <3>1. CASE j = i
      BY <1>8, <1>12, <2>1, <2>2, <3>1
    <3>2. CASE j # i
      <4>1. PICK l \in 1 .. n - 1 : old(l) = j
        BY <1>6, <3>2
      <4>2. l > k /\ t[l] = pending[j]
        BY <1>4, <1>7, <2>1, <2>2, <4>1
      <4> QED BY <1>4, <1>12, <2>2, <4>2
    <3> QED BY <3>1, <3>2
  <2>3. LastHeld(old(k), x)
    BY <1>2, <1>12, <2>1, <2>2 DEF LastHeld
  <2> QED BY <1>2, <2>1, <2>3
<1>13. ASSUME NEW x, \A j \in DOMAIN t : t[j].device = x => t[j].kind = "Motion", ~NoneHeld(x)
       PROVE  LastHeld(i, x)
  <2>1. \A j \in DOMAIN pending : j # i /\ pending[j].device = x => pending[j].kind = "Motion"
    BY <1>10, <1>13
  <2>2. pending[i].device = x /\ pending[i].kind # "Motion"
    BY <1>13, <2>1 DEF NoneHeld
  <2> QED BY <1>2, <2>1, <2>2 DEF LastHeld
<1>14. \A x : \A k \in DOMAIN pending' : LastHeld(k, x)' =>
          \E j \in DOMAIN pending : LastHeld(j, x) /\ pending'[k] = pending[j]
  BY <1>3, <1>12 DEF LastHeld
<1>15. \A x : NoneHeld(x)' => NoneHeld(x) \/ LastHeld(i, x)
  BY <1>3, <1>13 DEF NoneHeld
<1> QED BY <1>3, <1>9, <1>10, <1>11, <1>14, <1>15

LEMMA PlayedOrder ==
    ASSUME IInv, Calling("play"), NEW i \in DOMAIN pending, NEW ev \in Events, ev = pending[i],
           Unlink(i), ~dev[ev.device].frozen, ProcessEvent(ev, stack),
           \A j \in DOMAIN pending : j < i => pending[j].device # ev.device,
           UNCHANGED <<physical, arrived, cut>>
    PROVE  OrderInv'
<1> DEFINE d == ev.device
<1>1. /\ stack # <<>> /\ stack \in Seq(Frames) /\ Head(stack).call = "play" /\ Nested(stack)
  BY CallingFacts
<1>2. Returned(stack)
  BY <1>1, ReturnedWhole DEF IInv, StackInv
<1>3. /\ DOMAIN stack = 1 .. Len(stack) /\ Len(stack) \in Nat
      /\ 1 \in DOMAIN stack /\ stack[1] = Head(stack)
  BY <1>1, TailOf
<1>4. Plays(stack)
  BY <1>1, <1>3 DEF Plays
<1>5. /\ TypeOK /\ DevInv /\ OrderInv /\ arrived \in Nat /\ Ids \subseteq Nat
      /\ seen \in [Devices -> Ids] /\ ev.kind \in Kinds /\ ev.id \in Nat /\ d \in Devices
      /\ physical \in [Devices -> BOOLEAN]
  BY EventFields, DeviceGrabsAssumption DEF IInv, TypeOK, Ids
<1>6. Numbered /\ GivenBefore(stack, arrived) /\ ev.id <= arrived
  BY <1>5 DEF OrderInv, Numbered
<1>7. ~cut => PendingInOrder /\ GivenFirst(stack, pending) /\ HeldTruth
  BY <1>5 DEF OrderInv
<1>8. /\ \A k \in DOMAIN pending' : \E j \in DOMAIN pending : j # i /\ pending'[k] = pending[j]
      /\ ~cut /\ PendingInOrder =>
           \A k \in DOMAIN pending' :
               /\ seen[pending'[k].device] < pending'[k].id
               /\ pending'[k].device = d => ev.id < pending'[k].id
               /\ \A l \in 1 .. k - 1 : pending'[l].device = pending'[k].device =>
                                          pending'[l].id < pending'[k].id
      /\ \A x : \A k \in DOMAIN pending' : LastHeld(k, x)' =>
           \E j \in DOMAIN pending : LastHeld(j, x) /\ pending'[k] = pending[j]
      /\ \A x : NoneHeld(x)' => NoneHeld(x) \/ LastHeld(i, x)
  BY <1>5, WithoutFirst
<1>9. \A k \in DOMAIN pending' : pending'[k].id <= arrived /\ pending'[k].device \in Devices
  BY <1>5, <1>6, <1>8, PendingTypes DEF Numbered
<1>10. ~cut => GivenFirst(stack, pending')
  BY <1>7, <1>8 DEF GivenFirst
(* Nothing of the keyboard is played while a half waits to be given.       *)
<1>11. ASSUME ~cut, Gives(stack)
       PROVE  d # Keyboard
  <2>1. PICK k \in DOMAIN stack : stack[k].call = "give"
    BY <1>11 DEF Gives
  <2>2. \A l \in DOMAIN stack : l > k => stack[l].call # "play"
    <3>1. \A l \in DOMAIN stack : stack[l].call = "play" => l = 1
      BY <1>1, <1>3 DEF Nested
    <3> QED BY <1>3, <3>1
  <2>3. \A j \in DOMAIN pending : pending[j].device # Keyboard
    BY <1>7, <1>11, <2>1, <2>2 DEF GivenFirst
  <2> QED BY <2>3
(* What is still held back, or has just been played, tells the state.      *)
<1>12. ASSUME ~cut, NEW x \in Devices
       PROVE  /\ \A k \in DOMAIN pending' : LastHeld(k, x)' =>
                     (physical[x] <=> pending'[k].kind = "Press")
              /\ NoneHeld(x)' /\ x # d =>
                     IF x = Keyboard /\ Gives(stack) THEN physical[x] ELSE down[x] = physical[x]
              /\ NoneHeld(d)' /\ ev.kind = "Motion" =>
                     IF d = Keyboard /\ Gives(stack) THEN physical[d] ELSE down[d] = physical[d]
              /\ NoneHeld(d)' /\ ev.kind # "Motion" => (physical[d] <=> ev.kind = "Press")
  <2>1. \A y \in Devices :
          /\ \A j \in DOMAIN pending : LastHeld(j, y) => (physical[y] <=> pending[j].kind = "Press")
          /\ NoneHeld(y) => IF y = Keyboard /\ Gives(stack) THEN physical[y]
                            ELSE down[y] = physical[y]
    BY <1>7, <1>12 DEF HeldTruth
  <2>2. LastHeld(i, x) => x = d
    BY DEF LastHeld
  <2>3. ev.kind = "Motion" => ~LastHeld(i, d)
    BY DEF LastHeld
  <2>4. ev.kind # "Motion" => ~NoneHeld(d)
    BY DEF NoneHeld
  <2>5. \A k \in DOMAIN pending' : LastHeld(k, x)' =>
          (physical[x] <=> pending'[k].kind = "Press")
    BY <1>8, <2>1
  <2>6. NoneHeld(x)' /\ x # d =>
          IF x = Keyboard /\ Gives(stack) THEN physical[x] ELSE down[x] = physical[x]
    BY <1>8, <2>1, <2>2
  <2>7. NoneHeld(d)' /\ ev.kind = "Motion" =>
          IF d = Keyboard /\ Gives(stack) THEN physical[d] ELSE down[d] = physical[d]
    BY <1>5, <1>8, <2>1, <2>3
  <2>8. NoneHeld(d)' /\ ev.kind # "Motion" => (physical[d] <=> ev.kind = "Press")
    BY <1>5, <1>8, <2>1, <2>4
  <2> QED BY <2>5, <2>6, <2>7, <2>8
<1>13. \/ /\ Repeated(ev) /\ stack' = RepeatFrames(ev) \o stack
          /\ dev' = dev /\ down' = down /\ seen' = seen
       \/ /\ ~Repeated(ev) /\ Changed(stack)
          /\ seen' = [seen EXCEPT ![d] = ev.id] /\ Known(ev)
  BY <1>1, <1>5, ProcessEventKeeps
<1>14. CASE /\ Repeated(ev) /\ stack' = RepeatFrames(ev) \o stack
            /\ dev' = dev /\ down' = down /\ seen' = seen
  <2>1. ev.kind = "Press" /\ d = Keyboard
    BY <1>14 DEF Repeated
  <2>2. /\ Gives(stack') /\ GivenBefore(stack', arrived)
        /\ /\ GivenFirst(stack, pending')
           /\ \A j \in DOMAIN pending' : pending'[j].device = Keyboard => ev.id < pending'[j].id
           /\ ~Plays(stack) => \A j \in DOMAIN pending' : pending'[j].device # Keyboard
           => GivenFirst(stack', pending')
    <3> HIDE DEF d
    <3>1. ev.device = Keyboard
      BY <2>1 DEF d
    <3>2. PICK held : held = pending'
      OBVIOUS
    <3>3. /\ Gives(stack') /\ GivenBefore(stack', arrived)
          /\ /\ GivenFirst(stack, held)
             /\ \A j \in DOMAIN held : held[j].device = Keyboard => ev.id < held[j].id
             /\ ~Plays(stack) => \A j \in DOMAIN held : held[j].device # Keyboard
             => GivenFirst(stack', held)
      BY <1>1, <1>2, <1>6, <1>14, <2>1, <3>1, RepeatStack
    <3> QED BY <3>2, <3>3
  <2>3. Numbered'
    BY <1>6, <1>9, <1>14, <2>2 DEF Numbered
  <2>4. ASSUME ~cut
        PROVE  PendingInOrder' /\ GivenFirst(stack', pending') /\ HeldTruth'
    <3>1. PendingInOrder'
      BY <1>7, <1>8, <1>14, <2>4 DEF PendingInOrder
    <3>2. GivenFirst(stack', pending')
      BY <1>4, <1>7, <1>8, <1>10, <2>1, <2>2, <2>4
    <3>3. ~Gives(stack)
      BY <1>11, <2>1, <2>4
    <3>4. HeldTruth'
      <4>1. ASSUME NEW x \in Devices
            PROVE  /\ \A k \in DOMAIN pending' : LastHeld(k, x)' =>
                          (physical[x] <=> pending'[k].kind = "Press")
                   /\ NoneHeld(x)' => IF x = Keyboard THEN physical[x] ELSE down[x] = physical[x]
        BY <1>12, <2>1, <2>4, <3>3
      <4> QED BY <1>14, <2>2, <4>1 DEF HeldTruth
    <3> QED BY <3>1, <3>2, <3>4
  <2> QED BY <2>3, <2>4 DEF OrderInv
<1>15. CASE /\ ~Repeated(ev) /\ Changed(stack)
            /\ seen' = [seen EXCEPT ![d] = ev.id] /\ Known(ev)
  <2>1. /\ Gives(stack') <=> Gives(stack)
        /\ GivenBefore(stack', arrived) /\ (~cut => GivenFirst(stack', pending'))
    <3>1. PICK held : held = pending'
      OBVIOUS
    <3>2. /\ Gives(stack') <=> Gives(stack)
          /\ GivenFirst(stack, held) => GivenFirst(stack', held)
          /\ GivenBefore(stack, arrived) => GivenBefore(stack', arrived)
      BY <1>1, <1>2, <1>15, ChangedStack
    <3> QED BY <1>6, <1>10, <3>1, <3>2
  <2>2. seen'[d] = ev.id /\ \A x \in Devices : x # d => seen'[x] = seen[x]
    BY <1>5, <1>15
  <2>3. Numbered'
    <3>1. \A x \in Devices : seen'[x] <= arrived
      BY <1>6, <2>2 DEF Numbered
    <3> QED BY <1>9, <2>1, <3>1 DEF Numbered
  <2>4. ASSUME ~cut
        PROVE  PendingInOrder' /\ HeldTruth'
    <3>1. PendingInOrder'
      BY <1>7, <1>8, <1>9, <2>2, <2>4 DEF PendingInOrder
    <3>2. NoneHeld(d)' => IF d = Keyboard /\ Gives(stack) THEN physical[d]
                          ELSE down'[d] = physical[d]
      <4>1. down' \in [Devices -> BOOLEAN]
        BY <1>1, <1>5, ProcessEventKeeps
      <4>2. physical[d] \in BOOLEAN /\ down'[d] \in BOOLEAN
        BY <1>5, <4>1
      <4> QED BY <1>5, <1>11, <1>12, <1>15, <2>4, <4>2 DEF Known, Kinds
    <3>3. ASSUME NEW x \in Devices
          PROVE  /\ \A k \in DOMAIN pending' : LastHeld(k, x)' =>
                        (physical[x] <=> pending'[k].kind = "Press")
                 /\ NoneHeld(x)' => IF x = Keyboard /\ Gives(stack) THEN physical[x]
                                    ELSE down'[x] = physical[x]
      BY <1>12, <1>15, <2>4, <3>2 DEF Known
    <3>4. HeldTruth'
      BY <2>1, <3>3 DEF HeldTruth
    <3> QED BY <3>1, <3>4
  <2> QED BY <2>1, <2>3, <2>4 DEF OrderInv
<1> QED BY <1>13, <1>14, <1>15

LEMMA PlayReleasedEventsStep ==
    ASSUME IInv, PlayReleasedEvents
    PROVE  IInv' /\ Grabbing(dev')
<1>1. /\ stack # <<>> /\ stack \in Seq(Frames) /\ Tail(stack) \in Seq(Frames) /\ Calling("play")
      /\ Head(stack) \in Frames /\ Head(stack).call = "play"
      /\ Nested(stack) /\ Nested(Tail(stack)) /\ Returned(Tail(stack))
  BY CallingFacts DEF PlayReleasedEvents
<1>2. Returned(stack)
  BY <1>1, ReturnedWhole
<1>3. UNCHANGED <<physical, passive, top, gone, arrived, cut>>
  BY DEF PlayReleasedEvents
<1>4. /\ TypeOK /\ DevInv /\ StackInv /\ WindowInv /\ OrderInv
      /\ passive' \subseteq PassiveGrabs /\ gone' \subseteq Clients /\ top' \in {Depth - 1, Depth}
  BY <1>3 DEF IInv, TypeOK
<1>5. CASE Playable = {}
  <2>1. stack' = Tail(stack) /\ UNCHANGED <<dev, down, pending, pendtail, seen>>
    BY <1>5 DEF PlayReleasedEvents
  <2>2. StackInv'
    <3>1. stack' # <<>> => Returned(Tail(stack')) /\ Head(stack').call # "replay"
      BY <1>1, <2>1, ReturnedTail, TailOf DEF Returned
    <3> QED BY <1>1, <2>1, <3>1 DEF StackInv, Calling
  <2>3. /\ Gives(stack') <=> Gives(stack)
        /\ \A d : Leaves(stack, d) => Leaves(stack', d)
    BY <1>1, <2>1, TailKeeps
  <2>4. /\ GivenFirst(stack, pending) => GivenFirst(stack', pending)
        /\ GivenBefore(stack, arrived) => GivenBefore(stack', arrived)
    BY <1>1, <2>1, GivenTail
  <2>5. TypeOK'
    BY <1>1, <1>3, <1>4, <2>1 DEF TypeOK
  <2>6. DevInv'
    BY <1>4, <2>1 DEF DevInv, WellGrabbed, WellFrozen, OneAtATime, OneFor
  <2>7. HeldBackInv'
    BY <1>5, <2>1 DEF HeldBackInv, Playable
  <2>8. WindowInv'
    BY <1>3, <1>4, <2>1, <2>3 DEF WindowInv
  <2>9. OrderInv'
    BY <1>3, <1>4, <2>1, <2>3, <2>4, SameOrder
  <2>10. Grabbing(dev')
    BY <2>1 DEF Grabbing
  <2> QED BY <2>2, <2>5, <2>6, <2>7, <2>8, <2>9, <2>10 DEF IInv
<1>6. CASE Playable # {}
  <2>1. PICK i : i = Min(Playable)
    OBVIOUS
  <2>2. Unlink(i) /\ ProcessEvent(pending[i], stack)
    BY <1>6, <2>1 DEF PlayReleasedEvents
  <2>3. /\ i \in DOMAIN pending /\ ~dev[pending[i].device].frozen
        /\ \A j \in DOMAIN pending : j < i => pending[j].device # pending[i].device
    BY <1>4, <1>6, <2>1, PlayableFirst
  <2>4. PICK ev \in Events : ev = pending[i]
    BY <1>4, <2>3, PendingTypes
  <2>5. /\ ~dev[ev.device].frozen /\ ProcessEvent(ev, stack)
        /\ \A j \in DOMAIN pending : j < i => pending[j].device # ev.device
    BY <2>2, <2>3, <2>4
  <2>6. OrderInv'
    BY <1>1, <1>3, <2>2, <2>3, <2>4, <2>5, PlayedOrder
  <2>7. /\ pending' \in Seq(Events) /\ pendtail' \in {Len(pending'), Len(pending') - 1} \cap Nat
    BY <1>4, <2>2, <2>3, UnlinkFields
  <2>8. Plays(stack)
    <3>1. 1 \in DOMAIN stack /\ stack[1] = Head(stack)
      BY <1>1, TailOf
    <3> QED BY <1>1, <3>1 DEF Plays
  <2>9. arrived' \in Ids /\ physical' \in [Devices -> BOOLEAN] /\ cut' \in BOOLEAN
    BY <1>3, <1>4 DEF TypeOK
  <2>10. UNCHANGED <<passive, top, gone>>
    BY <1>3
  <2> QED BY <1>1, <1>2, <2>5, <2>6, <2>7, <2>8, <2>9, <2>10, Processed
<1> QED BY <1>5, <1>6

---------------------------------------------------------------------------
(* Every step.                                                             *)

LEMMA InitInv == Init => IInv
<1> SUFFICES ASSUME Init
             PROVE  IInv
  OBVIOUS
<1>0. PICK key \in BOOLEAN :
        dev = [d \in Devices |->
                  [grab |-> None, fromPassive |-> FALSE, activating |-> d = Keyboard /\ key,
                   state |-> "NotGrabbed", other |-> None, frozen |-> FALSE,
                   event |-> None, reports |-> 0]]
  BY DEF Init
<1>1. /\ down = [d \in Devices |-> FALSE] /\ physical = [d \in Devices |-> FALSE]
      /\ pending = <<>> /\ pendtail = 0 /\ stack = <<>>
      /\ passive = PassiveGrabs /\ top = Depth /\ gone = {}
      /\ arrived = 0 /\ seen = [d \in Devices |-> 0] /\ cut = FALSE
  BY DEF Init
<1>2. MaxEvents \in Nat /\ Depth \in Nat \ {0}
  BY DeviceGrabsAssumption
<1>3. /\ dev \in [Devices -> Records]
      /\ \A d \in Devices :
           /\ dev[d].grab = None /\ dev[d].state = "NotGrabbed" /\ dev[d].other = None
           /\ dev[d].frozen = FALSE /\ dev[d].reports = 0
  <2> DEFINE R(d) == [grab |-> None, fromPassive |-> FALSE, activating |-> d = Keyboard /\ key,
                      state |-> "NotGrabbed", other |-> None, frozen |-> FALSE,
                      event |-> None, reports |-> 0]
  <2>1. ASSUME NEW d \in Devices
        PROVE  /\ R(d).grab = None /\ R(d).state = "NotGrabbed" /\ R(d).other = None
               /\ R(d).frozen = FALSE /\ R(d).reports = 0 /\ R(d) \in Records
    <3>1. PICK k \in BOOLEAN : k = (d = Keyboard /\ key)
      OBVIOUS
    <3> QED BY <3>1 DEF Records, SyncStates
  <2>2. dev = [d \in Devices |-> R(d)]
    BY <1>0
  <2> HIDE DEF R
  <2> QED BY <2>1, <2>2
<1>4. TypeOK
  <2>1. pending \in Seq(Events) /\ Len(pending) = 0 /\ stack \in Seq(Frames)
    BY <1>1
  <2>2. arrived \in Ids /\ seen \in [Devices -> Ids]
    BY <1>1, <1>2 DEF Ids
  <2>3. pendtail \in {Len(pending), Len(pending) - 1} \cap Nat
    BY <1>1, <2>1
  <2>4. /\ down \in [Devices -> BOOLEAN] /\ physical \in [Devices -> BOOLEAN]
        /\ passive \subseteq PassiveGrabs /\ top \in {Depth - 1, Depth}
        /\ gone \subseteq Clients /\ cut \in BOOLEAN
    BY <1>1
  <2> QED BY <1>3, <2>1, <2>2, <2>3, <2>4 DEF TypeOK, Records
<1>5. DevInv
  BY <1>3 DEF DevInv, WellGrabbed, WellFrozen, OneAtATime, OneFor, Frozen
<1>6. StackInv
  BY <1>1 DEF StackInv, Nested, Calling
<1>7. HeldBackInv
  BY <1>1 DEF HeldBackInv
<1>8. WindowInv
  BY <1>3 DEF WindowInv
<1>9. OrderInv
  <2>1. Numbered
    BY <1>1 DEF Numbered, GivenBefore
  <2>2. PendingInOrder /\ GivenFirst(stack, pending)
    BY <1>1 DEF PendingInOrder, GivenFirst
  <2>3. HeldTruth
    BY <1>1 DEF HeldTruth, LastHeld, NoneHeld, Gives
  <2> QED BY <2>1, <2>2, <2>3 DEF OrderInv
<1> QED BY <1>4, <1>5, <1>6, <1>7, <1>8, <1>9 DEF IInv

LEMMA NextInv ==
    ASSUME IInv, Next
    PROVE  IInv' /\ Grabbing(dev')
<1>1. CASE PlayReleasedEvents
  BY <1>1, PlayReleasedEventsStep
<1>2. CASE ReplayEvent
  BY <1>2, ReplayEventStep
<1>3. CASE GiveRepeat
  BY <1>3, GiveRepeatStep
<1>4. CASE ReleaseActiveGrabs
  BY <1>4, ReleaseActiveGrabsStep
<1>5. CASE DeleteWindow
  BY <1>5, DeleteWindowStep
<1>6. CASE FreeClientResources
  BY <1>6, FreeClientResourcesStep
<1>7. CASE \E d \in Devices, kind \in Kinds : DeviceEvent(d, kind)
  BY <1>7, DeviceEventStep
<1>8. CASE \E c \in Clients : Request(c)
  <2>1. PICK c \in Clients : Request(c)
    BY <1>8
  <2>2. CASE \E a \in ActiveGrabs : ProcGrab(c, a.device, a.grab)
    BY <2>2, ProcGrabStep
  <2>3. CASE \E d \in Devices : ProcUngrab(c, d)
    BY <2>3, ProcUngrabStep
  <2>4. CASE \E d \in Devices, mode \in AllowModes : AllowSome(c, d, mode)
    BY <2>4, AllowSomeStep
  <2>5. CASE CloseDownClient(c)
    BY <2>5, CloseDownClientStep
  <2> QED BY <2>1, <2>2, <2>3, <2>4, <2>5 DEF Request
<1>9. CASE ProcDestroyWindow
  BY <1>9, ProcDestroyWindowStep
<1> QED BY <1>1, <1>2, <1>3, <1>4, <1>5, <1>6, <1>7, <1>8, <1>9 DEF Next, Return

LEMMA StutterInv ==
    ASSUME IInv, UNCHANGED vars
    PROVE  IInv'
<1>1. /\ dev' = dev /\ down' = down /\ physical' = physical /\ pending' = pending
      /\ pendtail' = pendtail /\ stack' = stack /\ passive' = passive /\ top' = top
      /\ gone' = gone /\ arrived' = arrived /\ seen' = seen /\ cut' = cut
  BY DEF vars
<1>2. TypeOK' /\ WindowInv' /\ HeldBackInv'
  BY <1>1 DEF IInv, TypeOK, WindowInv, HeldBackInv
<1>3. DevInv'
  BY <1>1 DEF IInv, DevInv, WellGrabbed, WellFrozen, OneAtATime, OneFor
<1>4. StackInv'
  BY <1>1 DEF IInv, StackInv, Calling
<1>5. OrderInv'
  BY <1>1, SameOrder DEF IInv
<1> QED BY <1>2, <1>3, <1>4, <1>5 DEF IInv

(* The invariant that the theorems rest on: well formed records and stack, *)
(* what is held back and in which order, as above.                         *)
THEOREM Inductive == Spec => []IInv
<1>1. IInv /\ [Next]_vars => IInv'
  BY NextInv, StutterInv
<1> QED BY InitInv, <1>1, PTL DEF Spec

---------------------------------------------------------------------------
(* The properties.                                                         *)

(* A device is frozen exactly when a grab that exists freezes it, events   *)
(* are held back only for frozen devices, and no grab is left on a window  *)
(* that was destroyed (ComputeFreezes, PlayReleasedEvents,                 *)
(* DeleteWindowFromAnyEvents).                                             *)
THEOREM FrozenAlways ==
    Spec => [](TypeOK /\ FrozenByAGrab /\ NothingHeldBack /\ GrabWindowsExist)
<1>1. ASSUME IInv
      PROVE  TypeOK /\ FrozenByAGrab /\ NothingHeldBack /\ GrabWindowsExist
  <2>1. TypeOK /\ DevInv /\ HeldBackInv /\ WindowInv
    BY <1>1 DEF IInv
  <2>2. FrozenByAGrab
    BY <2>1 DEF DevInv, WellGrabbed, WellFrozen, FrozenByAGrab
  <2>3. NothingHeldBack
    BY <2>1 DEF HeldBackInv, NothingHeldBack, Plays
  <2>4. ASSUME stack = <<>>, NEW d \in Devices, dev[d].grab # None
        PROVE  dev[d].grab.window <= top
    <3>1. ~Leaves(stack, d)
      BY <2>4 DEF Leaves
    <3>2. dev[d].grab.window \in Nat /\ top \in Nat
      <4>1. dev[d] \in Records
        BY <2>1 DEF TypeOK, Records
      <4>2. dev[d].grab \in Grabs
        BY <2>4, <4>1, RecordFields
      <4> QED BY <2>1, <4>2, GrabFields, DeviceGrabsAssumption DEF TypeOK, Windows
    <3> QED BY <2>1, <2>4, <3>1, <3>2 DEF WindowInv
  <2>5. GrabWindowsExist
    BY <2>4 DEF GrabWindowsExist
  <2> QED BY <2>1, <2>2, <2>3, <2>5
<1> QED BY <1>1, Inductive, PTL

(* A synchronous grab sees one press or release at a time, and what        *)
(* ReplayPointer sends on is the last event processed                      *)
(* (DeliverGrabbedEvent, AllowSome).                                       *)
THEOREM OneEventAlways == Spec => []OneEventAtATime
<1>1. IInv => OneEventAtATime
  BY DEF IInv, DevInv, OneAtATime, OneFor, OneEventAtATime
<1> QED BY <1>1, Inductive, PTL

(* The events of a device are processed in the order of their arrival      *)
(* (EnqueueEvent, PlayReleasedEvents), until a repeated press is cut.      *)
THEOREM InOrderAlways == Spec => []PendingInOrder
<1>1. IInv => PendingInOrder
  BY DEF IInv, OrderInv, PendingInOrder
<1> QED BY <1>1, Inductive, PTL

(* When nothing of a device is held back, dix has the same idea as the     *)
(* hardware of its key or button, until a repeated press is cut.           *)
THEOREM DownAlways == Spec => []DownFollowsHardware
<1>1. ASSUME IInv
      PROVE  DownFollowsHardware
  <2> SUFFICES ASSUME NEW d \in Devices, stack = <<>>, ~cut,
                      \A i \in DOMAIN pending : pending[i].device # d
               PROVE  down[d] = physical[d]
    BY DEF DownFollowsHardware
  <2>1. NoneHeld(d) /\ ~Gives(stack)
    BY DEF NoneHeld, Gives
  <2> QED BY <1>1, <2>1 DEF IInv, OrderInv, HeldTruth
<1> QED BY <1>1, Inductive, PTL

(* A client that is gone has no active grab, and passive ones only while   *)
(* FreeClientResources is freeing them, which plays no events.             *)
LEMMA LiveStep ==
    ASSUME \A p \in PassiveGrabs : p.grab.client # LeafOwner,
           IInv, LiveInv, Next
    PROVE  LiveInv'
<1>1. Grabbing(dev')
  BY NextInv
<1>2. passive \subseteq PassiveGrabs
  BY DEF IInv, TypeOK
<1>3. CASE ReleaseActiveGrabs
  <2> DEFINE c == Head(stack).client
             f == [call |-> "free", client |-> c]
  <2>1. ~Calling("free") /\ passive' = passive
    BY <1>3 DEF ReleaseActiveGrabs, Calling
  <2>2. CASE Held(c) # {}
    <3>1. gone' = gone
      BY <1>3, <2>2 DEF ReleaseActiveGrabs
    <3>2. \A d \in Devices : dev'[d].grab # None => dev'[d].grab.client \notin gone
      BY <1>1, <2>1 DEF LiveInv, Grabbing
    <3> QED BY <2>1, <3>1, <3>2 DEF LiveInv
  <2>3. CASE Held(c) = {}
    <3>1. gone' = gone \cup {c} /\ stack' = <<f>> \o Tail(stack) /\ dev' = dev
      BY <1>3, <2>3 DEF ReleaseActiveGrabs
    <3>2. Head(stack') = f /\ stack' # <<>>
      <4>1. Tail(stack) \in Seq(Frames)
        BY <1>3, CallingFacts DEF ReleaseActiveGrabs
      <4> HIDE DEF f
      <4> QED BY <3>1, <4>1, Frame1
    <3>3. \A d \in Devices : dev[d].grab # None => dev[d].grab.client # c
      BY <2>3 DEF Held
    <3>4. Calling("free")' /\ Head(stack').client = c
      BY <3>2 DEF Calling
    <3>5. \A p \in passive : p.grab.client \in gone' => p.grab.client = c
      BY <2>1, <3>1 DEF LiveInv
    <3>6. \A d \in Devices : dev'[d].grab # None => dev'[d].grab.client \notin gone'
      BY <3>1, <3>3 DEF LiveInv
    <3> HIDE DEF c
    <3> QED BY <2>1, <3>4, <3>5, <3>6 DEF LiveInv
  <2> QED BY <2>2, <2>3
<1>4. CASE FreeClientResources
  <2> DEFINE c == Head(stack).client
             grabs == {p \in passive : p.grab.client = c}
  <2>1. gone' = gone /\ dev' = dev
    BY <1>4 DEF FreeClientResources
  <2>2. \/ passive' \subseteq passive /\ stack' = stack
        \/ c = LeafOwner /\ passive' = passive
        \/ grabs = {} /\ passive' = passive
    BY <1>4 DEF FreeClientResources
  <2>3. \A p \in passive : p.grab.client \in gone => p.grab.client = c
    BY DEF LiveInv
  <2>4. CASE passive' \subseteq passive /\ stack' = stack
    BY <2>1, <2>4 DEF LiveInv, Calling
  <2>5. CASE (c = LeafOwner \/ grabs = {}) /\ passive' = passive
    <3>1. \A p \in passive : p.grab.client \notin gone
      BY <1>2, <2>3, <2>5
    <3> QED BY <2>1, <2>5, <3>1 DEF LiveInv
  <2> QED BY <2>2, <2>4, <2>5
<1>5. CASE ~ReleaseActiveGrabs /\ ~FreeClientResources
  <2>1. gone' = gone /\ passive' \subseteq passive /\ ~Calling("free")
    <3>1. CASE PlayReleasedEvents
      BY <3>1 DEF PlayReleasedEvents, Calling
    <3>2. CASE ReplayEvent
      BY <3>2 DEF ReplayEvent, Calling
    <3>3. CASE GiveRepeat
      BY <3>3 DEF GiveRepeat, Calling
    <3>4. CASE DeleteWindow
      BY <3>4 DEF DeleteWindow, Calling
    <3>5. CASE \E d \in Devices, kind \in Kinds : DeviceEvent(d, kind)
      BY <3>5 DEF DeviceEvent, Calling
    <3>6. CASE \E c \in Clients : Request(c)
      BY <3>6 DEF Request, ProcGrab, ProcUngrab, AllowSome, CloseDownClient, Running,
                  RequestUnchanged, Calling
    <3>7. CASE ProcDestroyWindow
      BY <3>7 DEF ProcDestroyWindow, Calling
    <3> QED BY <1>5, <3>1, <3>2, <3>3, <3>4, <3>5, <3>6, <3>7 DEF Next, Return
  <2>2. \A p \in passive : p.grab.client \notin gone
    BY <2>1 DEF LiveInv
  <2>3. \A d \in Devices : dev'[d].grab # None => dev'[d].grab.client \notin gone
    BY <1>1, <2>2 DEF LiveInv, Grabbing
  <2> QED BY <2>1, <2>2, <2>3 DEF LiveInv
<1> QED BY <1>3, <1>4, <1>5

(* And no grab is left of a client that is gone, when the client that      *)
(* owns the window has no passive grabs.  (If it has, FreeClientResources  *)
(* may destroy the window before it has freed them all, and what           *)
(* DeleteWindow thaws and plays may activate one.)                         *)
THEOREM GrabsAlways ==
    ASSUME \A p \in PassiveGrabs : p.grab.client # LeafOwner
    PROVE  Spec => []DeviceGrabsInv
<1>1. Init => LiveInv
  <2> SUFFICES ASSUME Init
               PROVE  LiveInv
    OBVIOUS
  <2>1. gone = {} /\ passive = PassiveGrabs
    BY DEF Init
  <2> QED BY <2>1 DEF LiveInv
<1>2. IInv /\ LiveInv /\ [Next]_vars => LiveInv'
  <2>1. IInv /\ LiveInv /\ UNCHANGED vars => LiveInv'
    BY DEF LiveInv, Calling, vars
  <2> QED BY <2>1, LiveStep
<1>3. LiveInv => NoGrabOfGoneClient
  BY DEF LiveInv, NoGrabOfGoneClient
<1>4. Spec => []LiveInv
  BY <1>1, <1>2, Inductive, PTL DEF Spec
<1>5. TypeOK /\ FrozenByAGrab /\ NothingHeldBack /\ GrabWindowsExist /\ NoGrabOfGoneClient
         => DeviceGrabsInv
  BY DEF DeviceGrabsInv
<1> QED BY <1>3, <1>4, <1>5, FrozenAlways, PTL
=============================================================================

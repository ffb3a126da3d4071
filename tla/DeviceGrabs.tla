---------------------------- MODULE DeviceGrabs ----------------------------
(***************************************************************************)
(* Grabs of the keyboard and the pointer, and the freezing and replaying   *)
(* of their events (dix/events.c).  An event of a frozen device goes to    *)
(* syncEvents.pending; AllowEvents, ungrabbing and the death of a client   *)
(* thaw devices, and ComputeFreezes plays what was held back.  A played    *)
(* event may itself activate or end a grab, and so freeze or thaw.         *)
(*                                                                         *)
(* A handler that plays events takes several steps here: stack holds what  *)
(* is still to be done when the call on top returns.  Input and requests   *)
(* are taken only when it is empty, the server being one thread.           *)
(*                                                                         *)
(* Each device has one key or button, which is no modifier.  The windows   *)
(* 1 .. Depth under the pointer, from the root down, are also the path to  *)
(* the focus; at most the last one is ever destroyed.                      *)
(***************************************************************************)
EXTENDS Integers, Sequences, FiniteSets, SequencesExt

CONSTANTS
    Keyboard, Pointer, \* inputInfo.keyboard, inputInfo.pointer
    Clients,           \* clients that may grab
    Depth,             \* windows in the trace
    LeafOwner,         \* the client that owns window Depth, or None
    PassiveGrabs,      \* GrabButton's and GrabKey's grabs in the beginning
    ActiveGrabs,       \* grabs that GrabPointer and GrabKeyboard may ask for
    None,              \* NullGrab, NullClient
    MaxEvents          \* bound: events of the devices in a behaviour

Devices == {Keyboard, Pointer}
Windows == 1 .. Depth
Modes == {"Sync", "Async"}
Grabs == [client: Clients, window: Windows, this: Modes, other: Modes]

ASSUME DeviceGrabsAssumption ==
    /\ Keyboard # Pointer /\ None \notin Devices /\ None \notin Clients
    /\ None \notin Grabs
    /\ Depth \in Nat \ {0} /\ LeafOwner \in Clients \cup {None}
    /\ PassiveGrabs \subseteq [device: Devices, grab: Grabs]
    /\ ActiveGrabs \subseteq [device: Devices, grab: Grabs]
    /\ \A p, q \in PassiveGrabs :
         p.device = q.device /\ p.grab.window = q.grab.window => p = q
    /\ LeafOwner # None => Depth > 1
    /\ MaxEvents \in Nat

VARIABLES
    dev,      \* grab, fromPassiveGrab, sync of each device, and activating:
              \* its key is activatingKey (the keyboard's only); as history,
              \* reports: presses and releases since events were last allowed
    down,     \* dix's idea of the key or button: down or not
    physical, \* whether it is held
    pending,  \* syncEvents.pending, a list
    pendtail, \* syncEvents.pendtail: how many elements precede the link
    stack,    \* calls that have not returned, innermost first
    passive,  \* passive grabs that exist
    top,      \* the last window of the trace that exists
    gone,     \* clients whose clientGone is set
    arrived,  \* history: events so far
    seen,     \* history: the last event of a device that was processed
    cut       \* history: a freeze fell between the halves of a repeated press

vars == <<dev, down, physical, pending, pendtail, stack, passive, top, gone,
          arrived, seen, cut>>

Frozen == {"FrozenNoEvent", "FrozenWithEvent"}  \* state >= FROZEN
SyncStates == Frozen \cup
    {"NotGrabbed", "Thawed", "FreezeNextEvent", "FreezeBothNextEvent"}
Ids == 0 .. MaxEvents
Kinds == {"Press", "Release", "Motion"}
Events == [device: Devices, kind: Kinds, id: Ids]

Held(c) == {d \in Devices : dev[d].grab # None /\ dev[d].grab.client = c}
Other(d) == IF d = Keyboard THEN Pointer ELSE Keyboard
Playing == \E i \in DOMAIN stack : stack[i].call = "play"  \* playingEvents

---------------------------------------------------------------------------
(* Grabs and freezes, as functions of the devices' records D.              *)

(* ComputeFreezes and FreezeThaw: a device is frozen by its own grab or by *)
(* another's.                                                              *)
Refrozen(D) ==
    [d \in Devices |->
        [D[d] EXCEPT !.frozen = D[d].other # None \/ D[d].state \in Frozen]]

(* dev->sync.other belongs to client c.                                    *)
FrozenBy(D, d, c) == D[d].other # None /\ D[D[d].other].grab.client = c

(* CheckGrabForSyncs: what the new grab of d does to its own device and to *)
(* the other one.                                                          *)
CheckGrabForSyncs(D, d) ==
    LET g == D[d].grab
        freed(e) == IF FrozenBy(D, e, g.client) THEN None ELSE D[e].other
        e == Other(d)
    IN [D EXCEPT
          ![d].state = IF g.this = "Sync" THEN "FrozenNoEvent" ELSE "Thawed",
          ![d].other = IF g.this = "Sync" THEN @ ELSE freed(d),
          ![e].other = IF g.other = "Sync" THEN d ELSE freed(e)]

(* ActivatePointerGrab, ActivateKeyboardGrab, up to ComputeFreezes.        *)
Activated(D, d, g, auto) ==
    CheckGrabForSyncs(
        [D EXCEPT ![d].grab = g, ![d].fromPassive = auto, ![d].reports = 0], d)

(* DeactivatePointerGrab, DeactivateKeyboardGrab, up to ComputeFreezes.    *)
Deactivated(D, d) ==
    [e \in Devices |->
        LET other == IF D[e].other = d THEN None ELSE D[e].other
        IN IF e = d THEN [D[e] EXCEPT !.grab = None, !.state = "NotGrabbed",
                                      !.fromPassive = FALSE, !.other = other,
                                      !.reports = 0]
                    ELSE [D[e] EXCEPT !.other = other]]

(* mutant of AfterReport: the case of FREEZE_BOTH_NEXT_EVENT does not fall *)
(* through                                                                 *)
AfterReportWithoutFallThrough(D0, ev) ==
    LET d == ev.device
        D == [D0 EXCEPT ![d].reports = Min({@ + 1, 2})]
    IN IF D[d].state = "FreezeBothNextEvent"
       THEN [D EXCEPT ![Other(d)].other = d, ![Other(d)].frozen = TRUE]
       ELSE IF D[d].state # "FreezeNextEvent" THEN D
       ELSE [D EXCEPT ![d].state = "FrozenWithEvent", ![d].frozen = TRUE,
                      ![d].event = ev]

(* The end of DeliverGrabbedEvent: ev was reported to the client with the  *)
(* grab of d; if it is the one the grab waited for, it is kept.            *)
AfterReport(D0, ev) ==
    LET d == ev.device
        e == Other(d)
        D == [D0 EXCEPT ![d].reports = Min({@ + 1, 2})]
        freezeBoth == D[d].state = "FreezeBothNextEvent"
        joint == /\ D[e].state = "FreezeBothNextEvent"
                 /\ D[e].grab.client = D[d].grab.client
    IN IF D[d].state \notin {"FreezeNextEvent", "FreezeBothNextEvent"} THEN D
       ELSE [D EXCEPT
              ![d].state = "FrozenWithEvent", ![d].frozen = TRUE, ![d].event = ev,
              ![e].frozen = @ \/ freezeBoth,
              ![e].state = IF freezeBoth /\ joint THEN "FrozenNoEvent" ELSE @,
              ![e].other = IF freezeBoth /\ ~joint THEN d ELSE @]

(* ComputeFreezes: the last call of the code that changes a grab.  It      *)
(* plays unless events are being played already; replay is the frame of an *)
(* event to be replayed first, if any.  rest is what is to be done then.   *)
ComputeFreezes(D, replay, rest) ==
    /\ dev' = Refrozen(D)
    /\ stack' = IF \/ \E i \in DOMAIN rest : rest[i].call = "play"
                   \/ replay = <<>> /\ pending = <<>>
                THEN rest
                ELSE replay \o <<[call |-> "play"]>> \o rest

---------------------------------------------------------------------------
(* The list of events held back.                                           *)

(* mutant of EnqueueEvent: a motion takes the place of whatever is at the  *)
(* tail                                                                    *)
EnqueueCompressingAny(ev) ==
    IF ev.kind = "Motion" /\ pendtail < Len(pending)
    THEN pending' = [pending EXCEPT ![pendtail + 1] = ev] /\ UNCHANGED pendtail
    ELSE pending' = Append(pending, ev) /\ pendtail' = Len(pending)

(* EnqueueEvent: the tail is what pendtail points at; a motion at the tail *)
(* takes the new motion in.                                                *)
EnqueueEvent(ev) ==
    LET noTail == pendtail = Len(pending)
        compress == /\ ev.kind = "Motion" /\ ~noTail
                    /\ pending[pendtail + 1].kind = "Motion"
        at == IF noTail THEN pendtail ELSE pendtail + 1
    IN IF compress
       THEN /\ pending' = [pending EXCEPT ![pendtail + 1] = ev]
            /\ UNCHANGED pendtail
       ELSE /\ pending' = Append(SubSeq(pending, 1, at), ev)
            /\ pendtail' = at

(* mutant of Unlink: the event stays in the list *)
UnlinkNothing(i) == UNCHANGED <<pending, pendtail>>

(* PlayReleasedEvents takes element i out of the list and moves pendtail   *)
(* when it was the link in that element.                                   *)
Unlink(i) ==
    /\ pending' = RemoveAt(pending, i)
    /\ pendtail' = IF pendtail \in {i - 1, i} THEN i - 1 ELSE pendtail - 1

---------------------------------------------------------------------------
(* Processing an event.                                                    *)

(* CheckDeviceGrabs: the passive grabs on the window first or below it.    *)
Matching(ev, first) ==
    IF ev.kind # "Press" THEN {}
    ELSE {p \in passive : p.device = ev.device /\ p.grab.window \in first .. top}

(* CheckPassiveGrabsOnWindow: the grab nearest to the root is activated    *)
(* and the event reported.  When it is a key that was just pressed,        *)
(* keyPressed, CoreProcessKeyboardEvent makes it the activatingKey.        *)
StartPassiveGrab(ev, first, keyPressed, rest) ==
    \E p \in Matching(ev, first) :
        /\ \A q \in Matching(ev, first) : p.grab.window <= q.grab.window
        /\ LET D == [Activated(dev, ev.device, p.grab, TRUE) EXCEPT
                        ![ev.device].reports = 1,
                        ![ev.device].activating = @ \/ keyPressed]
               frozen == D[ev.device].state = "FrozenNoEvent"
           IN ComputeFreezes(
                IF frozen THEN [D EXCEPT ![ev.device].state = "FrozenWithEvent",
                                         ![ev.device].event = ev]
                ELSE D,
                <<>>, rest)

(* DeliverDeviceEvents, DeliverFocusedEvent: an event that no grab takes   *)
(* goes to whoever selected it; a button press grabs the pointer for him.  *)
DeliverUngrabbed(ev, rest) ==
    \E receiver \in (Clients \ gone) \cup {None} :
        IF ev.device = Pointer /\ ev.kind = "Press" /\ receiver # None
        THEN \E w \in 1 .. top :
                ComputeFreezes(
                    Activated(dev, Pointer,
                              [client |-> receiver, window |-> w,
                               this |-> "Async", other |-> "Async"], TRUE),
                    <<>>, rest)
        ELSE dev' = dev /\ stack' = rest

(* A passive grab ends with the release, for the keyboard only with that   *)
(* of the activatingKey.                                                   *)
EndsGrab(ev) ==
    /\ ev.kind = "Release" /\ dev[ev.device].fromPassive
    /\ ev.device = Keyboard => dev[Keyboard].activating

(* DeliverGrabbedEvent, and DeactivateGrab after the release that ends the *)
(* grab.  The grab's mask or its owner's windows may keep the event from   *)
(* being reported.                                                         *)
DeliverGrabbed(ev, rest) ==
    LET d == ev.device
    IN \E reported \in BOOLEAN :
        /\ reported => dev[d].grab.client \notin gone
        /\ IF EndsGrab(ev) THEN ComputeFreezes(Deactivated(dev, d), <<>>, rest)
           ELSE /\ dev' = IF reported /\ ev.kind # "Motion"
                          THEN AfterReport(dev, ev) ELSE dev
                /\ stack' = rest

(* A press of a key that is down is taken for a release and a press, each  *)
(* given to processInputProc.                                              *)
Repeated(ev) == ev.device = Keyboard /\ ev.kind = "Press" /\ down[Keyboard]

(* realInputProc: CoreProcessKeyboardEvent, CoreProcessPointerEvent.       *)
ProcessEvent(ev, rest) ==
    IF Repeated(ev)
    THEN /\ stack' = <<[call |-> "give", event |-> [ev EXCEPT !.kind = "Release"]],
                       [call |-> "give", event |-> ev]>> \o rest
         /\ UNCHANGED <<dev, down, seen>>
    ELSE LET d == ev.device
             duplicate == d = Keyboard /\ ev.kind = "Release" /\ ~down[d]
         IN /\ seen' = [seen EXCEPT ![d] = ev.id]
            /\ down' = CASE ev.kind = "Press"   -> [down EXCEPT ![d] = TRUE]
                         [] ev.kind = "Release" -> [down EXCEPT ![d] = FALSE]
                         [] OTHER               -> down
            /\ CASE duplicate -> dev' = dev /\ stack' = rest
                 [] ~duplicate /\ dev[d].grab # None -> DeliverGrabbed(ev, rest)
                 [] ~duplicate /\ dev[d].grab = None ->
                      IF Matching(ev, 1) # {} THEN StartPassiveGrab(ev, 1, d = Keyboard, rest)
                      ELSE DeliverUngrabbed(ev, rest)

(* processInputProc.                                                       *)
ProcessInput(ev, rest) ==
    IF dev[ev.device].frozen
    THEN EnqueueEvent(ev) /\ stack' = rest /\ UNCHANGED <<dev, down, seen>>
    ELSE ProcessEvent(ev, rest) /\ UNCHANGED <<pending, pendtail>>

(* An event of the hardware.                                               *)
DeviceEvent(d, kind) ==
    /\ stack = <<>> /\ arrived < MaxEvents
    /\ CASE kind = "Motion"  -> d = Pointer
         [] kind = "Press"   -> physical[d] => d = Keyboard  \* a repeat
         [] kind = "Release" -> physical[d]
    /\ arrived' = arrived + 1
    /\ physical' = CASE kind = "Press"   -> [physical EXCEPT ![d] = TRUE]
                     [] kind = "Release" -> [physical EXCEPT ![d] = FALSE]
                     [] OTHER            -> physical
    /\ ProcessInput([device |-> d, kind |-> kind, id |-> arrived + 1], <<>>)
    /\ UNCHANGED <<passive, top, gone, cut>>

---------------------------------------------------------------------------
(* The calls on the stack.                                                 *)

Calling(call) == stack # <<>> /\ Head(stack).call = call

\* Events that may be played now.
Playable == {i \in DOMAIN pending : ~dev[pending[i].device].frozen}

(* mutant of PlayReleasedEvents: the list is played from its tail *)
PlayReleasedEventsBackwards ==
    /\ Calling("play")
    /\ IF Playable = {}
       THEN stack' = Tail(stack) /\ UNCHANGED <<dev, down, pending, pendtail, seen>>
       ELSE LET i == Max(Playable)
            IN Unlink(i) /\ ProcessEvent(pending[i], stack)
    /\ UNCHANGED <<physical, passive, top, gone, arrived, cut>>

(* PlayReleasedEvents: the first event of a thawed device, again from the  *)
(* head of the list, since the last one may have thawed another device.    *)
PlayReleasedEvents ==
    /\ Calling("play")
    /\ IF Playable = {}
       THEN stack' = Tail(stack) /\ UNCHANGED <<dev, down, pending, pendtail, seen>>
       ELSE LET i == Min(Playable)
            IN Unlink(i) /\ ProcessEvent(pending[i], stack)
    /\ UNCHANGED <<physical, passive, top, gone, arrived, cut>>

(* ComputeFreezes with a replayDev: the event goes to passive grabs below  *)
(* the window of the grab that was given up, or to whoever selected it.    *)
ReplayEvent ==
    /\ Calling("replay")
    /\ LET ev == Head(stack).event
           first == Head(stack).window + 1
       IN IF first <= top + 1 /\ Matching(ev, first) # {}
          THEN StartPassiveGrab(ev, first, FALSE, Tail(stack))
          ELSE DeliverUngrabbed(ev, Tail(stack))
    /\ UNCHANGED <<down, physical, pending, pendtail, passive, top, gone,
                   arrived, seen, cut>>

(* The two halves of a repeated press.                                     *)
GiveRepeat ==
    /\ Calling("give")
    /\ ProcessInput(Head(stack).event, Tail(stack))
    /\ cut' = (cut \/ dev[Keyboard].frozen)
    /\ UNCHANGED <<physical, passive, top, gone, arrived>>

(* mutant of ReleaseActiveGrabs: one pass over the devices *)
ReleaseActiveGrabsOnce ==
    /\ Calling("release")
    /\ LET c == Head(stack).client
           rest == <<[call |-> "free", client |-> c]>> \o Tail(stack)
       IN /\ gone' = gone \cup {c}
          /\ IF Held(c) # {}
             THEN \E d \in Held(c) : ComputeFreezes(Deactivated(dev, d), <<>>, rest)
             ELSE stack' = rest /\ UNCHANGED dev
    /\ UNCHANGED <<down, physical, pending, pendtail, passive, top, arrived, seen, cut>>

(* ReleaseActiveGrabs, then clientGone is set.                             *)
ReleaseActiveGrabs ==
    /\ Calling("release")
    /\ LET c == Head(stack).client
       IN IF Held(c) # {}
          THEN /\ \E d \in Held(c) : ComputeFreezes(Deactivated(dev, d), <<>>, stack)
               /\ UNCHANGED gone
          ELSE /\ gone' = gone \cup {c}
               /\ stack' = <<[call |-> "free", client |-> c]>> \o Tail(stack)
               /\ UNCHANGED dev
    /\ UNCHANGED <<down, physical, pending, pendtail, passive, top, arrived, seen, cut>>

(* DeleteWindow of the last window: DeleteWindowFromAnyEvents when it is   *)
(* unmapped and again when it is freed; None marks the moment it leaves    *)
(* the trace.                                                              *)
DestroyFrame == [call |-> "window", left |-> <<Pointer, Keyboard, None, Pointer, Keyboard>>]

DeleteWindow ==
    /\ Calling("window")
    /\ LET left == Head(stack).left
           rest == <<[Head(stack) EXCEPT !.left = Tail(@)]>> \o Tail(stack)
           onIt(d) == dev[d].grab # None /\ dev[d].grab.window = Depth
       IN CASE left = <<>> ->
                 /\ passive' = {p \in passive : p.grab.window # Depth}
                 /\ stack' = Tail(stack) /\ UNCHANGED <<dev, top>>
            [] left # <<>> /\ Head(left) = None ->
                 /\ top' = Depth - 1 /\ stack' = rest /\ UNCHANGED <<dev, passive>>
            [] left # <<>> /\ Head(left) # None ->
                 /\ IF onIt(Head(left))
                    THEN ComputeFreezes(Deactivated(dev, Head(left)), <<>>, rest)
                    ELSE stack' = rest /\ UNCHANGED dev
                 /\ UNCHANGED <<top, passive>>
    /\ UNCHANGED <<down, physical, pending, pendtail, gone, arrived, seen, cut>>

(* FreeClientResources: passive grabs and windows in the order of a hash   *)
(* table.                                                                  *)
FreeClientResources ==
    /\ Calling("free")
    /\ LET c == Head(stack).client
           grabs == {p \in passive : p.grab.client = c}
           window == LeafOwner = c /\ top = Depth
       IN \/ \E p \in grabs : passive' = passive \ {p} /\ UNCHANGED stack
          \/ /\ window
             /\ stack' = <<DestroyFrame>> \o stack /\ UNCHANGED passive
          \/ /\ grabs = {} /\ ~window
             /\ stack' = Tail(stack) /\ UNCHANGED passive
    /\ UNCHANGED <<dev, down, physical, pending, pendtail, top, gone, arrived, seen, cut>>

---------------------------------------------------------------------------
(* Requests.  Those with a time that is not valid do nothing.              *)

Running(c) == stack = <<>> /\ c \notin gone

RequestUnchanged == UNCHANGED <<down, physical, pending, pendtail, passive, top,
                                gone, arrived, seen, cut>>

(* ProcGrabPointer, GrabDevice.                                            *)
ProcGrab(c, d, g) ==
    /\ Running(c) /\ g.client = c /\ g.window <= top
    /\ \A o \in Clients \ {c} : d \notin Held(o)              \* AlreadyGrabbed
    /\ dev[d].frozen /\ dev[d].other # None => FrozenBy(dev, d, c) \* GrabFrozen
    /\ ComputeFreezes(Activated(dev, d, g, FALSE), <<>>, <<>>)
    /\ RequestUnchanged

(* ProcUngrabPointer, ProcUngrabKeyboard.                                  *)
ProcUngrab(c, d) ==
    /\ Running(c) /\ d \in Held(c)
    /\ ComputeFreezes(Deactivated(dev, d), <<>>, <<>>)
    /\ RequestUnchanged

(* AllowSome: what the request does to the records, and to which devices   *)
(* it allows events.                                                       *)
OthersFrozen(c, d) ==
    LET e == Other(d)
    IN IF e \in Held(c) THEN dev[e].state \in Frozen ELSE FrozenBy(dev, e, c)

ThisSynced(c, d) == Other(d) \in Held(c) /\ dev[d].other = Other(d)

AllowThis(c, d, state) ==
    [dev EXCEPT ![d].state = IF d \in Held(c) THEN state ELSE @,
                ![d].reports = IF d \in Held(c) THEN 0 ELSE @,
                ![d].other = IF ThisSynced(c, d) THEN None ELSE @]

AllowBoth(c, state) ==
    [e \in Devices |->
        [dev[e] EXCEPT !.state = IF e \in Held(c) THEN state ELSE @,
                       !.reports = IF e \in Held(c) THEN 0 ELSE @,
                       !.other = IF FrozenBy(dev, e, c) THEN None ELSE @]]

(* ProcAllowEvents: the mode and the device.                               *)
AllowSome(c, d, mode) ==
    /\ Running(c)
    /\ (d \in Held(c) /\ dev[d].state \in Frozen) \/ ThisSynced(c, d)
    /\ \/ mode = "Async" /\ ComputeFreezes(AllowThis(c, d, "Thawed"), <<>>, <<>>)
       \/ /\ mode = "Sync" /\ d \in Held(c)
          /\ ComputeFreezes(AllowThis(c, d, "FreezeNextEvent"), <<>>, <<>>)
       \/ /\ mode = "AsyncBoth" /\ d = Keyboard /\ OthersFrozen(c, d)
          /\ ComputeFreezes(AllowBoth(c, "Thawed"), <<>>, <<>>)
       \/ /\ mode = "SyncBoth" /\ d = Keyboard /\ OthersFrozen(c, d)
          /\ ComputeFreezes(AllowBoth(c, "FreezeBothNextEvent"), <<>>, <<>>)
       \/ /\ mode = "Replay" /\ d \in Held(c) /\ dev[d].state = "FrozenWithEvent"
          /\ ComputeFreezes(
               Deactivated(AllowThis(c, d, dev[d].state), d),
               <<[call |-> "replay", event |-> dev[d].event,
                  window |-> dev[d].grab.window]>>,
               <<>>)
    /\ RequestUnchanged

AllowModes == {"Async", "Sync", "AsyncBoth", "SyncBoth", "Replay"}

(* DestroyWindow by the owner of the last window.                          *)
ProcDestroyWindow ==
    /\ stack = <<>> /\ LeafOwner # None /\ LeafOwner \notin gone /\ top = Depth
    /\ stack' = <<DestroyFrame>>
    /\ UNCHANGED <<dev, down, physical, pending, pendtail, passive, top, gone,
                   arrived, seen, cut>>

(* CloseDownClient.                                                        *)
CloseDownClient(c) ==
    /\ Running(c)
    /\ stack' = <<[call |-> "release", client |-> c]>>
    /\ UNCHANGED <<dev, down, physical, pending, pendtail, passive, top, gone,
                   arrived, seen, cut>>

---------------------------------------------------------------------------
\* No device initializes activatingKey: the keyboard's is any key, at first.
Init ==
    /\ \E key \in BOOLEAN :
         dev = [d \in Devices |->
                 [grab |-> None, fromPassive |-> FALSE, activating |-> d = Keyboard /\ key,
                  state |-> "NotGrabbed", other |-> None, frozen |-> FALSE,
                  event |-> None, reports |-> 0]]
    /\ down = [d \in Devices |-> FALSE]
    /\ physical = [d \in Devices |-> FALSE]
    /\ pending = <<>> /\ pendtail = 0 /\ stack = <<>>
    /\ passive = PassiveGrabs /\ top = Depth /\ gone = {}
    /\ arrived = 0 /\ seen = [d \in Devices |-> 0] /\ cut = FALSE

(* What goes on inside a handler.                                          *)
Return ==
    \/ PlayReleasedEvents \/ ReplayEvent \/ GiveRepeat
    \/ ReleaseActiveGrabs \/ DeleteWindow \/ FreeClientResources

Request(c) ==
    \/ \E a \in ActiveGrabs : ProcGrab(c, a.device, a.grab)
    \/ \E d \in Devices : ProcUngrab(c, d)
    \/ \E d \in Devices, mode \in AllowModes : AllowSome(c, d, mode)
    \/ CloseDownClient(c)

Next ==
    \/ Return
    \/ \E d \in Devices, kind \in Kinds : DeviceEvent(d, kind)
    \/ \E c \in Clients : Request(c)
    \/ ProcDestroyWindow

Spec == Init /\ [][Next]_vars
FairSpec == Spec /\ WF_vars(Return)

---------------------------------------------------------------------------
(* Properties.                                                             *)

Frames ==
    [call: {"play"}]
    \cup [call: {"replay"}, event: Events, window: Windows]
    \cup [call: {"give"}, event: Events]
    \cup [call: {"release", "free"}, client: Clients]
    \cup [call: {"window"}, left: Seq(Devices \cup {None})]

(* Every variable has its type, and pendtail is the last link of the list  *)
(* or the one before it: an event is never enqueued in the middle.         *)
TypeOK ==
    /\ dev \in [Devices ->
                 [grab: Grabs \cup {None}, fromPassive: BOOLEAN, activating: BOOLEAN,
                  state: SyncStates, other: Devices \cup {None}, frozen: BOOLEAN,
                  event: Events \cup {None}, reports: 0 .. 2]]
    /\ down \in [Devices -> BOOLEAN] /\ physical \in [Devices -> BOOLEAN]
    /\ pending \in Seq(Events)
    /\ pendtail \in {Len(pending), Len(pending) - 1} \cap Nat
    /\ stack \in Seq(Frames)
    /\ passive \subseteq PassiveGrabs /\ top \in {Depth - 1, Depth}
    /\ gone \subseteq Clients /\ arrived \in Ids /\ seen \in [Devices -> Ids]
    /\ cut \in BOOLEAN

(* A device is frozen exactly when a grab that still exists freezes it:    *)
(* its own, waiting for AllowEvents, or the one in sync.other.  So there   *)
(* is always a client whose AllowEvents or UngrabPointer can thaw it.      *)
FrozenByAGrab ==
    \A d \in Devices :
        /\ dev[d].state = "NotGrabbed" <=> dev[d].grab = None
        /\ dev[d].other # None => dev[d].other # d /\ dev[dev[d].other].grab # None
        /\ dev[d].frozen <=> dev[d].state \in Frozen \/ dev[d].other # None

(* Back in the dispatch loop, only events of frozen devices are held back: *)
(* whatever a played event thaws is played too.                            *)
NothingHeldBack ==
    stack = <<>> => \A i \in DOMAIN pending : dev[pending[i].device].frozen

(* Events of a device are processed in the order in which they arrived:    *)
(* those held back are in order and later than the last one processed.     *)
(* (Not once a repeated press was cut: its second half is queued last.)    *)
PendingInOrder ==
    ~cut => \A i \in DOMAIN pending :
        /\ seen[pending[i].device] < pending[i].id
        /\ \A j \in 1 .. i - 1 : pending[j].device = pending[i].device =>
                                     pending[j].id < pending[i].id

(* When nothing of a device is held back, dix has the same idea as the     *)
(* hardware of whether its key or button is down (same exception).         *)
DownFollowsHardware ==
    \A d \in Devices :
        stack = <<>> /\ ~cut /\ (\A i \in DOMAIN pending : pending[i].device # d) =>
            down[d] = physical[d]

(* A synchronous grab sees one press or release at a time: none while it   *)
(* waits for the next, one when it is frozen with that event; and that     *)
(* event, which ReplayPointer would send on, is the last one processed.    *)
OneEventAtATime ==
    \A d \in Devices :
        /\ dev[d].state \in {"FreezeNextEvent", "FreezeBothNextEvent", "FrozenNoEvent"}
              => dev[d].reports = 0
        /\ dev[d].state = "FrozenWithEvent" =>
              dev[d].reports = 1 /\ dev[d].event.device = d /\ dev[d].event.id = seen[d]

(* No grab outlives its client, although releasing one grab may play an    *)
(* event that starts another for the same client.                          *)
NoGrabOfGoneClient ==
    stack = <<>> => \A d \in Devices : dev[d].grab # None => dev[d].grab.client \notin gone

(* No grab is left on a window that was destroyed.                         *)
GrabWindowsExist ==
    stack = <<>> => \A d \in Devices : dev[d].grab # None => dev[d].grab.window <= top

(* The invariant of grabs: a device is frozen exactly by a grab that       *)
(* exists, only events of frozen devices are held back, and no grab is     *)
(* left of a client that is gone or on a window that was destroyed.        *)
DeviceGrabsInv ==
    TypeOK /\ FrozenByAGrab /\ NothingHeldBack /\ NoGrabOfGoneClient /\ GrabWindowsExist

(* A handler returns: events that activate and end grabs while others are  *)
(* played do not keep the server from its dispatch loop.                   *)
HandlersReturn == []<>(stack = <<>>)
=============================================================================

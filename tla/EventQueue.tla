----------------------------- MODULE EventQueue -----------------------------
(***************************************************************************)
(* The event queue of hw/xfree86/common/xf86Xinput.c (mi/mieq.c has the    *)
(* same one): the SIGIO handler of a pointing device puts events in a ring *)
(* buffer while the dispatch loop takes them out.  The handler runs to     *)
(* completion and may run between any two steps of the main program except *)
(* inside xf86WarpCursor, which blocks the signal.  The main program's     *)
(* loop is split at every access to memory the handler writes.             *)
(*                                                                         *)
(* A position is the serial number of the input that moved the pointer     *)
(* there, so a greater position is a later one; it lies on one screen.     *)
(* The fields of a slot are copied in one step: the handler only rewrites  *)
(* a motion by a later motion, and a position is one word.                 *)
(***************************************************************************)
EXTENDS Integers

CONSTANTS
    QUEUE_SIZE,      \* slots of the ring (256 in the code)
    Screens,         \* screenInfo.screens
    FirstScreen,     \* screenInfo.screens[0]
    WarpScreens,     \* screens that ProcWarpPointer may name
    Times,           \* values GetTimeInMillis may return
    UninitPositions, \* what the unset rootX, rootY of a button event may hold
    MaxInputs        \* bound: inputs and pointer warps in a behaviour

ASSUME EventQueueAssumption ==
    /\ QUEUE_SIZE \in Nat /\ QUEUE_SIZE >= 2
    /\ FirstScreen \in Screens
    /\ WarpScreens \subseteq Screens
    /\ Times \subseteq Nat /\ Times # {} /\ \A t, u \in Times : t - u < 10000
    /\ UninitPositions \subseteq 0 .. MaxInputs /\ UninitPositions # {}
    /\ MaxInputs \in Nat

VARIABLES
    xf86EventQueue,      \* the queue
    miPointer,           \* mi's idea of the pointer: where the device left it
    xf86CoreButtonState, \* the driver side's idea of the button: down or not
    sprite,              \* dix's idea of the pointer: hotPhys and hot
    buttonDown,          \* dix's idea of the button
    currentTime,         \* dix's clock, the latest event time it has seen
    pc,                  \* where the main program is
    xe,                  \* its copy of the event being processed
    xy,                  \* its copy of the position of a screen switch
    serial,              \* history: inputs so far
    happened,            \* history: serial of the last button event posted
    processed            \* history: the last button event dix processed

vars == <<xf86EventQueue, miPointer, xf86CoreButtonState, sprite, buttonDown,
          currentTime, pc, xe, xy, serial, happened, processed>>

handlerVars == <<miPointer, xf86CoreButtonState, serial, happened>>
dixVars == <<sprite, buttonDown, currentTime, processed>>

Slots == 0 .. QUEUE_SIZE - 1
Positions == 0 .. MaxInputs
Points == [pScreen: Screens, pos: Positions]
Events == [type: {"Motion", "Press", "Release"}, pos: Positions, time: Times,
           serial: Positions, pScreen: Screens]

NoEvent == [type |-> "Motion", pos |-> 0, time |-> CHOOSE t \in Times : TRUE,
            serial |-> 0, pScreen |-> FirstScreen]

QueueRecords ==
    [head: Slots, tail: Slots, lastEventTime: Times, lastMotion: BOOLEAN,
     events: [Slots -> Events], pEnqueueScreen: Screens, pDequeueScreen: Screens]

TypeOK ==
    /\ xf86EventQueue \in QueueRecords
    /\ miPointer \in Points
    /\ xf86CoreButtonState \in BOOLEAN
    /\ sprite \in [hotPhys: Points, hot: Points]
    /\ buttonDown \in BOOLEAN
    /\ currentTime \in Times
    /\ pc \in {"idle", "wait", "select", "request", "copy", "advance", "process",
               "switch", "read", "skip", "newScreen"}
    /\ xe \in Events
    /\ xy \in Positions
    /\ {serial, happened, processed} \subseteq Positions
-----------------------------------------------------------------------------
(***************************************************************************)
(* The ring.                                                               *)
(***************************************************************************)

Successor(i) == IF i = QUEUE_SIZE - 1 THEN 0 ELSE i + 1

Predecessor(i) == IF i = 0 THEN QUEUE_SIZE - 1 ELSE i - 1

(* mutant of NotEmpty: forgets that the ring wraps *)
NotEmptyUnwrapped == xf86EventQueue.head < xf86EventQueue.tail

NotEmpty == xf86EventQueue.head # xf86EventQueue.tail

(* "Make sure that event times don't go backwards": Times lie within 10 s. *)
Stamp(q, e) ==
    IF e.time < q.lastEventTime THEN [e EXCEPT !.time = q.lastEventTime] ELSE e

(* mutant of Enqueue: does not toss what comes late *)
EnqueueWithoutToss(q, e) ==
    LET isMotion == e.type = "Motion"
        replaces == isMotion /\ q.lastMotion /\ q.tail # q.head
        slot     == IF replaces THEN Predecessor(q.tail) ELSE q.tail
    IN  [q EXCEPT !.tail = IF replaces THEN @ ELSE Successor(@),
                  !.lastMotion = isMotion,
                  !.events[slot] = [Stamp(q, e) EXCEPT !.pScreen = q.pEnqueueScreen]]

(* mutant of Enqueue: replaces the first queued event, not the last one *)
EnqueueReplacingFirst(q, e) ==
    LET isMotion == e.type = "Motion"
        replaces == isMotion /\ q.lastMotion /\ q.tail # q.head
        slot     == IF replaces THEN q.head ELSE q.tail
        newtail  == IF replaces THEN q.tail ELSE Successor(q.tail)
    IN  IF ~replaces /\ newtail = q.head
        THEN q
        ELSE [q EXCEPT !.tail = newtail,
                       !.lastMotion = isMotion,
                       !.events[slot] = [Stamp(q, e) EXCEPT !.pScreen = q.pEnqueueScreen]]

(* xf86eqEnqueue: a motion that follows a motion still queued replaces it; *)
(* an event that comes late, when the ring is full, is tossed.             *)
Enqueue(q, e) ==
    LET isMotion == e.type = "Motion"
        replaces == isMotion /\ q.lastMotion /\ q.tail # q.head
        slot     == IF replaces THEN Predecessor(q.tail) ELSE q.tail
        newtail  == IF replaces THEN q.tail ELSE Successor(q.tail)
    IN  IF ~replaces /\ newtail = q.head
        THEN q
        ELSE [q EXCEPT !.tail = newtail,
                       !.lastMotion = isMotion,
                       !.events[slot] = [Stamp(q, e) EXCEPT !.pScreen = q.pEnqueueScreen]]

(* xf86eqSwitchScreen *)
SwitchScreen(q, s, fromDIX) ==
    [q EXCEPT !.pEnqueueScreen = s,
              !.pDequeueScreen = IF fromDIX THEN s ELSE @]

Motion(p, t) == [NoEvent EXCEPT !.pos = p, !.time = t]

Button(down, n, p, t) ==
    [NoEvent EXCEPT !.type = IF down THEN "Press" ELSE "Release",
                    !.serial = n, !.pos = p, !.time = t]

(* miPointerMove, after NewEventScreen if the pointer changes screens *)
MovePointer(s, p, t, fromDIX) ==
    LET q == IF s = miPointer.pScreen THEN xf86EventQueue
             ELSE SwitchScreen(xf86EventQueue, s, fromDIX)
    IN  /\ miPointer' = [pScreen |-> s, pos |-> p]
        /\ xf86EventQueue' = Enqueue(q, Motion(p, t))

-----------------------------------------------------------------------------
(***************************************************************************)
(* The handler.                                                            *)
(***************************************************************************)

NextInput ==
    /\ serial < MaxInputs
    /\ serial' = serial + 1

(* A signal ends the select() that the main program may be in;             *)
(* WaitForSomething then returns if the queue is not empty.                *)
EndsSelect ==
    /\ pc' = IF pc # "select" THEN pc ELSE IF NotEmpty' THEN "idle" ELSE "wait"
    /\ UNCHANGED <<xe, xy>> /\ UNCHANGED dixVars

(* xf86PostMotionEvent, through miPointerAbsoluteCursor *)
PostMotionEvent(s, t) ==
    /\ NextInput
    /\ MovePointer(s, serial + 1, t, FALSE)
    /\ EndsSelect
    /\ UNCHANGED <<xf86CoreButtonState, happened>>

(* xf86PostButtonEvent: the button changes (xf86CheckButton) *)
PostButtonEvent(p, t) ==
    /\ NextInput
    /\ xf86CoreButtonState' = ~xf86CoreButtonState
    /\ happened' = serial + 1
    /\ xf86EventQueue' =
         Enqueue(xf86EventQueue, Button(xf86CoreButtonState', serial + 1, p, t))
    /\ EndsSelect
    /\ UNCHANGED miPointer

-----------------------------------------------------------------------------
(***************************************************************************)
(* The dispatch loop.  "idle" is the test of the loop and of the two       *)
(* checks for input in Dispatch.                                           *)
(***************************************************************************)

Goto(from, to) == pc = from /\ pc' = to

(* No input: execute a request that is ready, or wait. *)
NoInput ==
    /\ ~NotEmpty
    /\ Goto("idle", "wait") \/ Goto("idle", "request")
    /\ UNCHANGED <<xf86EventQueue, xe, xy>> /\ UNCHANGED handlerVars
    /\ UNCHANGED dixVars

CallSelect ==
    /\ Goto("wait", "select")
    /\ UNCHANGED <<xf86EventQueue, xe, xy>> /\ UNCHANGED handlerVars
    /\ UNCHANGED dixVars

(* select() returns: a client's socket is readable or a timer is due. *)
SelectReturns ==
    /\ Goto("select", "idle")
    /\ UNCHANGED <<xf86EventQueue, xe, xy>> /\ UNCHANGED handlerVars
    /\ UNCHANGED dixVars

(* A request that leaves the pointer alone. *)
ProcOther ==
    /\ Goto("request", "idle")
    /\ UNCHANGED <<xf86EventQueue, xe, xy>> /\ UNCHANGED handlerVars
    /\ UNCHANGED dixVars

(* ProcWarpPointer; NewCurrentScreen if the pointer changes screens. *)
ProcWarpPointer(s, t) ==
    /\ Goto("request", "idle")
    /\ NextInput
    /\ MovePointer(s, serial + 1, t, TRUE)
    /\ sprite' = IF s = sprite.hotPhys.pScreen THEN sprite
                 ELSE [sprite EXCEPT !.hotPhys = [pScreen |-> s, pos |-> serial + 1]]
    /\ UNCHANGED <<xf86CoreButtonState, buttonDown, currentTime, xe, xy,
                   happened, processed>>

-----------------------------------------------------------------------------
(***************************************************************************)
(* xf86eqProcessInputEvents                                                *)
(***************************************************************************)

SlotAtHead == xf86EventQueue.events[xf86EventQueue.head]

AdvanceHead == xf86EventQueue' = [xf86EventQueue EXCEPT !.head = Successor(@)]

(* Is the event for the screen events are dispatched to? *)
CompareScreens ==
    /\ NotEmpty
    /\ Goto("idle", IF SlotAtHead.pScreen = xf86EventQueue.pDequeueScreen
                    THEN "copy" ELSE "switch")
    /\ UNCHANGED <<xf86EventQueue, xe, xy>> /\ UNCHANGED handlerVars
    /\ UNCHANGED dixVars

CopyEvent ==
    /\ Goto("copy", "advance")
    /\ xe' = SlotAtHead
    /\ UNCHANGED <<xf86EventQueue, xy>> /\ UNCHANGED handlerVars /\ UNCHANGED dixVars

TakeEvent ==
    /\ Goto("advance", "process")
    /\ AdvanceHead
    /\ UNCHANGED <<xe, xy>> /\ UNCHANGED handlerVars /\ UNCHANGED dixVars

(* NoticeTime, MonthChangedOrBadTime: an earlier time is a bad time. *)
NoticeTime(t) == IF t < currentTime THEN currentTime ELSE t

(* mutant of ProcessEvent: takes the pointer's position, not the event's *)
ProcessEventAtPointer ==
    /\ Goto("process", "idle")
    /\ currentTime' = NoticeTime(xe.time)
    /\ \/ /\ xe.type = "Motion"
          /\ LET p == [sprite.hotPhys EXCEPT !.pos = miPointer.pos]
             IN  sprite' = [hotPhys |-> p, hot |-> p]
          /\ UNCHANGED <<buttonDown, processed>>
       \/ /\ xe.type # "Motion"
          /\ buttonDown' = (xe.type = "Press")
          /\ processed' = xe.serial
          /\ UNCHANGED sprite
    /\ xe' = NoEvent
    /\ UNCHANGED <<xf86EventQueue, xy>> /\ UNCHANGED handlerVars

(* processInputProc: CoreProcessPointerEvent, CheckMotion *)
ProcessEvent ==
    /\ Goto("process", "idle")
    /\ currentTime' = NoticeTime(xe.time)
    /\ \/ /\ xe.type = "Motion"
          /\ LET p == [sprite.hotPhys EXCEPT !.pos = xe.pos]
             IN  sprite' = [hotPhys |-> p, hot |-> p]
          /\ UNCHANGED <<buttonDown, processed>>
       \/ /\ xe.type # "Motion"
          /\ buttonDown' = (xe.type = "Press")
          /\ processed' = xe.serial
          /\ UNCHANGED sprite
    /\ xe' = NoEvent
    /\ UNCHANGED <<xf86EventQueue, xy>> /\ UNCHANGED handlerVars

(* The event is for another screen: dispatch to that screen from now on. *)
SwitchDequeueScreen ==
    /\ Goto("switch", "read")
    /\ xf86EventQueue' = [xf86EventQueue EXCEPT !.pDequeueScreen = SlotAtHead.pScreen]
    /\ UNCHANGED <<xe, xy>> /\ UNCHANGED handlerVars /\ UNCHANGED dixVars

ReadPosition ==
    /\ Goto("read", "skip")
    /\ xy' = SlotAtHead.pos
    /\ UNCHANGED <<xf86EventQueue, xe>> /\ UNCHANGED handlerVars /\ UNCHANGED dixVars

SkipEvent ==
    /\ Goto("skip", "newScreen")
    /\ AdvanceHead
    /\ UNCHANGED <<xe, xy>> /\ UNCHANGED handlerVars /\ UNCHANGED dixVars

(* NewCurrentScreen: ConfineCursorToWindow warps the pointer, with an      *)
(* event, if the sprite changes screens.                                   *)
NewCurrentScreen(t) ==
    LET s == xf86EventQueue.pDequeueScreen
    IN  /\ Goto("newScreen", "idle")
        /\ sprite' = [sprite EXCEPT !.hotPhys = [pScreen |-> s, pos |-> xy]]
        /\ IF s = sprite.hotPhys.pScreen
           THEN UNCHANGED <<xf86EventQueue, miPointer>>
           ELSE MovePointer(s, xy, t, TRUE)
        /\ xy' = 0
        /\ UNCHANGED <<xf86CoreButtonState, buttonDown, currentTime, xe,
                       serial, happened, processed>>

-----------------------------------------------------------------------------
InitialPoint == [pScreen |-> FirstScreen, pos |-> 0]

(* xf86eqInit, and a pointer at rest on the first screen *)
Init ==
    /\ xf86EventQueue \in
         [head: {0}, tail: {0}, lastEventTime: Times, lastMotion: {FALSE},
          events: {[i \in Slots |-> NoEvent]},
          pEnqueueScreen: {FirstScreen}, pDequeueScreen: {FirstScreen}]
    /\ miPointer = InitialPoint
    /\ xf86CoreButtonState = FALSE
    /\ sprite = [hotPhys |-> InitialPoint, hot |-> InitialPoint]
    /\ buttonDown = FALSE
    /\ currentTime = xf86EventQueue.lastEventTime
    /\ pc = "idle"
    /\ xe = NoEvent
    /\ xy = 0
    /\ serial = 0 /\ happened = 0 /\ processed = 0

Handler ==
    \E t \in Times :
        \/ \E s \in Screens : PostMotionEvent(s, t)
        \/ \E p \in UninitPositions : PostButtonEvent(p, t)

ProcessInputEvents ==
    \/ CompareScreens \/ CopyEvent \/ TakeEvent \/ ProcessEvent
    \/ SwitchDequeueScreen \/ ReadPosition \/ SkipEvent
    \/ \E t \in Times : NewCurrentScreen(t)

Request ==
    \/ ProcOther
    \/ \E s \in WarpScreens, t \in Times : ProcWarpPointer(s, t)

MainProgram == NoInput \/ CallSelect \/ ProcessInputEvents \/ Request

Step == Handler \/ MainProgram \/ SelectReturns

Spec == Init /\ [][Step]_vars

(* The main program runs on while it does not wait in select().            *)
RunningSpec == Spec /\ WF_vars(MainProgram)

(* And select() returns from time to time: some client sends a request or  *)
(* some timer expires.                                                     *)
FairSpec == RunningSpec /\ WF_vars(SelectReturns)
-----------------------------------------------------------------------------
(***************************************************************************)
(* Properties.                                                             *)
(***************************************************************************)

IsButton(e) == e.type # "Motion"

Occupied(q) == IF q.head <= q.tail THEN q.tail - q.head ELSE q.tail - q.head + QUEUE_SIZE

(* The slot, and the event, that k others come before. *)
SlotAt(q, k) == IF q.head + k < QUEUE_SIZE THEN q.head + k ELSE q.head + k - QUEUE_SIZE

EventAt(q, k) == q.events[SlotAt(q, k)]

Ranks(q) == 0 .. Occupied(q) - 1

WaitingButtons(q) ==
    {EventAt(q, k).serial : k \in {j \in Ranks(q) : IsButton(EventAt(q, j))}}

(* The ring of the signal handler and the main program implements the      *)
(* queue of button events: order is kept, nothing is dispatched twice, and *)
(* an event is tossed only when half the slots hold button events, since   *)
(* motions between two of them are one slot (xf86eqEnqueue).               *)
Fifo == INSTANCE InputFifo WITH
            Capacity <- (QUEUE_SIZE - 1) \div 2,
            waiting  <- WaitingButtons(xf86EventQueue),
            inHand   <- IF pc = "process" /\ IsButton(xe) THEN xe.serial ELSE 0

ImplementsFifo == Fifo!Spec

(* A motion that happened after a button event is never dispatched before  *)
(* it: compression must not cross a button event.  dix reports the button  *)
(* at sprite.hot.                                                          *)
ButtonNotOvertaken ==
    pc = "process" /\ IsButton(xe) => sprite.hot.pos < xe.serial

(* The invariant: every variable has its type, the indices of the ring     *)
(* stay in it, and compression does not cross a button event.              *)
EventQueueInv == TypeOK /\ ButtonNotOvertaken

(* Dispatched motions move dix's pointer forward in time only, whatever    *)
(* the handler does to a slot while it is being read.                      *)
MotionsInOrder ==
    [][sprite'.hot.pos >= sprite.hot.pos /\ sprite'.hotPhys.pos >= sprite.hotPhys.pos]_vars

(* All input is dispatched in the end: the motion that a screen switch     *)
(* itself enqueues never keeps the loop going for ever.                    *)
InputDrained == []<>(xf86EventQueue.head = xf86EventQueue.tail /\ pc = "idle")
=============================================================================

---------------------------- MODULE MCEventQueue ----------------------------
(***************************************************************************)
(* Model-checking instances of EventQueue.                                 *)
(* The formulas below are ones that a comment or a document states and the *)
(* code does not keep: README.md (Departures) says how each one fails.     *)
(***************************************************************************)
EXTENDS EventQueue

(* "This call should make the server suspend until [...] there is an input *)
(* event": the server does not stay in select() while an event waits.      *)
WokenByInput == [](pc = "select" /\ NotEmpty => <>(pc # "select"))

(* "Make sure that event times don't go backwards": the events in the      *)
(* queue carry times that never decrease.                                  *)
QueuedTimesInOrder ==
    \A i, j \in Ranks(xf86EventQueue) :
        i < j => EventAt(xf86EventQueue, i).time <= EventAt(xf86EventQueue, j).time

(* "Assumption - screen switching can only occur on motion events": no     *)
(* button event is dropped as a screen switch.                             *)
SwitchesAreMotions == pc = "skip" => ~IsButton(SlotAtHead)

(* "Check the core pointer button state not to send an inconsistent        *)
(* event": dix sees a press only of a released button, and conversely.     *)
ButtonsConsistent ==
    pc = "process" /\ IsButton(xe) => (xe.type = "Press") = ~buttonDown

(* "Must be reentrant with ProcessInputEvents": once the queue is empty    *)
(* dix knows where the device left the pointer.                            *)
LatestMotionDispatched ==
    pc \in {"wait", "select"} /\ ~NotEmpty => sprite.hotPhys = miPointer
=============================================================================

--------------------------- MODULE MCDeviceGrabs ---------------------------
(***************************************************************************)
(* Model-checking instances of DeviceGrabs.                                *)
(***************************************************************************)
EXTENDS DeviceGrabs

G(c, w, this, other) == [client |-> c, window |-> w, this |-> this, other |-> other]
P(d, g) == [device |-> d, grab |-> g]

(* Client 1 has passive grabs of both devices, client 2 owns the last      *)
(* window.                                                                 *)
MCPassiveGrabs == {P(Pointer, G(1, 1, "Sync", "Async")),
                   P(Pointer, G(1, 2, "Sync", "Sync")),
                   P(Keyboard, G(1, 1, "Async", "Sync"))}

(* Both clients ask for the pointer, client 2 on its own window; client 1  *)
(* asks for the keyboard.                                                  *)
MCActiveGrabs == {P(Pointer, G(2, 2, "Sync", "Sync")),
                  P(Pointer, G(1, 1, "Async", "Sync")),
                  P(Keyboard, G(1, 1, "Sync", "Async"))}

---------------------------------------------------------------------------
(* Properties of DeviceGrabs that do not hold (departures).                *)

(* Held events of a device stay in order, also when a freeze falls between *)
(* the two halves of a repeated press.                                     *)
RepeatsInOrder ==
    \A i \in DOMAIN pending : \A j \in 1 .. i - 1 :
        pending[j].device = pending[i].device => pending[j].id < pending[i].id

(* "The active grab is terminated automatically when the logical state of  *)
(* the keyboard has the specified key released": a passive grab of a key   *)
(* is there only while the key is down.                                    *)
KeyGrabsEnd == stack = <<>> /\ dev[Keyboard].fromPassive => down[Keyboard]

(* Client 1 grabs the keyboard; what it replays meets its passive grab of  *)
(* the key on the window below.                                            *)
MCReplayPassive == {P(Keyboard, G(1, 2, "Async", "Async"))}
MCReplayActive == {P(Keyboard, G(1, 1, "Sync", "Async"))}
=============================================================================

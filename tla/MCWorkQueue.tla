---------------------------- MODULE MCWorkQueue ----------------------------
(***************************************************************************)
(* Model-checking instances of WorkQueue.                                  *)
(* The formula below is one that the code does not keep: README.md         *)
(* (Departures) says how it fails.                                         *)
(***************************************************************************)
EXTENDS WorkQueue

(* No function is ever called on a closure that was freed.                 *)
ClosuresAlwaysLive == \A c \in Clients : Queued(c, wq) # {} => closure[c] = "live"
=============================================================================

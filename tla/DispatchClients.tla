--------------------------- MODULE DispatchClients ---------------------------
(***************************************************************************)
(* The clients of Dispatch, which its two halves share: whose requests may *)
(* be executed (ServerGrab) and which of those clients is served           *)
(* (SmartScheduler).                                                       *)
(***************************************************************************)
CONSTANTS Clients,   \* indices of clients[]
          Mortal     \* clients whose connection may fail

(* The index of serverClient; NullClient.                                  *)
NoClient == 0
=============================================================================

---------------------------- MODULE MCServerGrab ----------------------------
(***************************************************************************)
(* Model-checking instances of ServerGrab.                                 *)
(* The formulas below are ones that a comment or a document states and the *)
(* code does not keep: README.md (Departures) says how each one fails.     *)
(***************************************************************************)
EXTENDS ServerGrab

(* A client that was put to sleep, or waits for the grab, is not read from *)
(* until AttendClient is called for it ("Must have cooresponding call to   *)
(* AttendClient" above IgnoreClient), for every client.                    *)
IgnoredNotListenedTo ==
    \A c \in Clients : Ignored(c) => c \notin masks.AllClients

(* Every connected client that nothing holds back is listened to or will   *)
(* be when the grab ends ("Undoes OnlyListentToOneClient()" above          *)
(* ListenToAllClients), for every client.                                  *)
NoClientLost ==
    \A c \in Clients : Connected(c) /\ ~Ignored(c) =>
        \/ c \in masks.AllClients
        \/ Grabbed /\ c \in masks.SavedAllClients

(* When the grab has ended and clients still wait for it, one client that  *)
(* UngrabServer woke is about to grab the server and will later wake the   *)
(* next ("This request restarts processing of requests").                  *)
WaitersHaveWaker ==
    ~Grabbed /\ grabWaiters # {} => resetRequest \ grabWaiters # {}
=============================================================================

----------------------------- MODULE ServerGrab -----------------------------
(***************************************************************************)
(* The dispatch loop and the server grab (dix/dispatch.c) over the masks   *)
(* of os/connection.c: which client's requests the server executes next    *)
(* while clients connect, die, sleep, are killed, grab the server, wait    *)
(* for the grab, and make themselves impervious to it.                     *)
(*                                                                         *)
(* The server is one thread.  A step of the model is one thing it does     *)
(* between two points where it chooses what to do next: one request, one   *)
(* return from WaitForSomething, one connection accepted or closed.        *)
(* Requests are counted, their contents are abstracted to their kind.      *)
(***************************************************************************)
EXTENDS ConnMasks

CONSTANTS
    MaxRequests,          \* bound: whole requests in flight per socket
    WordBits,             \* bits per word of grabWaiters (32 in the code)
    SmartScheduleDisable, \* the -dumbSched option
    ImperviousUsers,      \* clients that issue XTestGrabControl
    Sleepers,             \* clients that issue a request that blocks them
    Retainers,            \* clients that issue ChangeCloseDownMode
    Killers               \* clients that issue KillClient

ASSUME ServerGrabAssumption ==
    /\ Clients \subseteq Nat
    /\ MaxRequests \in Nat \ {0}
    /\ WordBits \in Nat \ {0}
    /\ SmartScheduleDisable \in BOOLEAN
    /\ ImperviousUsers \subseteq Clients
    /\ Sleepers \subseteq Clients
    /\ Retainers \subseteq Clients
    /\ Mortal \subseteq Clients
    /\ Killers \subseteq Clients

VARIABLES
    masks,        \* the masks of os/connection.c
    grabState,    \* GrabNone, GrabKickout or GrabActive
    grabClient,   \* last client that grabbed the server (never reset)
    grabWaiters,  \* clients whose GrabServer waits for the grab to end
    clientState,  \* clients[c]: NULL, connected, or gone but retained
    closeDownMode,\* what CloseDownClient does with the client's resources
    asleep,       \* ignored until some event calls AttendClient
    buffered,     \* whole requests in the client's input buffer
    inSocket,     \* whole requests still in the client's socket
    resetRequest, \* clients whose next request is a GrabServer issued again
    clientReady,  \* what is left of the list WaitForSomething returned
    current       \* the client the dispatch loop is serving

vars == <<masks, grabState, grabClient, grabWaiters, clientState,
          closeDownMode, asleep, buffered, inSocket, resetRequest,
          clientReady, current>>

TypeOK ==
    /\ masks \in Masks
    /\ grabState \in {"None", "Kickout", "Active"}
    /\ grabClient \in Clients \cup {NoClient}
    /\ grabWaiters \subseteq Clients
    /\ clientState \in [Clients -> {"NULL", "Connected", "Retained"}]
    /\ closeDownMode \in [Clients -> {"DestroyAll", "Retain"}]
    /\ asleep \subseteq Clients
    /\ buffered \in [Clients -> 0..MaxRequests]
    /\ inSocket \in [Clients -> 0..MaxRequests]
    /\ resetRequest \subseteq Clients
    /\ clientReady \subseteq Clients
    /\ current \in Clients \cup {NoClient}

Init ==
    /\ masks = InitMasks
    /\ grabState = "None"
    /\ grabClient = NoClient
    /\ grabWaiters = {}
    /\ clientState = [c \in Clients |-> "NULL"]
    /\ closeDownMode = [c \in Clients |-> "DestroyAll"]
    /\ asleep = {}
    /\ buffered = [c \in Clients |-> 0]
    /\ inSocket = [c \in Clients |-> 0]
    /\ resetRequest = {}
    /\ clientReady = {}
    /\ current = NoClient

Connected(c) == clientState[c] = "Connected"
GrabbedBy(c) == grabState # "None" /\ grabClient = c

----------------------------------------------------------------------------
(* UngrabServer wakes one waiter: the lowest index within the highest word *)
(* of the bit vector that is not zero.                                     *)
IsNextWaiter(w) ==
    IF grabWaiters = {}
    THEN w = NoClient
    ELSE /\ w \in grabWaiters
         /\ \A d \in grabWaiters :
               \/ w \div WordBits > d \div WordBits
               \/ w \div WordBits = d \div WordBits /\ w =< d

UngrabServer(m, w) ==
    LET all == ListenToAllClients(m)
    IN  IF w = NoClient THEN all ELSE AttendClient(all, w)

(* Mutant: a client that dies keeps the grab.                              *)
CloseDownClientKeepingGrab(m, b, s, c) ==
    /\ masks' = CloseDownFileDescriptor(m, c)
    /\ grabWaiters' = grabWaiters \ {c}
    /\ clientState' = [clientState EXCEPT ![c] =
           IF closeDownMode[c] = "DestroyAll" THEN "NULL" ELSE "Retained"]
    /\ asleep' = asleep \ {c}
    /\ buffered' = [b EXCEPT ![c] = 0]
    /\ inSocket' = [s EXCEPT ![c] = 0]
    /\ resetRequest' = resetRequest \ {c}
    /\ UNCHANGED <<grabState, grabClient, closeDownMode>>

(* CloseDownClient of a connected client, the masks being m and b and s    *)
(* the requests buffered and in the sockets: the grab is released before   *)
(* the connection is forgotten; a sleeping client's pending work is run    *)
(* and finds clientGone set.                                               *)
CloseDownClient(m, b, s, c) ==
    \E w \in Clients \cup {NoClient} :
        /\ IF GrabbedBy(c) THEN IsNextWaiter(w) ELSE w = NoClient
        /\ masks' = CloseDownFileDescriptor(
                        IF GrabbedBy(c) THEN UngrabServer(m, w) ELSE m, c)
        /\ grabState' = IF GrabbedBy(c) THEN "None" ELSE grabState
        /\ grabWaiters' = grabWaiters \ {w, c}
        /\ clientState' = [clientState EXCEPT ![c] =
               IF closeDownMode[c] = "DestroyAll" THEN "NULL" ELSE "Retained"]
        /\ asleep' = asleep \ {c}
        /\ buffered' = [b EXCEPT ![c] = 0]
        /\ inSocket' = [s EXCEPT ![c] = 0]
        /\ resetRequest' = resetRequest \ {c}
        /\ UNCHANGED <<grabClient, closeDownMode>>

----------------------------------------------------------------------------
(* A client's requests, as the server sees them.                           *)
ClientSends(c) ==
    /\ Connected(c)
    /\ inSocket[c] < MaxRequests
    /\ inSocket' = [inSocket EXCEPT ![c] = @ + 1]
    /\ UNCHANGED <<masks, grabState, grabClient, grabWaiters, clientState,
                   closeDownMode, asleep, buffered, resetRequest,
                   clientReady, current>>

(* EstablishNewConnections accepts c; InitClient sets it up.               *)
EstablishNewConnection(c) ==
    /\ current = NoClient /\ clientReady = {}
    /\ clientState[c] = "NULL"
    /\ masks' = AllocNewConnection(masks, c)
    /\ clientState' = [clientState EXCEPT ![c] = "Connected"]
    /\ closeDownMode' = [closeDownMode EXCEPT ![c] = "DestroyAll"]
    /\ UNCHANGED <<grabState, grabClient, grabWaiters, asleep, buffered,
                   inSocket, resetRequest, clientReady, current>>

(* Closed outside the dispatch loop: a straggler of                        *)
(* EstablishNewConnections or a bad descriptor found by CheckConnections.  *)
LoseConnection(c) ==
    /\ current = NoClient /\ clientReady = {}
    /\ c \in Mortal /\ Connected(c)
    /\ CloseDownClient(masks, buffered, inSocket, c)
    /\ UNCHANGED <<clientReady, current>>

DevicesChange ==
    /\ current = NoClient /\ clientReady = {}
    /\ \E d \in Devices :
          masks' = IF d \in masks.EnabledDevices
                   THEN RemoveEnabledDevice(masks, d)
                   ELSE AddEnabledDevice(masks, d)
    /\ UNCHANGED <<grabState, grabClient, grabWaiters, clientState,
                   closeDownMode, asleep, buffered, inSocket, resetRequest,
                   clientReady, current>>

(* The event a sleeping client waits for: ClientWakeup, a SYNC trigger, a  *)
(* time.  It may happen while another client is served.                    *)
Awaken(c) ==
    /\ c \in asleep
    /\ asleep' = asleep \ {c}
    /\ masks' = AttendClient(masks, c)
    /\ UNCHANGED <<grabState, grabClient, grabWaiters, clientState,
                   closeDownMode, buffered, inSocket, resetRequest,
                   clientReady, current>>

----------------------------------------------------------------------------
(* The clients WaitForSomething may report.  ClientsWithInput is returned  *)
(* as it is; sockets count only when selected on.  Without the smart       *)
(* scheduler, clients with buffered requests come first and every client   *)
(* of the highest priority is returned; with it, one client is.            *)
ClientsReadable ==
    LET selected == {c \in masks.AllClients : inSocket[c] > 0}
    IN  IF SmartScheduleDisable /\ masks.ClientsWithInput # {}
        THEN masks.ClientsWithInput
        ELSE masks.ClientsWithInput \cup selected

WaitForSomething ==
    /\ current = NoClient /\ clientReady = {}
    /\ IF SmartScheduleDisable
       THEN \E S \in SUBSET ClientsReadable : S # {} /\ clientReady' = S
       ELSE \E c \in ClientsReadable : clientReady' = {c}
    /\ UNCHANGED <<masks, grabState, grabClient, grabWaiters, clientState,
                   closeDownMode, asleep, buffered, inSocket, resetRequest,
                   current>>

(* Mutant: the list of ready clients outlives the grab.                    *)
DispatchNextWithoutKickout(c) ==
    /\ current = NoClient /\ c \in clientReady
    /\ current' = IF clientState[c] = "NULL" THEN NoClient ELSE c
    /\ clientReady' = clientReady \ {c}
    /\ UNCHANGED <<masks, grabState, grabClient, grabWaiters, clientState,
                   closeDownMode, asleep, buffered, inSocket, resetRequest>>

(* Mutant: a client killed meanwhile is served.                            *)
DispatchNextWithoutNullCheck(c) ==
    /\ current = NoClient /\ c \in clientReady
    /\ IF grabState = "Kickout"
       THEN grabState' = "Active" /\ clientReady' = {} /\ UNCHANGED current
       ELSE /\ current' = c
            /\ clientReady' = clientReady \ {c}
            /\ UNCHANGED grabState
    /\ UNCHANGED <<masks, grabClient, grabWaiters, clientState,
                   closeDownMode, asleep, buffered, inSocket, resetRequest>>

(* One round of Dispatch's loop over clientReady.                          *)
DispatchNext(c) ==
    /\ current = NoClient /\ c \in clientReady
    /\ \/ /\ clientState[c] = "NULL"
          /\ clientReady' = clientReady \ {c}
          /\ UNCHANGED <<grabState, current>>
       \/ /\ clientState[c] # "NULL" /\ grabState = "Kickout"
          /\ grabState' = "Active"
          /\ clientReady' = {}
          /\ UNCHANGED current
       \/ /\ clientState[c] # "NULL" /\ grabState # "Kickout"
          /\ current' = c
          /\ clientReady' = clientReady \ {c}
          /\ UNCHANGED grabState
    /\ UNCHANGED <<masks, grabClient, grabWaiters, clientState,
                   closeDownMode, asleep, buffered, inSocket, resetRequest>>

----------------------------------------------------------------------------
(* ReadRequestFromClient takes a buffered request if there is a whole one, *)
(* else reads from the socket whatever part of its contents arrives.       *)
Reads(c) == IF buffered[c] > 0 THEN {0} ELSE 1..inSocket[c]

Left(c, k) == buffered[c] + k - 1

(* The masks after the read that returns a request.                        *)
Taken(c, k) == ReadRequestFromClient(masks, c, Left(c, k) > 0)

(* Whom the loop goes on with: the same client unless its time slice or    *)
(* its share of requests is used up or, without the smart scheduler, its   *)
(* buffer is empty.                                                        *)
AfterRequest(c, k) ==
    IF SmartScheduleDisable /\ Left(c, k) = 0
    THEN {NoClient}
    ELSE {c, NoClient}

(* A request is executed: k requests were read, the first one is taken.    *)
Executes(c, k) ==
    /\ current = c /\ Connected(c)
    /\ k \in Reads(c)
    /\ inSocket' = [inSocket EXCEPT ![c] = @ - k]

(* Nothing to read, or not yet a whole request.                            *)
ReadReturnsNothing(c) ==
    /\ current = c /\ Connected(c)
    /\ buffered[c] = 0 /\ inSocket[c] = 0
    /\ masks' = ReadRequestFromClient(masks, c, FALSE)
    /\ current' = NoClient
    /\ UNCHANGED <<grabState, grabClient, grabWaiters, clientState,
                   closeDownMode, asleep, buffered, inSocket, resetRequest,
                   clientReady>>

(* End of file or error on the socket, or an exception marked on c.        *)
ReadFails(c) ==
    /\ current = c /\ Connected(c) /\ c \in Mortal
    /\ CloseDownClient(masks, buffered, inSocket, c)
    /\ current' = NoClient
    /\ UNCHANGED clientReady

ProcGrabServer(c) ==
    \E k \in 0..MaxRequests :
      /\ Executes(c, k)
      /\ IF grabState # "None" /\ grabClient # c
         THEN /\ masks' = IgnoreClient(ResetCurrentRequest(Taken(c, k), c), c)
              /\ buffered' = [buffered EXCEPT ![c] = Left(c, k) + 1]
              /\ grabWaiters' = grabWaiters \cup {c}
              /\ resetRequest' = resetRequest \cup {c}
              /\ current' = NoClient
              /\ UNCHANGED <<grabState, grabClient>>
         ELSE /\ masks' = OnlyListenToOneClient(Taken(c, k), c)
              /\ buffered' = [buffered EXCEPT ![c] = Left(c, k)]
              /\ resetRequest' = resetRequest \ {c}
              /\ grabState' = "Kickout"
              /\ grabClient' = c
              /\ current' \in AfterRequest(c, k)
              /\ UNCHANGED grabWaiters
      /\ UNCHANGED <<clientState, closeDownMode, asleep, clientReady>>

(* Any client that is served may end the grab, not only its owner.         *)
ProcUngrabServer(c) ==
    \E k \in 0..MaxRequests, w \in Clients \cup {NoClient} :
      /\ Executes(c, k) /\ c \notin resetRequest
      /\ IsNextWaiter(w)
      /\ masks' = UngrabServer(Taken(c, k), w)
      /\ buffered' = [buffered EXCEPT ![c] = Left(c, k)]
      /\ grabState' = "None"
      /\ grabWaiters' = grabWaiters \ {w}
      /\ current' \in AfterRequest(c, k)
      /\ UNCHANGED <<grabClient, clientState, closeDownMode, asleep,
                     resetRequest, clientReady>>

(* XTestGrabControl.  Becoming pervious under another's grab yields.       *)
ProcXTestGrabControl(c) ==
    \E k \in 0..MaxRequests, impervious \in BOOLEAN :
      /\ c \in ImperviousUsers
      /\ Executes(c, k) /\ c \notin resetRequest
      /\ masks' = IF impervious
                  THEN MakeClientGrabImpervious(Taken(c, k), c)
                  ELSE MakeClientGrabPervious(Taken(c, k), c)
      /\ buffered' = [buffered EXCEPT ![c] = Left(c, k)]
      /\ current' \in
            IF ~impervious /\ masks.GrabInProgress \notin {NoClient, c}
            THEN {NoClient} ELSE AfterRequest(c, k)
      /\ UNCHANGED <<grabState, grabClient, grabWaiters, clientState,
                     closeDownMode, asleep, resetRequest, clientReady>>

(* A request that blocks its client: ClientSleep, SyncAwait, SleepUntil.   *)
Sleep(c) ==
    \E k \in 0..MaxRequests :
      /\ c \in Sleepers
      /\ Executes(c, k) /\ c \notin resetRequest
      /\ masks' = IgnoreClient(Taken(c, k), c)
      /\ buffered' = [buffered EXCEPT ![c] = Left(c, k)]
      /\ asleep' = asleep \cup {c}
      /\ current' = NoClient
      /\ UNCHANGED <<grabState, grabClient, grabWaiters, clientState,
                     closeDownMode, resetRequest, clientReady>>

ProcChangeCloseDownMode(c) ==
    \E k \in 0..MaxRequests, mode \in {"DestroyAll", "Retain"} :
      /\ c \in Retainers
      /\ Executes(c, k) /\ c \notin resetRequest
      /\ masks' = Taken(c, k)
      /\ buffered' = [buffered EXCEPT ![c] = Left(c, k)]
      /\ closeDownMode' = [closeDownMode EXCEPT ![c] = mode]
      /\ current' \in AfterRequest(c, k)
      /\ UNCHANGED <<grabState, grabClient, grabWaiters, clientState,
                     asleep, resetRequest, clientReady>>

(* KillClient on oneself or on another connected client.                   *)
ProcKillClient(c, victim) ==
    \E k \in Reads(c) :
      /\ c \in Killers /\ victim \in Mortal
      /\ current = c /\ Connected(c) /\ c \notin resetRequest
      /\ Connected(victim)
      /\ CloseDownClient(Taken(c, k),
                         [buffered EXCEPT ![c] = Left(c, k)],
                         [inSocket EXCEPT ![c] = @ - k],
                         victim)
      /\ current' \in IF victim = c THEN {NoClient} ELSE AfterRequest(c, k)
      /\ UNCHANGED clientReady

(* KillClient on a client that is gone: its resources are freed and its    *)
(* slot can be used again.                                                 *)
KillRetained(c, victim) ==
    \E k \in 0..MaxRequests :
      /\ c \in Killers
      /\ Executes(c, k) /\ c \notin resetRequest
      /\ clientState[victim] = "Retained"
      /\ masks' = Taken(c, k)
      /\ buffered' = [buffered EXCEPT ![c] = Left(c, k)]
      /\ clientState' = [clientState EXCEPT ![victim] = "NULL"]
      /\ current' \in AfterRequest(c, k)
      /\ UNCHANGED <<grabState, grabClient, grabWaiters, closeDownMode,
                     asleep, resetRequest, clientReady>>

(* Every other request leaves this state alone.                            *)
OtherRequest(c) ==
    \E k \in 0..MaxRequests :
      /\ Executes(c, k) /\ c \notin resetRequest
      /\ masks' = Taken(c, k)
      /\ buffered' = [buffered EXCEPT ![c] = Left(c, k)]
      /\ current' \in AfterRequest(c, k)
      /\ UNCHANGED <<grabState, grabClient, grabWaiters, clientState,
                     closeDownMode, asleep, resetRequest, clientReady>>

Serve(c) ==
    \/ ReadReturnsNothing(c)
    \/ ReadFails(c)
    \/ ProcGrabServer(c)
    \/ ProcUngrabServer(c)
    \/ ProcXTestGrabControl(c)
    \/ Sleep(c)
    \/ ProcChangeCloseDownMode(c)
    \/ \E victim \in Clients : ProcKillClient(c, victim)
    \/ \E victim \in Clients : KillRetained(c, victim)
    \/ OtherRequest(c)

Next ==
    \/ \E c \in Clients : ClientSends(c)
    \/ \E c \in Clients : EstablishNewConnection(c)
    \/ \E c \in Clients : LoseConnection(c)
    \/ DevicesChange
    \/ \E c \in Clients : Awaken(c)
    \/ WaitForSomething
    \/ \E c \in Clients : DispatchNext(c)
    \/ \E c \in Clients : Serve(c)

Spec == Init /\ [][Next]_vars

----------------------------------------------------------------------------
Grabbed == grabState # "None"
Ignored(c) == c \in asleep \/ c \in grabWaiters

(* The clients whose masks the code keeps right.  Not among them: a client *)
(* that makes itself impervious and, when there are such clients, one that *)
(* sleeps, because it may be put to sleep while it owns the grab and an    *)
(* impervious client may then end its grab.                                *)
Tracked == {c \in Clients \ ImperviousUsers :
                ImperviousUsers = {} \/ c \notin Sleepers}

(* A client is listened to exactly when it is connected, does not sleep or *)
(* wait for the grab, and no other client has the grab; a client held back *)
(* by a grab is remembered in SavedAllClients, and no other client is:     *)
(* what IgnoreClient, AttendClient, OnlyListenToOneClient,                 *)
(* ListenToAllClients, AllocNewConnection and CloseDownFileDescriptor      *)
(* promise together, whatever their order.                                 *)
MasksMatchClients ==
    \A c \in Tracked :
        LET eligible == Connected(c) /\ ~Ignored(c)
        IN  /\ c \in masks.AllClients
                  <=> eligible /\ (Grabbed => grabClient = c)
            /\ Grabbed /\ grabClient # c
                  => (c \in masks.SavedAllClients <=> eligible)

(* A whole request in a client's input buffer is never forgotten: the      *)
(* select loop is told of it at once, when the grab ends or when the       *)
(* client is attended to again, and it is never told of one that is not    *)
(* there (ClientsWithInput and its Saved and Ignored copies).              *)
BufferedRequestsRemembered ==
    \A c \in Tracked : Connected(c) =>
        LET where == IF Ignored(c) THEN masks.IgnoredClientsWithInput
                     ELSE IF Grabbed /\ grabClient # c
                          THEN masks.SavedClientsWithInput
                          ELSE masks.ClientsWithInput
        IN  c \in where <=> buffered[c] > 0

(* Nothing select() uses names a descriptor that has been closed           *)
(* (CloseDownFileDescriptor after CloseDownClient's UngrabServer), and     *)
(* neither a client that is gone nor the one that takes its descriptor     *)
(* next inherits its waits, its input or its imperviousness.               *)
ClosedClientsForgotten ==
    \A c \in Clients : ~Connected(c) =>
        /\ c \notin masks.AllSockets \cup masks.ClientsWithInput
        /\ c \notin masks.GrabImperviousClients
        /\ ~Ignored(c)
        /\ Grabbed => c \notin masks.SavedAllSockets
                              \cup masks.SavedClientsWithInput

(* The sockets selected on are the clients listened to, the enabled        *)
(* devices and the listening sockets, and the same will hold after the     *)
(* grab, also for devices that came and went meanwhile (AddEnabledDevice,  *)
(* RemoveEnabledDevice).                                                   *)
SocketsMatch ==
    /\ masks.AllSockets =
          masks.AllClients \cup masks.EnabledDevices \cup Listeners
    /\ Grabbed => masks.SavedAllSockets =
          masks.SavedAllClients \cup masks.EnabledDevices \cup Listeners

(* dix and os agree on who has the grab, and the owner is connected.       *)
GrabOwnerConnected ==
    /\ Grabbed <=> masks.GrabInProgress # NoClient
    /\ Grabbed => masks.GrabInProgress = grabClient /\ Connected(grabClient)

(* While a client has the server grabbed, no other client's request is     *)
(* executed unless it is impervious, even when it was already on the list  *)
(* that WaitForSomething returned before the grab (GrabKickout).           *)
GrabExcludesOthers ==
    \A c \in Clients : current = c /\ Connected(c) /\ Grabbed =>
        c = grabClient \/ c \in masks.GrabImperviousClients

(* The client Dispatch serves has a connection to read from: osPrivate is  *)
(* not NULL when ReadRequestFromClient is called.                          *)
ServedClientConnected == current # NoClient => Connected(current)

----------------------------------------------------------------------------
(* The dispatch loop goes on; a time slice ends (SmartScheduleSlice, or    *)
(* isItTimeToYield); SmartScheduleClient goes round the clients that are   *)
(* ready, so that none of them is passed over for ever.                    *)
Fairness ==
    /\ WF_vars(\E c \in Clients : DispatchNext(c) \/ Serve(c))
    /\ SF_vars(\E c \in Clients : Serve(c) /\ current' = NoClient)
    /\ \A c \in Clients : SF_vars(WaitForSomething /\ c \in clientReady')

FairSpec == Spec /\ Fairness

(* A released server does not leave its waiters behind: while clients wait *)
(* and nobody has the grab, somebody will have it (UngrabServer wakes one  *)
(* waiter, whose GrabServer is executed again).                            *)
ReleasedServerIsRegrabbed == ~Grabbed /\ grabWaiters # {} ~> Grabbed
=============================================================================

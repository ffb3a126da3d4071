----------------------------- MODULE ConnMasks -----------------------------
(***************************************************************************)
(* The descriptor masks of os/connection.c: which sockets the server       *)
(* selects on, which clients have a whole request waiting in their input   *)
(* buffer, and how GrabServer, sleeping clients and grab-impervious        *)
(* clients move descriptors between the working masks and the Saved ones.  *)
(*                                                                         *)
(* A mask is a set.  A client stands for both its index and its socket     *)
(* (ConnectionTranslation and oc->fd are the two directions of that        *)
(* correspondence); index 0 is the server's own client, so 0 also says     *)
(* "no grab in progress", as in the code.  Every operator takes the record *)
(* of masks and returns the record the C function leaves behind, which     *)
(* lets a caller that makes several calls be written as a composition.     *)
(***************************************************************************)
EXTENDS Naturals, DispatchClients

CONSTANTS Devices,    \* descriptors of input devices
          Listeners   \* WellKnownConnections

ASSUME ConnMasksAssumption ==
    /\ NoClient \notin Clients
    /\ Clients \cap Devices = {}
    /\ Clients \cap Listeners = {}
    /\ Devices \cap Listeners = {}

Sockets == Clients \cup Devices \cup Listeners

Masks == [AllClients              : SUBSET Clients,
          AllSockets              : SUBSET Sockets,
          ClientsWithInput        : SUBSET Clients,
          SavedAllClients         : SUBSET Clients,
          SavedAllSockets         : SUBSET Sockets,
          SavedClientsWithInput   : SUBSET Clients,
          IgnoredClientsWithInput : SUBSET Clients,
          GrabImperviousClients   : SUBSET Clients,
          EnabledDevices          : SUBSET Devices,
          GrabInProgress          : Clients \cup {NoClient}]

(* CreateWellKnownSockets: every mask is cleared, the listening sockets    *)
(* are entered in AllSockets; no grab is in progress.                      *)
InitMasks == [AllClients              |-> {},
              AllSockets              |-> Listeners,
              ClientsWithInput        |-> {},
              SavedAllClients         |-> {},
              SavedAllSockets         |-> {},
              SavedClientsWithInput   |-> {},
              IgnoredClientsWithInput |-> {},
              GrabImperviousClients   |-> {},
              EnabledDevices          |-> {},
              GrabInProgress          |-> NoClient]

----------------------------------------------------------------------------
(* A new socket is listened to at once, or when the grab is over.  The     *)
(* partial request that NextAvailableClient inserts leaves the client      *)
(* without input.                                                          *)
AllocNewConnection(m, c) ==
    IF m.GrabInProgress # NoClient
    THEN [m EXCEPT !.ClientsWithInput = @ \ {c},
                   !.SavedAllClients = @ \cup {c},
                   !.SavedAllSockets = @ \cup {c}]
    ELSE [m EXCEPT !.ClientsWithInput = @ \ {c},
                   !.AllClients = @ \cup {c},
                   !.AllSockets = @ \cup {c}]

(* The descriptor is entered in or cleared from the Saved masks as well,   *)
(* but only while a grab is in progress.                                   *)
SavedToo(m, fd) == IF m.GrabInProgress # NoClient THEN {fd} ELSE {}

(* Mutant: only the working masks forget the descriptor.                   *)
CloseDownFileDescriptorNotSaved(m, c) ==
    [m EXCEPT !.AllSockets = @ \ {c},
              !.AllClients = @ \ {c},
              !.ClientsWithInput = @ \ {c},
              !.GrabImperviousClients = @ \ {c}]

(* IgnoredClientsWithInput keeps whatever the dead client left there.      *)
CloseDownFileDescriptor(m, c) ==
    LET saved == SavedToo(m, c)
    IN  [m EXCEPT !.AllSockets = @ \ {c},
                  !.AllClients = @ \ {c},
                  !.ClientsWithInput = @ \ {c},
                  !.GrabImperviousClients = @ \ {c},
                  !.SavedAllSockets = @ \ saved,
                  !.SavedAllClients = @ \ saved,
                  !.SavedClientsWithInput = @ \ saved]

(* Mutant: the device is entered in the wrong mask.                        *)
AddEnabledDeviceAsClient(m, d) ==
    [m EXCEPT !.AllClients = @ \cup {d},
              !.AllSockets = @ \cup {d}]

AddEnabledDevice(m, d) ==
    [m EXCEPT !.EnabledDevices = @ \cup {d},
              !.AllSockets = @ \cup {d},
              !.SavedAllSockets = @ \cup SavedToo(m, d)]

RemoveEnabledDevice(m, d) ==
    [m EXCEPT !.EnabledDevices = @ \ {d},
              !.AllSockets = @ \ {d},
              !.SavedAllSockets = @ \ SavedToo(m, d)]

----------------------------------------------------------------------------
(* Mutant: the input of the others is not saved.                           *)
OnlyListenToOneClientLosingInput(m, c) ==
    LET listen == (m.AllClients \cap m.GrabImperviousClients) \cup {c}
    IN  IF m.GrabInProgress # NoClient
        THEN m
        ELSE [m EXCEPT
                !.ClientsWithInput =
                    @ \cap (m.GrabImperviousClients \cup {c}),
                !.SavedClientsWithInput = {},
                !.SavedAllSockets = m.AllSockets,
                !.SavedAllClients = m.AllClients,
                !.AllSockets = (@ \ m.AllClients) \cup listen,
                !.AllClients = listen,
                !.GrabInProgress = c]

OnlyListenToOneClient(m, c) ==
    LET listen == (m.AllClients \cap m.GrabImperviousClients) \cup {c}
    IN  IF m.GrabInProgress # NoClient
        THEN m
        ELSE [m EXCEPT
                !.ClientsWithInput =
                    @ \cap (m.GrabImperviousClients \cup {c}),
                !.SavedClientsWithInput =
                    m.ClientsWithInput \ (m.GrabImperviousClients \cup {c}),
                !.SavedAllSockets = m.AllSockets,
                !.SavedAllClients = m.AllClients,
                !.AllSockets = (@ \ m.AllClients) \cup listen,
                !.AllClients = listen,
                !.GrabInProgress = c]

ListenToAllClients(m) ==
    IF m.GrabInProgress # NoClient
    THEN [m EXCEPT !.AllSockets = @ \cup m.SavedAllSockets,
                   !.AllClients = @ \cup m.SavedAllClients,
                   !.ClientsWithInput = @ \cup m.SavedClientsWithInput,
                   !.GrabInProgress = NoClient]
    ELSE m

(* S with c in it exactly when the condition holds (FD_SET or FD_CLR).     *)
Assign(S, c, cond) == IF cond THEN S \cup {c} ELSE S \ {c}

IgnoreClient(m, c) ==
    IF m.GrabInProgress = NoClient \/ c \in m.AllClients
    THEN [m EXCEPT !.IgnoredClientsWithInput =
                       Assign(@, c, c \in m.ClientsWithInput),
                   !.ClientsWithInput = @ \ {c},
                   !.AllSockets = @ \ {c},
                   !.AllClients = @ \ {c}]
    ELSE [m EXCEPT !.IgnoredClientsWithInput =
                       Assign(@, c, c \in m.SavedClientsWithInput),
                   !.SavedClientsWithInput = @ \ {c},
                   !.SavedAllSockets = @ \ {c},
                   !.SavedAllClients = @ \ {c}]

(* Mutant: the client is listened to although another has the grab.        *)
AttendClientAtOnce(m, c) ==
    [m EXCEPT !.AllClients = @ \cup {c},
              !.AllSockets = @ \cup {c},
              !.ClientsWithInput = @ \cup (m.IgnoredClientsWithInput \cap {c})]

(* Mutant: the request the client had in its buffer is forgotten.          *)
AttendClientLosingInput(m, c) ==
    IF \/ m.GrabInProgress \in {NoClient, c}
       \/ c \in m.GrabImperviousClients
    THEN [m EXCEPT !.AllClients = @ \cup {c},
                   !.AllSockets = @ \cup {c}]
    ELSE [m EXCEPT !.SavedAllClients = @ \cup {c},
                   !.SavedAllSockets = @ \cup {c}]

AttendClient(m, c) ==
    LET input == m.IgnoredClientsWithInput \cap {c}
    IN  IF \/ m.GrabInProgress \in {NoClient, c}
           \/ c \in m.GrabImperviousClients
        THEN [m EXCEPT !.AllClients = @ \cup {c},
                       !.AllSockets = @ \cup {c},
                       !.ClientsWithInput = @ \cup input]
        ELSE [m EXCEPT !.SavedAllClients = @ \cup {c},
                       !.SavedAllSockets = @ \cup {c},
                       !.SavedClientsWithInput = @ \cup input]

MakeClientGrabImpervious(m, c) ==
    [m EXCEPT !.GrabImperviousClients = @ \cup {c}]

MakeClientGrabPervious(m, c) ==
    LET pervious == [m EXCEPT !.GrabImperviousClients = @ \ {c}]
    IN  IF m.GrabInProgress \notin {NoClient, c}
        THEN [pervious EXCEPT
                !.SavedClientsWithInput =
                    @ \cup (m.ClientsWithInput \cap {c}),
                !.ClientsWithInput = @ \ {c},
                !.AllSockets = @ \ {c},
                !.AllClients = @ \ {c}]
        ELSE pervious

----------------------------------------------------------------------------
(* What os/io.c does to the masks.  After a request has been taken from    *)
(* the buffer, the client has input exactly when another whole request is  *)
(* left there.                                                             *)
ReadRequestFromClient(m, c, more) ==
    [m EXCEPT !.ClientsWithInput = Assign(@, c, more)]

(* The request just read is made the next one again.                       *)
ResetCurrentRequest(m, c) ==
    IF c \in m.AllClients
    THEN [m EXCEPT !.ClientsWithInput = @ \cup {c}]
    ELSE [m EXCEPT !.IgnoredClientsWithInput = @ \cup {c}]
=============================================================================

-------------------------- MODULE ServerGrab_proofs --------------------------
(***************************************************************************)
(* Proofs about ServerGrab, for every set of clients, devices and          *)
(* listening sockets, every bound on the requests and both schedulers; and *)
(* about SmartScheduler, the other half of Dispatch, for every set of      *)
(* priorities and length of a slice.                                       *)
(***************************************************************************)
EXTENDS ServerGrab, SmartScheduler, WellFoundedInduction, TLAPS

(* Who may be impervious, wait for the grab, or sleep.                     *)
RolesKept ==
    /\ masks.GrabImperviousClients \subseteq ImperviousUsers
    /\ grabWaiters \subseteq ImperviousUsers
    /\ asleep \subseteq Sleepers

(* Under a grab only its owner and impervious clients are in the working   *)
(* masks, and the owner's input is not saved.                              *)
WorkingMasksRestricted ==
    Grabbed =>
        /\ masks.AllClients \cup masks.ClientsWithInput
              \subseteq {grabClient} \cup masks.GrabImperviousClients
        /\ grabClient \notin masks.SavedClientsWithInput

(* A tracked client that is ignored has its input bit in                   *)
(* IgnoredClientsWithInput only, and a free slot has no request.           *)
InputTidy ==
    /\ \A c \in Tracked : Ignored(c) =>
          /\ c \notin masks.ClientsWithInput
          /\ Grabbed => c \notin masks.SavedClientsWithInput
    /\ \A c \in Clients : ~Connected(c) => buffered[c] = 0

(* The client that is served, and those still on the list, do not sleep    *)
(* and are not held back, unless the list is about to be dropped; the      *)
(* client that is served is no longer on the list.                         *)
ServiceAllowed ==
    /\ current \notin clientReady
    /\ \A c \in Tracked : current = c /\ Connected(c) => ~Ignored(c)
    /\ \A c \in clientReady : Connected(c) =>
          /\ c \in Tracked => ~Ignored(c)
          /\ Grabbed => \/ grabState = "Kickout"
                        \/ c = grabClient
                        \/ c \in masks.GrabImperviousClients

IInv ==
    /\ TypeOK
    /\ GrabOwnerConnected
    /\ SocketsMatch
    /\ RolesKept
    /\ ClosedClientsForgotten
    /\ WorkingMasksRestricted
    /\ InputTidy
    /\ ServiceAllowed
    /\ GrabExcludesOthers
    /\ MasksMatchClients
    /\ BufferedRequestsRemembered

----------------------------------------------------------------------------
(* What each operation on the masks returns, field by field where several  *)
(* cases meet.                                                             *)

(* The initial masks have their type.                                      *)
LEMMA InitMasksType == InitMasks \in Masks
BY ConnMasksAssumption DEF InitMasks, Masks, Sockets, NoClient

(* Every operation of os/connection.c and os/io.c returns masks of the     *)
(* right type.                                                             *)
LEMMA MaskTypes ==
    ASSUME NEW m \in Masks, NEW c \in Clients
    PROVE  /\ AllocNewConnection(m, c) \in Masks
           /\ CloseDownFileDescriptor(m, c) \in Masks
           /\ OnlyListenToOneClient(m, c) \in Masks
           /\ ListenToAllClients(m) \in Masks
           /\ IgnoreClient(m, c) \in Masks
           /\ AttendClient(m, c) \in Masks
           /\ MakeClientGrabImpervious(m, c) \in Masks
           /\ MakeClientGrabPervious(m, c) \in Masks
           /\ \A more \in BOOLEAN : ReadRequestFromClient(m, c, more) \in Masks
           /\ ResetCurrentRequest(m, c) \in Masks
<1>1. AllocNewConnection(m, c) \in Masks
  BY DEF AllocNewConnection, Masks, Sockets
<1>2. CloseDownFileDescriptor(m, c) \in Masks
  BY DEF CloseDownFileDescriptor, Masks, Sockets
<1>3. OnlyListenToOneClient(m, c) \in Masks
  BY DEF OnlyListenToOneClient, Masks, Sockets
<1>4. ListenToAllClients(m) \in Masks
  BY DEF ListenToAllClients, Masks, Sockets
<1>5. IgnoreClient(m, c) \in Masks
  BY DEF IgnoreClient, Masks, Sockets, Assign
<1>6. AttendClient(m, c) \in Masks
  BY DEF AttendClient, Masks, Sockets
<1>7. MakeClientGrabImpervious(m, c) \in Masks
  BY DEF MakeClientGrabImpervious, Masks
<1>8. MakeClientGrabPervious(m, c) \in Masks
  BY DEF MakeClientGrabPervious, Masks, Sockets
<1>9. \A more \in BOOLEAN : ReadRequestFromClient(m, c, more) \in Masks
  BY DEF ReadRequestFromClient, Masks, Assign
<1>10. ResetCurrentRequest(m, c) \in Masks
  BY DEF ResetCurrentRequest, Masks
<1> QED BY <1>1, <1>2, <1>3, <1>4, <1>5, <1>6, <1>7, <1>8, <1>9, <1>10

(* Devices come and go with masks of the right type.                       *)
LEMMA DeviceMaskTypes ==
    ASSUME NEW m \in Masks, NEW d \in Devices
    PROVE  /\ AddEnabledDevice(m, d) \in Masks
           /\ RemoveEnabledDevice(m, d) \in Masks
BY DEF AddEnabledDevice, RemoveEnabledDevice, SavedToo, Masks, Sockets

(* Ending the grab, with or without a waiter to wake, and the read of a    *)
(* request keep the type of the masks.                                     *)
LEMMA ServerMaskTypes ==
    ASSUME NEW m \in Masks
    PROVE  /\ ListenToAllClients(m) \in Masks
           /\ \A w \in Clients \cup {NoClient} : UngrabServer(m, w) \in Masks
<1>1. ListenToAllClients(m) \in Masks
  BY DEF ListenToAllClients, Masks, Sockets
<1>2. \A w \in Clients \cup {NoClient} : UngrabServer(m, w) \in Masks
  BY <1>1, MaskTypes DEF UngrabServer
<1> QED BY <1>1, <1>2

(* The arithmetic of reading: what was read from the socket and is not the *)
(* request returned is left in the buffer, and both stay within bounds.    *)
LEMMA ReadBounds ==
    ASSUME TypeOK, NEW c \in Clients, NEW k \in Reads(c)
    PROVE  /\ k \in 0..inSocket[c]
           /\ Left(c, k) \in 0..MaxRequests
           /\ Left(c, k) + 1 \in 0..MaxRequests
           /\ inSocket[c] - k \in 0..MaxRequests
BY ServerGrabAssumption DEF TypeOK, Reads, Left

(* The masks after the read have their type.                               *)
LEMMA TakenType ==
    ASSUME TypeOK, NEW c \in Clients, NEW k \in Reads(c)
    PROVE  Taken(c, k) \in Masks
<1>1. (Left(c, k) > 0) \in BOOLEAN
  OBVIOUS
<1> QED BY <1>1, MaskTypes DEF TypeOK, Taken

(* CloseDownClient keeps the types of the state it changes.                *)
LEMMA CloseDownType ==
    ASSUME TypeOK, NEW c \in Clients, NEW m \in Masks,
           NEW b \in [Clients -> 0..MaxRequests],
           NEW s \in [Clients -> 0..MaxRequests],
           CloseDownClient(m, b, s, c),
           clientReady' \subseteq Clients,
           current' \in Clients \cup {NoClient}
    PROVE  TypeOK'
<1> PICK w \in Clients \cup {NoClient} :
        /\ masks' = CloseDownFileDescriptor(
                        IF GrabbedBy(c) THEN UngrabServer(m, w) ELSE m, c)
        /\ grabState' = IF GrabbedBy(c) THEN "None" ELSE grabState
        /\ grabWaiters' = grabWaiters \ {w, c}
        /\ clientState' = [clientState EXCEPT ![c] =
               IF closeDownMode[c] = "DestroyAll" THEN "NULL" ELSE "Retained"]
        /\ asleep' = asleep \ {c}
        /\ buffered' = [b EXCEPT ![c] = 0]
        /\ inSocket' = [s EXCEPT ![c] = 0]
        /\ resetRequest' = resetRequest \ {c}
        /\ UNCHANGED <<grabClient, closeDownMode>>
  BY DEF CloseDownClient
<1>1. masks' \in Masks
  <2>1. (IF GrabbedBy(c) THEN UngrabServer(m, w) ELSE m) \in Masks
    BY ServerMaskTypes
  <2> QED BY <2>1, MaskTypes
<1>2. /\ buffered' \in [Clients -> 0..MaxRequests]
      /\ inSocket' \in [Clients -> 0..MaxRequests]
  BY ServerGrabAssumption
<1> QED BY <1>1, <1>2 DEF TypeOK

----------------------------------------------------------------------------
(* One request taken by an executed request: the facts every request       *)
(* handler starts from.                                                    *)
LEMMA ExecutesFacts ==
    ASSUME TypeOK, NEW c \in Clients, NEW k \in 0..MaxRequests,
           Executes(c, k)
    PROVE  /\ k \in Reads(c)
           /\ Taken(c, k) \in Masks
           /\ Left(c, k) \in 0..MaxRequests
           /\ Left(c, k) + 1 \in 0..MaxRequests
           /\ inSocket' \in [Clients -> 0..MaxRequests]
           /\ \A n \in AfterRequest(c, k) : n \in Clients \cup {NoClient}
<1>1. k \in Reads(c)
  BY DEF Executes
<1>2. /\ k \in 0..inSocket[c]
      /\ Left(c, k) \in 0..MaxRequests
      /\ Left(c, k) + 1 \in 0..MaxRequests
      /\ inSocket[c] - k \in 0..MaxRequests
  BY <1>1, ReadBounds
<1>3. inSocket' \in [Clients -> 0..MaxRequests]
  BY <1>2 DEF Executes, TypeOK
<1>4. Taken(c, k) \in Masks
  BY <1>1, TakenType
<1>5. \A n \in AfterRequest(c, k) : n \in Clients \cup {NoClient}
  BY DEF AfterRequest
<1> QED BY <1>1, <1>2, <1>3, <1>4, <1>5

(* Every step of the server keeps the types, handler by handler.           *)
LEMMA TypeStep == TypeOK /\ [Next]_vars => TypeOK'
<1> SUFFICES ASSUME TypeOK, [Next]_vars PROVE TypeOK'
  OBVIOUS
<1>1. ASSUME NEW c \in Clients, ClientSends(c) PROVE TypeOK'
  <2>1. inSocket[c] + 1 \in 0..MaxRequests
    BY <1>1, ServerGrabAssumption DEF ClientSends, TypeOK
  <2> QED BY <1>1, <2>1 DEF ClientSends, TypeOK
<1>2. ASSUME NEW c \in Clients, EstablishNewConnection(c) PROVE TypeOK'
  BY <1>2, MaskTypes DEF EstablishNewConnection, TypeOK
<1>3. ASSUME NEW c \in Clients, LoseConnection(c) PROVE TypeOK'
  BY <1>3, CloseDownType DEF LoseConnection, TypeOK
<1>4. ASSUME DevicesChange PROVE TypeOK'
  BY <1>4, DeviceMaskTypes DEF DevicesChange, TypeOK
<1>5. ASSUME NEW c \in Clients, Awaken(c) PROVE TypeOK'
  BY <1>5, MaskTypes DEF Awaken, TypeOK
<1>6. ASSUME WaitForSomething PROVE TypeOK'
  <2>1. clientReady' \subseteq Clients
    BY <1>6 DEF WaitForSomething, ClientsReadable, TypeOK, Masks
  <2> QED BY <1>6, <2>1 DEF WaitForSomething, TypeOK
<1>7. ASSUME NEW c \in Clients, DispatchNext(c) PROVE TypeOK'
  BY <1>7 DEF DispatchNext, TypeOK
<1>8. ASSUME NEW c \in Clients, ReadReturnsNothing(c) PROVE TypeOK'
  BY <1>8, MaskTypes DEF ReadReturnsNothing, TypeOK
<1>9. ASSUME NEW c \in Clients, ReadFails(c) PROVE TypeOK'
  BY <1>9, CloseDownType DEF ReadFails, TypeOK
<1>10. ASSUME NEW c \in Clients, ProcGrabServer(c) PROVE TypeOK'
  <2> PICK k \in 0..MaxRequests : ProcGrabServer(c)!(k)
    BY <1>10 DEF ProcGrabServer
  <2>1. /\ IgnoreClient(ResetCurrentRequest(Taken(c, k), c), c) \in Masks
        /\ OnlyListenToOneClient(Taken(c, k), c) \in Masks
    BY ExecutesFacts, MaskTypes
  <2> QED BY <2>1, ExecutesFacts DEF TypeOK
<1>11. ASSUME NEW c \in Clients, ProcUngrabServer(c) PROVE TypeOK'
  <2> PICK k \in 0..MaxRequests, w \in Clients \cup {NoClient} :
          ProcUngrabServer(c)!(k, w)
    BY <1>11 DEF ProcUngrabServer
  <2>1. UngrabServer(Taken(c, k), w) \in Masks
    BY ExecutesFacts, ServerMaskTypes
  <2> QED BY <2>1, ExecutesFacts DEF TypeOK
<1>12. ASSUME NEW c \in Clients, ProcXTestGrabControl(c) PROVE TypeOK'
  <2> PICK k \in 0..MaxRequests, impervious \in BOOLEAN :
          ProcXTestGrabControl(c)!(k, impervious)
    BY <1>12 DEF ProcXTestGrabControl
  <2>1. masks' \in Masks
    BY ExecutesFacts, MaskTypes
  <2>2. current' \in Clients \cup {NoClient}
    BY ExecutesFacts
  <2> QED BY <2>1, <2>2, ExecutesFacts DEF TypeOK
<1>13. ASSUME NEW c \in Clients, Sleep(c) PROVE TypeOK'
  <2> PICK k \in 0..MaxRequests : Sleep(c)!(k)
    BY <1>13 DEF Sleep
  <2>1. IgnoreClient(Taken(c, k), c) \in Masks
    BY ExecutesFacts, MaskTypes
  <2> QED BY <2>1, ExecutesFacts DEF TypeOK
<1>14. ASSUME NEW c \in Clients, ProcChangeCloseDownMode(c) PROVE TypeOK'
  <2> PICK k \in 0..MaxRequests, mode \in {"DestroyAll", "Retain"} :
          ProcChangeCloseDownMode(c)!(k, mode)
    BY <1>14 DEF ProcChangeCloseDownMode
  <2> QED BY ExecutesFacts DEF TypeOK
<1>15. ASSUME NEW c \in Clients, NEW victim \in Clients,
              ProcKillClient(c, victim)
       PROVE  TypeOK'
  <2> PICK k \in Reads(c) : ProcKillClient(c, victim)!(k)
    BY <1>15 DEF ProcKillClient
  <2>1. /\ Taken(c, k) \in Masks
        /\ [buffered EXCEPT ![c] = Left(c, k)] \in [Clients -> 0..MaxRequests]
        /\ [inSocket EXCEPT ![c] = @ - k] \in [Clients -> 0..MaxRequests]
    BY ReadBounds, TakenType DEF TypeOK
  <2>2. current' \in Clients \cup {NoClient}
    BY DEF AfterRequest
  <2>3. clientReady' \subseteq Clients
    BY DEF TypeOK
  <2> QED BY <2>1, <2>2, <2>3, CloseDownType
<1>16. ASSUME NEW c \in Clients, NEW victim \in Clients,
              KillRetained(c, victim)
       PROVE  TypeOK'
  <2> PICK k \in 0..MaxRequests : KillRetained(c, victim)!(k)
    BY <1>16 DEF KillRetained
  <2> QED BY ExecutesFacts DEF TypeOK
<1>17. ASSUME NEW c \in Clients, OtherRequest(c) PROVE TypeOK'
  <2> PICK k \in 0..MaxRequests : OtherRequest(c)!(k)
    BY <1>17 DEF OtherRequest
  <2> QED BY ExecutesFacts DEF TypeOK
<1>18. CASE UNCHANGED vars
  BY <1>18 DEF vars, TypeOK
<1> QED
  BY <1>1, <1>2, <1>3, <1>4, <1>5, <1>6, <1>7, <1>8, <1>9, <1>10, <1>11,
     <1>12, <1>13, <1>14, <1>15, <1>16, <1>17, <1>18 DEF Next, Serve

(* Every variable keeps its type (TypeOK of ServerGrab), whatever the      *)
(* number of clients: every handler of the dispatch loop is covered.       *)
THEOREM TypeInvariant == Spec => []TypeOK
<1>1. Init => TypeOK
  BY InitMasksType, ServerGrabAssumption DEF Init, TypeOK
<1> QED BY <1>1, TypeStep, PTL DEF Spec

----------------------------------------------------------------------------
(* The fields of the masks each operation returns.                         *)

(* CloseDownFileDescriptor clears c from every mask select() uses.         *)
LEMMA CloseDownFields ==
    ASSUME NEW m \in Masks, NEW c \in Clients
    PROVE  LET n == CloseDownFileDescriptor(m, c) IN
           /\ n.AllClients = m.AllClients \ {c}
           /\ n.AllSockets = m.AllSockets \ {c}
           /\ n.ClientsWithInput = m.ClientsWithInput \ {c}
           /\ n.SavedAllClients = m.SavedAllClients \ SavedToo(m, c)
           /\ n.SavedAllSockets = m.SavedAllSockets \ SavedToo(m, c)
           /\ n.SavedClientsWithInput = m.SavedClientsWithInput \ SavedToo(m, c)
           /\ n.IgnoredClientsWithInput = m.IgnoredClientsWithInput
           /\ n.GrabImperviousClients = m.GrabImperviousClients \ {c}
           /\ n.EnabledDevices = m.EnabledDevices
           /\ n.GrabInProgress = m.GrabInProgress
BY DEF CloseDownFileDescriptor, Masks

(* OnlyListenToOneClient saves the masks and restricts the working ones.   *)
LEMMA OnlyListenFields ==
    ASSUME NEW m \in Masks, NEW c \in Clients, m.GrabInProgress = NoClient
    PROVE  LET n == OnlyListenToOneClient(m, c) IN
           /\ n.AllClients = (m.AllClients \cap m.GrabImperviousClients) \cup {c}
           /\ n.AllSockets = (m.AllSockets \ m.AllClients)
                    \cup (m.AllClients \cap m.GrabImperviousClients) \cup {c}
           /\ n.ClientsWithInput = m.ClientsWithInput
                    \cap (m.GrabImperviousClients \cup {c})
           /\ n.SavedAllClients = m.AllClients
           /\ n.SavedAllSockets = m.AllSockets
           /\ n.SavedClientsWithInput = m.ClientsWithInput
                    \ (m.GrabImperviousClients \cup {c})
           /\ n.IgnoredClientsWithInput = m.IgnoredClientsWithInput
           /\ n.GrabImperviousClients = m.GrabImperviousClients
           /\ n.EnabledDevices = m.EnabledDevices
           /\ n.GrabInProgress = c
BY DEF OnlyListenToOneClient, Masks

(* IgnoreClient of a client that no grab holds back.                       *)
LEMMA IgnoreListenedFields ==
    ASSUME NEW m \in Masks, NEW c \in Clients,
           m.GrabInProgress = NoClient \/ c \in m.AllClients
    PROVE  LET n == IgnoreClient(m, c) IN
           /\ n.AllClients = m.AllClients \ {c}
           /\ n.AllSockets = m.AllSockets \ {c}
           /\ n.ClientsWithInput = m.ClientsWithInput \ {c}
           /\ n.SavedAllClients = m.SavedAllClients
           /\ n.SavedAllSockets = m.SavedAllSockets
           /\ n.SavedClientsWithInput = m.SavedClientsWithInput
           /\ n.IgnoredClientsWithInput = 
                    Assign(m.IgnoredClientsWithInput, c, c \in m.ClientsWithInput)
           /\ n.GrabImperviousClients = m.GrabImperviousClients
           /\ n.EnabledDevices = m.EnabledDevices
           /\ n.GrabInProgress = m.GrabInProgress
BY DEF IgnoreClient, Masks

(* IgnoreClient of a client a grab holds back.                             *)
LEMMA IgnoreHeldFields ==
    ASSUME NEW m \in Masks, NEW c \in Clients,
           m.GrabInProgress # NoClient, c \notin m.AllClients
    PROVE  LET n == IgnoreClient(m, c) IN
           /\ n.AllClients = m.AllClients
           /\ n.AllSockets = m.AllSockets
           /\ n.ClientsWithInput = m.ClientsWithInput
           /\ n.SavedAllClients = m.SavedAllClients \ {c}
           /\ n.SavedAllSockets = m.SavedAllSockets \ {c}
           /\ n.SavedClientsWithInput = m.SavedClientsWithInput \ {c}
           /\ n.IgnoredClientsWithInput = 
                    Assign(m.IgnoredClientsWithInput, c, c \in m.SavedClientsWithInput)
           /\ n.GrabImperviousClients = m.GrabImperviousClients
           /\ n.EnabledDevices = m.EnabledDevices
           /\ n.GrabInProgress = m.GrabInProgress
BY DEF IgnoreClient, Masks

(* UngrabServer merges the saved masks back, ends the grab, and wakes w.   *)
LEMMA UngrabFields ==
    ASSUME NEW m \in Masks, NEW w \in Clients \cup {NoClient}
    PROVE  LET n == UngrabServer(m, w)
               grab == m.GrabInProgress # NoClient
               woken == {w} \ {NoClient}
           IN
           /\ n.AllClients = m.AllClients \cup woken
                 \cup IF grab THEN m.SavedAllClients ELSE {}
           /\ n.AllSockets = m.AllSockets \cup woken
                 \cup IF grab THEN m.SavedAllSockets ELSE {}
           /\ n.ClientsWithInput = m.ClientsWithInput
                 \cup (woken \cap m.IgnoredClientsWithInput)
                 \cup IF grab THEN m.SavedClientsWithInput ELSE {}
           /\ n.SavedAllClients = m.SavedAllClients
           /\ n.SavedAllSockets = m.SavedAllSockets
           /\ n.SavedClientsWithInput = m.SavedClientsWithInput
           /\ n.IgnoredClientsWithInput = m.IgnoredClientsWithInput
           /\ n.GrabImperviousClients = m.GrabImperviousClients
           /\ n.EnabledDevices = m.EnabledDevices
           /\ n.GrabInProgress = NoClient
<1> DEFINE all == ListenToAllClients(m)
           grab == m.GrabInProgress # NoClient
<1>1. /\ all \in Masks
      /\ all.AllClients = m.AllClients
            \cup IF grab THEN m.SavedAllClients ELSE {}
      /\ all.AllSockets = m.AllSockets
            \cup IF grab THEN m.SavedAllSockets ELSE {}
      /\ all.ClientsWithInput = m.ClientsWithInput
            \cup IF grab THEN m.SavedClientsWithInput ELSE {}
      /\ all.SavedAllClients = m.SavedAllClients
      /\ all.SavedAllSockets = m.SavedAllSockets
      /\ all.SavedClientsWithInput = m.SavedClientsWithInput
      /\ all.IgnoredClientsWithInput = m.IgnoredClientsWithInput
      /\ all.GrabImperviousClients = m.GrabImperviousClients
      /\ all.EnabledDevices = m.EnabledDevices
      /\ all.GrabInProgress = NoClient
  BY ServerMaskTypes DEF ListenToAllClients, Masks
<1> HIDE DEF all
<1>2. CASE w = NoClient
  BY <1>1, <1>2 DEF UngrabServer, all
<1>3. CASE w \in Clients /\ w # NoClient
  <2>1. UngrabServer(m, w) = AttendClient(all, w)
    BY <1>3 DEF UngrabServer, all
  <2>2. LET n == AttendClient(all, w) IN
        /\ n.AllClients = all.AllClients \cup {w}
        /\ n.AllSockets = all.AllSockets \cup {w}
        /\ n.ClientsWithInput = all.ClientsWithInput
              \cup ({w} \cap all.IgnoredClientsWithInput)
        /\ n.SavedAllClients = all.SavedAllClients
        /\ n.SavedAllSockets = all.SavedAllSockets
        /\ n.SavedClientsWithInput = all.SavedClientsWithInput
        /\ n.IgnoredClientsWithInput = all.IgnoredClientsWithInput
        /\ n.GrabImperviousClients = all.GrabImperviousClients
        /\ n.EnabledDevices = all.EnabledDevices
        /\ n.GrabInProgress = NoClient
    BY <1>1 DEF AttendClient, Masks
  <2>3. {w} \ {NoClient} = {w}
    BY <1>3
  <2> QED BY <1>1, <2>1, <2>2, <2>3
<1> QED BY <1>2, <1>3

(* Reading a request changes nothing but the reader's input bit.           *)
LEMMA TakenFields ==
    ASSUME TypeOK, NEW c \in Clients, NEW k \in Reads(c)
    PROVE  LET n == Taken(c, k) IN
           /\ n.ClientsWithInput =
                 IF Left(c, k) > 0 THEN masks.ClientsWithInput \cup {c}
                                   ELSE masks.ClientsWithInput \ {c}
           /\ n.AllClients = masks.AllClients
           /\ n.AllSockets = masks.AllSockets
           /\ n.SavedAllClients = masks.SavedAllClients
           /\ n.SavedAllSockets = masks.SavedAllSockets
           /\ n.SavedClientsWithInput = masks.SavedClientsWithInput
           /\ n.IgnoredClientsWithInput = masks.IgnoredClientsWithInput
           /\ n.GrabImperviousClients = masks.GrabImperviousClients
           /\ n.EnabledDevices = masks.EnabledDevices
           /\ n.GrabInProgress = masks.GrabInProgress
BY DEF Taken, ReadRequestFromClient, Assign, TypeOK, Masks

(* A request arriving in a socket leaves the invariant alone.              *)
LEMMA ClientSendsStep ==
    ASSUME IInv, TypeOK', NEW c \in Clients, ClientSends(c)
    PROVE  IInv'
<1> USE ConnMasksAssumption, ServerGrabAssumption
  DEF TypeOK, Masks, IInv, Connected, Ignored, Grabbed, Tracked, Sockets,
      NoClient, ClientSends
<1>1. /\ GrabOwnerConnected'
      /\ SocketsMatch'
      /\ RolesKept'
      /\ ClosedClientsForgotten'
      /\ WorkingMasksRestricted'
      /\ InputTidy'
      /\ ServiceAllowed'
      /\ GrabExcludesOthers'
      /\ MasksMatchClients'
      /\ BufferedRequestsRemembered'
  BY DEF GrabOwnerConnected, SocketsMatch, RolesKept, ClosedClientsForgotten,
      WorkingMasksRestricted, InputTidy, ServiceAllowed, GrabExcludesOthers,
      MasksMatchClients, BufferedRequestsRemembered
<1> QED BY <1>1

(* A new connection enters the working masks, or the saved ones under a    *)
(* grab, with no request buffered.                                         *)
LEMMA EstablishNewConnectionStep ==
    ASSUME IInv, TypeOK', NEW c \in Clients, EstablishNewConnection(c)
    PROVE  IInv'
<1> USE ConnMasksAssumption, ServerGrabAssumption
  DEF TypeOK, Masks, IInv, Connected, Ignored, Grabbed, Tracked, Sockets,
      NoClient, AllocNewConnection, SavedToo, EstablishNewConnection
<1>1. SocketsMatch'
  BY DEF SocketsMatch, GrabOwnerConnected
<1>2. ClosedClientsForgotten'
  BY DEF ClosedClientsForgotten, GrabOwnerConnected, SocketsMatch
<1>3. WorkingMasksRestricted'
  BY DEF WorkingMasksRestricted, GrabOwnerConnected, GrabExcludesOthers
<1>4. MasksMatchClients'
  BY DEF MasksMatchClients, GrabOwnerConnected, RolesKept,
      WorkingMasksRestricted, GrabExcludesOthers, ServiceAllowed,
      ClosedClientsForgotten
<1>5. BufferedRequestsRemembered'
  BY DEF BufferedRequestsRemembered, InputTidy, RolesKept, GrabOwnerConnected,
      WorkingMasksRestricted, GrabExcludesOthers, ServiceAllowed,
      ClosedClientsForgotten, MasksMatchClients
<1>6. /\ GrabOwnerConnected'
      /\ RolesKept'
      /\ InputTidy'
      /\ ServiceAllowed'
      /\ GrabExcludesOthers'
  BY DEF GrabOwnerConnected, RolesKept, InputTidy, ServiceAllowed,
      GrabExcludesOthers
<1> QED BY <1>1, <1>2, <1>3, <1>4, <1>5, <1>6

(* Devices enter and leave both copies of AllSockets.                      *)
LEMMA DevicesChangeStep ==
    ASSUME IInv, TypeOK', DevicesChange
    PROVE  IInv'
<1> USE ConnMasksAssumption, ServerGrabAssumption
  DEF TypeOK, Masks, IInv, Connected, Ignored, Grabbed, Tracked, Sockets,
      NoClient, AddEnabledDevice, RemoveEnabledDevice, SavedToo, DevicesChange
<1>1. SocketsMatch'
  BY DEF SocketsMatch, GrabOwnerConnected
<1>2. ClosedClientsForgotten'
  BY DEF ClosedClientsForgotten, GrabOwnerConnected, SocketsMatch
<1>3. /\ GrabOwnerConnected'
      /\ RolesKept'
      /\ WorkingMasksRestricted'
      /\ InputTidy'
      /\ ServiceAllowed'
      /\ GrabExcludesOthers'
      /\ MasksMatchClients'
      /\ BufferedRequestsRemembered'
  BY DEF GrabOwnerConnected, RolesKept, WorkingMasksRestricted, InputTidy,
      ServiceAllowed, GrabExcludesOthers, MasksMatchClients,
      BufferedRequestsRemembered
<1> QED BY <1>1, <1>2, <1>3

(* A client that is attended to again gets its input bit back in the mask  *)
(* that is right for it.                                                   *)
LEMMA AwakenStep ==
    ASSUME IInv, TypeOK', NEW c \in Clients, Awaken(c)
    PROVE  IInv'
<1> USE ConnMasksAssumption, ServerGrabAssumption
  DEF TypeOK, Masks, IInv, Connected, Ignored, Grabbed, Tracked, Sockets,
      NoClient, AttendClient, Awaken
<1>1. SocketsMatch'
  BY DEF SocketsMatch, GrabOwnerConnected
<1>2. ClosedClientsForgotten'
  BY DEF ClosedClientsForgotten, GrabOwnerConnected, SocketsMatch
<1>3. WorkingMasksRestricted'
  BY DEF WorkingMasksRestricted, GrabOwnerConnected, GrabExcludesOthers
<1>4. InputTidy'
  BY DEF InputTidy, RolesKept, GrabOwnerConnected, ClosedClientsForgotten,
      GrabExcludesOthers, ServiceAllowed, WorkingMasksRestricted
<1>5. MasksMatchClients'
  BY DEF MasksMatchClients, GrabOwnerConnected, RolesKept,
      WorkingMasksRestricted, GrabExcludesOthers, ServiceAllowed,
      ClosedClientsForgotten
<1>6. BufferedRequestsRemembered'
  BY DEF BufferedRequestsRemembered, InputTidy, RolesKept, GrabOwnerConnected,
      WorkingMasksRestricted, GrabExcludesOthers, ServiceAllowed,
      ClosedClientsForgotten, MasksMatchClients
<1>7. /\ GrabOwnerConnected'
      /\ RolesKept'
      /\ ServiceAllowed'
      /\ GrabExcludesOthers'
  BY DEF GrabOwnerConnected, RolesKept, ServiceAllowed, GrabExcludesOthers
<1> QED BY <1>1, <1>2, <1>3, <1>4, <1>5, <1>6, <1>7

(* Whatever is reported ready may be served.                               *)
LEMMA WaitForSomethingStep ==
    ASSUME IInv, TypeOK', WaitForSomething
    PROVE  IInv'
<1> USE ConnMasksAssumption, ServerGrabAssumption
  DEF TypeOK, Masks, IInv, Connected, Ignored, Grabbed, Tracked, Sockets,
      NoClient, ClientsReadable, WaitForSomething
<1>1. ServiceAllowed'
  BY DEF ServiceAllowed, RolesKept, GrabOwnerConnected, WorkingMasksRestricted,
      MasksMatchClients, InputTidy, ClosedClientsForgotten, GrabExcludesOthers
<1>2. /\ GrabOwnerConnected'
      /\ SocketsMatch'
      /\ RolesKept'
      /\ ClosedClientsForgotten'
      /\ WorkingMasksRestricted'
      /\ InputTidy'
      /\ GrabExcludesOthers'
      /\ MasksMatchClients'
      /\ BufferedRequestsRemembered'
  BY DEF GrabOwnerConnected, SocketsMatch, RolesKept, ClosedClientsForgotten,
      WorkingMasksRestricted, InputTidy, GrabExcludesOthers, MasksMatchClients,
      BufferedRequestsRemembered
<1> QED BY <1>1, <1>2

(* The list is dropped at the first round after a grab, before anybody but *)
(* the owner is served.                                                    *)
LEMMA DispatchNextStep ==
    ASSUME IInv, TypeOK', NEW c \in Clients, DispatchNext(c)
    PROVE  IInv'
<1> USE ConnMasksAssumption, ServerGrabAssumption
  DEF TypeOK, Masks, IInv, Connected, Ignored, Grabbed, Tracked, Sockets,
      NoClient, DispatchNext
<1>1. ServiceAllowed'
  BY DEF ServiceAllowed, RolesKept, GrabOwnerConnected, WorkingMasksRestricted,
      MasksMatchClients, InputTidy, ClosedClientsForgotten, GrabExcludesOthers
<1>2. GrabExcludesOthers'
  BY DEF GrabExcludesOthers, ServiceAllowed, RolesKept, GrabOwnerConnected,
      WorkingMasksRestricted
<1>3. /\ GrabOwnerConnected'
      /\ SocketsMatch'
      /\ RolesKept'
      /\ ClosedClientsForgotten'
      /\ WorkingMasksRestricted'
      /\ InputTidy'
      /\ MasksMatchClients'
      /\ BufferedRequestsRemembered'
  BY DEF GrabOwnerConnected, SocketsMatch, RolesKept, ClosedClientsForgotten,
      WorkingMasksRestricted, InputTidy, MasksMatchClients,
      BufferedRequestsRemembered
<1> QED BY <1>1, <1>2, <1>3

(* An empty read clears the input bit of an empty buffer.                  *)
LEMMA ReadReturnsNothingStep ==
    ASSUME IInv, TypeOK', NEW c \in Clients, ReadReturnsNothing(c)
    PROVE  IInv'
<1> USE ConnMasksAssumption, ServerGrabAssumption
  DEF TypeOK, Masks, IInv, Connected, Ignored, Grabbed, Tracked, Sockets,
      NoClient, ReadRequestFromClient, Assign, ReadReturnsNothing
<1>1. ClosedClientsForgotten'
  BY DEF ClosedClientsForgotten, GrabOwnerConnected, SocketsMatch
<1>2. WorkingMasksRestricted'
  BY DEF WorkingMasksRestricted, GrabOwnerConnected, GrabExcludesOthers
<1>3. BufferedRequestsRemembered'
  BY DEF BufferedRequestsRemembered, InputTidy, RolesKept, GrabOwnerConnected,
      WorkingMasksRestricted, GrabExcludesOthers, ServiceAllowed,
      ClosedClientsForgotten, MasksMatchClients
<1>4. /\ GrabOwnerConnected'
      /\ SocketsMatch'
      /\ RolesKept'
      /\ InputTidy'
      /\ ServiceAllowed'
      /\ GrabExcludesOthers'
      /\ MasksMatchClients'
  BY DEF GrabOwnerConnected, SocketsMatch, RolesKept, InputTidy,
      ServiceAllowed, GrabExcludesOthers, MasksMatchClients
<1> QED BY <1>1, <1>2, <1>3, <1>4

(* A request that only takes itself from the buffer: the input bit follows *)
(* the buffer.                                                             *)
LEMMA ReadStep ==
    ASSUME IInv, TypeOK', NEW c \in Clients, NEW k \in 0..MaxRequests,
           Executes(c, k),
           masks' = Taken(c, k),
           buffered' = [buffered EXCEPT ![c] = Left(c, k)],
           Grabbed' <=> Grabbed,
           grabState' \in {grabState, "Kickout"},
           \A d \in Clients : Connected(d)' <=> Connected(d),
           current' \in AfterRequest(c, k),
           UNCHANGED <<grabClient, grabWaiters, asleep, clientReady>>
    PROVE  IInv'
<1> DEFINE t == Taken(c, k)
<1>1. /\ k \in Reads(c)
      /\ t \in Masks
      /\ Left(c, k) \in Nat
      /\ masks \in Masks
  BY ExecutesFacts DEF IInv, TypeOK
<1>2. /\ masks'.AllClients = masks.AllClients
      /\ masks'.AllSockets = masks.AllSockets
      /\ masks'.ClientsWithInput = IF Left(c, k) > 0 THEN masks.ClientsWithInput \cup {c}
                                            ELSE masks.ClientsWithInput \ {c}
      /\ masks'.SavedAllClients = masks.SavedAllClients
      /\ masks'.SavedAllSockets = masks.SavedAllSockets
      /\ masks'.SavedClientsWithInput = masks.SavedClientsWithInput
      /\ masks'.IgnoredClientsWithInput = masks.IgnoredClientsWithInput
      /\ masks'.GrabImperviousClients = masks.GrabImperviousClients
      /\ masks'.EnabledDevices = masks.EnabledDevices
      /\ masks'.GrabInProgress = masks.GrabInProgress
  BY <1>1, TakenFields DEF IInv
<1>3. /\ masks.AllClients \subseteq Clients
      /\ masks.ClientsWithInput \subseteq Clients
      /\ masks.SavedAllClients \subseteq Clients
      /\ masks.SavedClientsWithInput \subseteq Clients
      /\ masks.EnabledDevices \subseteq Devices
      /\ clientReady \subseteq Clients
      /\ grabWaiters \subseteq Clients
      /\ grabClient \in Clients \cup {NoClient}
      /\ buffered \in [Clients -> 0..MaxRequests]
      /\ buffered[c] \in Nat
      /\ current = c /\ Connected(c)
  BY <1>1 DEF Executes, Masks, IInv, TypeOK
<1>r. current' \notin clientReady' /\ clientReady' = clientReady
  BY <1>3, ConnMasksAssumption DEF AfterRequest, IInv, ServiceAllowed, NoClient
<1>4. GrabOwnerConnected'
  BY <1>1, <1>2, <1>3, <1>r, ConnMasksAssumption
  DEF IInv, Ignored, Tracked, NoClient, GrabOwnerConnected,
      ClosedClientsForgotten, AfterRequest
<1>5. SocketsMatch'
  BY <1>1, <1>2, <1>3, <1>r, ConnMasksAssumption
  DEF IInv, Ignored, Tracked, NoClient, SocketsMatch, GrabOwnerConnected,
      AfterRequest
<1>6. RolesKept'
  BY <1>1, <1>2, <1>3, <1>r, ConnMasksAssumption
  DEF IInv, Ignored, Tracked, NoClient, RolesKept, GrabExcludesOthers,
      AfterRequest
<1>7. ClosedClientsForgotten'
  BY <1>1, <1>2, <1>3, <1>r, ConnMasksAssumption
  DEF IInv, Ignored, Tracked, NoClient, ClosedClientsForgotten,
      GrabOwnerConnected, SocketsMatch, AfterRequest
<1>8. WorkingMasksRestricted'
  BY <1>1, <1>2, <1>3, <1>r, ConnMasksAssumption
  DEF IInv, Ignored, Tracked, NoClient, WorkingMasksRestricted,
      GrabOwnerConnected, GrabExcludesOthers, AfterRequest
<1>9. InputTidy'
  BY <1>1, <1>2, <1>3, <1>r, ConnMasksAssumption
  DEF IInv, Ignored, Tracked, NoClient, InputTidy, RolesKept,
      GrabOwnerConnected, ClosedClientsForgotten, GrabExcludesOthers,
      ServiceAllowed, WorkingMasksRestricted, AfterRequest
<1>10. ServiceAllowed'
  BY <1>1, <1>2, <1>3, <1>r, ConnMasksAssumption
  DEF IInv, Ignored, Tracked, NoClient, ServiceAllowed, RolesKept,
      GrabOwnerConnected, WorkingMasksRestricted, MasksMatchClients, InputTidy,
      ClosedClientsForgotten, GrabExcludesOthers, AfterRequest
<1>11. GrabExcludesOthers'
  BY <1>1, <1>2, <1>3, <1>r, ConnMasksAssumption
  DEF IInv, Ignored, Tracked, NoClient, GrabExcludesOthers, ServiceAllowed,
      RolesKept, GrabOwnerConnected, WorkingMasksRestricted, AfterRequest
<1>12. MasksMatchClients'
  BY <1>1, <1>2, <1>3, <1>r, ConnMasksAssumption
  DEF IInv, Ignored, Tracked, NoClient, MasksMatchClients, GrabOwnerConnected,
      RolesKept, WorkingMasksRestricted, GrabExcludesOthers, ServiceAllowed,
      ClosedClientsForgotten, AfterRequest
<1>13. BufferedRequestsRemembered'
  BY <1>1, <1>2, <1>3, <1>r, ConnMasksAssumption
  DEF IInv, Ignored, Tracked, NoClient, BufferedRequestsRemembered, InputTidy,
      RolesKept, GrabOwnerConnected, WorkingMasksRestricted,
      GrabExcludesOthers, ServiceAllowed, ClosedClientsForgotten,
      MasksMatchClients, AfterRequest
<1> QED BY <1>4, <1>5, <1>6, <1>7, <1>8, <1>9, <1>10, <1>11, <1>12, <1>13 DEF IInv

(* A request without effect on this state: the input bit follows the       *)
(* buffer.                                                                 *)
LEMMA OtherRequestStep ==
    ASSUME IInv, TypeOK', NEW c \in Clients, OtherRequest(c)
    PROVE  IInv'
<1> PICK k \in 0..MaxRequests :
        OtherRequest(c)!(k)
  BY DEF OtherRequest
<1>1. \A d \in Clients : Connected(d)' <=> Connected(d)
  BY DEF Connected, IInv, TypeOK
<1> QED BY <1>1, ReadStep DEF Grabbed

(* ChangeCloseDownMode does not touch the masks.                           *)
LEMMA ProcChangeCloseDownModeStep ==
    ASSUME IInv, TypeOK', NEW c \in Clients, ProcChangeCloseDownMode(c)
    PROVE  IInv'
<1> PICK k \in 0..MaxRequests, mode \in {"DestroyAll", "Retain"} :
        ProcChangeCloseDownMode(c)!(k, mode)
  BY DEF ProcChangeCloseDownMode
<1>1. \A d \in Clients : Connected(d)' <=> Connected(d)
  BY DEF Connected, IInv, TypeOK
<1> QED BY <1>1, ReadStep DEF Grabbed

(* Freeing a retained client does not touch the masks.                     *)
LEMMA KillRetainedStep ==
    ASSUME IInv, TypeOK', NEW c \in Clients, NEW victim \in Clients, KillRetained(c, victim)
    PROVE  IInv'
<1> PICK k \in 0..MaxRequests :
        KillRetained(c, victim)!(k)
  BY DEF KillRetained
<1>1. \A d \in Clients : Connected(d)' <=> Connected(d)
  BY DEF Connected, IInv, TypeOK
<1> QED BY <1>1, ReadStep DEF Grabbed

(* An impervious client enters no mask; a pervious one leaves the working  *)
(* masks of another's grab.                                                *)
LEMMA ProcXTestGrabControlStep ==
    ASSUME IInv, TypeOK', NEW c \in Clients, ProcXTestGrabControl(c)
    PROVE  IInv'
<1> PICK k \in 0..MaxRequests, impervious \in BOOLEAN :
        ProcXTestGrabControl(c)!(k, impervious)
  BY DEF ProcXTestGrabControl
<1> DEFINE t == Taken(c, k)
<1>1. /\ k \in Reads(c)
      /\ t \in Masks
      /\ Left(c, k) \in Nat
      /\ masks \in Masks
      /\ buffered[c] + k = Left(c, k) + 1
  BY ExecutesFacts, ServerGrabAssumption DEF IInv, TypeOK, Left, Reads
<1>2. /\ t.AllClients = masks.AllClients
      /\ t.AllSockets = masks.AllSockets
      /\ t.ClientsWithInput = IF Left(c, k) > 0 THEN masks.ClientsWithInput \cup {c}
                                            ELSE masks.ClientsWithInput \ {c}
      /\ t.SavedAllClients = masks.SavedAllClients
      /\ t.SavedAllSockets = masks.SavedAllSockets
      /\ t.SavedClientsWithInput = masks.SavedClientsWithInput
      /\ t.IgnoredClientsWithInput = masks.IgnoredClientsWithInput
      /\ t.GrabImperviousClients = masks.GrabImperviousClients
      /\ t.EnabledDevices = masks.EnabledDevices
      /\ t.GrabInProgress = masks.GrabInProgress
  BY <1>1, TakenFields DEF IInv
<1> HIDE DEF t
<1> DEFINE held == ~impervious /\ masks.GrabInProgress \notin {NoClient, c}
<1>3. /\ masks'.AllClients = IF held THEN t.AllClients \ {c} ELSE t.AllClients
      /\ masks'.AllSockets = IF held THEN t.AllSockets \ {c} ELSE t.AllSockets
      /\ masks'.ClientsWithInput = IF held THEN t.ClientsWithInput \ {c} ELSE t.ClientsWithInput
      /\ masks'.SavedAllClients = t.SavedAllClients
      /\ masks'.SavedAllSockets = t.SavedAllSockets
      /\ masks'.SavedClientsWithInput = IF held /\ c \in t.ClientsWithInput
             THEN t.SavedClientsWithInput \cup {c}
             ELSE t.SavedClientsWithInput
      /\ masks'.IgnoredClientsWithInput = t.IgnoredClientsWithInput
      /\ masks'.GrabImperviousClients = IF impervious
             THEN masks.GrabImperviousClients \cup {c}
             ELSE masks.GrabImperviousClients \ {c}
      /\ masks'.EnabledDevices = t.EnabledDevices
      /\ masks'.GrabInProgress = t.GrabInProgress
  BY <1>1, <1>2 DEF t, MakeClientGrabImpervious, MakeClientGrabPervious, Masks
<1>4. /\ masks.AllClients \subseteq Clients
      /\ masks.ClientsWithInput \subseteq Clients
      /\ masks.SavedAllClients \subseteq Clients
      /\ masks.SavedClientsWithInput \subseteq Clients
      /\ masks.EnabledDevices \subseteq Devices
      /\ clientReady \subseteq Clients
      /\ grabWaiters \subseteq Clients
      /\ grabClient \in Clients \cup {NoClient}
      /\ buffered \in [Clients -> 0..MaxRequests]
      /\ buffered[c] \in Nat
      /\ current = c /\ Connected(c)
  BY <1>1 DEF Executes, Masks, IInv, TypeOK
<1>r. current' \notin clientReady' /\ clientReady' = clientReady
  BY <1>4, ConnMasksAssumption DEF AfterRequest, IInv, ServiceAllowed, NoClient
<1>5. GrabOwnerConnected'
  BY <1>1, <1>2, <1>3, <1>4, <1>r, ConnMasksAssumption
  DEF IInv, Connected, Ignored, Grabbed, Tracked, NoClient, GrabOwnerConnected,
      ClosedClientsForgotten, AfterRequest
<1>6. SocketsMatch'
  BY <1>1, <1>2, <1>3, <1>4, <1>r, ConnMasksAssumption
  DEF IInv, Connected, Ignored, Grabbed, Tracked, NoClient, SocketsMatch,
      GrabOwnerConnected, AfterRequest
<1>7. RolesKept'
  BY <1>1, <1>2, <1>3, <1>4, <1>r, ConnMasksAssumption
  DEF IInv, Connected, Ignored, Grabbed, Tracked, NoClient, RolesKept,
      GrabExcludesOthers, AfterRequest
<1>8. ClosedClientsForgotten'
  BY <1>1, <1>2, <1>3, <1>4, <1>r, ConnMasksAssumption
  DEF IInv, Connected, Ignored, Grabbed, Tracked, NoClient,
      ClosedClientsForgotten, GrabOwnerConnected, SocketsMatch, AfterRequest
<1>9. WorkingMasksRestricted'
  BY <1>1, <1>2, <1>3, <1>4, <1>r, ConnMasksAssumption
  DEF IInv, Connected, Ignored, Grabbed, Tracked, NoClient,
      WorkingMasksRestricted, GrabOwnerConnected, GrabExcludesOthers,
      AfterRequest
<1>10. InputTidy'
  BY <1>1, <1>2, <1>3, <1>4, <1>r, ConnMasksAssumption
  DEF IInv, Connected, Ignored, Grabbed, Tracked, NoClient, InputTidy,
      RolesKept, GrabOwnerConnected, ClosedClientsForgotten,
      GrabExcludesOthers, ServiceAllowed, WorkingMasksRestricted, AfterRequest
<1>11. ServiceAllowed'
  BY <1>1, <1>2, <1>3, <1>4, <1>r, ConnMasksAssumption
  DEF IInv, Connected, Ignored, Grabbed, Tracked, NoClient, ServiceAllowed,
      RolesKept, GrabOwnerConnected, WorkingMasksRestricted, MasksMatchClients,
      InputTidy, ClosedClientsForgotten, GrabExcludesOthers, AfterRequest
<1>12. GrabExcludesOthers'
  BY <1>1, <1>2, <1>3, <1>4, <1>r, ConnMasksAssumption
  DEF IInv, Connected, Ignored, Grabbed, Tracked, NoClient, GrabExcludesOthers,
      ServiceAllowed, RolesKept, GrabOwnerConnected, WorkingMasksRestricted,
      AfterRequest
<1>13. MasksMatchClients'
  BY <1>1, <1>2, <1>3, <1>4, <1>r, ConnMasksAssumption
  DEF IInv, Connected, Ignored, Grabbed, Tracked, NoClient, MasksMatchClients,
      GrabOwnerConnected, RolesKept, WorkingMasksRestricted,
      GrabExcludesOthers, ServiceAllowed, ClosedClientsForgotten, AfterRequest
<1>14. BufferedRequestsRemembered'
  BY <1>1, <1>2, <1>3, <1>4, <1>r, ConnMasksAssumption
  DEF IInv, Connected, Ignored, Grabbed, Tracked, NoClient,
      BufferedRequestsRemembered, InputTidy, RolesKept, GrabOwnerConnected,
      WorkingMasksRestricted, GrabExcludesOthers, ServiceAllowed,
      ClosedClientsForgotten, MasksMatchClients, AfterRequest
<1> QED BY <1>5, <1>6, <1>7, <1>8, <1>9, <1>10, <1>11, <1>12, <1>13, <1>14 DEF IInv

(* IgnoreClient of the client that is served, right after a read: it leaves*)
(* the masks it is in and its input bit is kept aside.                     *)
LEMMA IgnoreStep ==
    ASSUME IInv, TypeOK', NEW c \in Clients, NEW r \in Masks,
           masks' = IgnoreClient(r, c),
           [r EXCEPT !.ClientsWithInput = {}, !.IgnoredClientsWithInput = {}]
              = [masks EXCEPT !.ClientsWithInput = {},
                              !.IgnoredClientsWithInput = {}],
           \A d \in Clients : d # c =>
              /\ d \in r.ClientsWithInput <=> d \in masks.ClientsWithInput
              /\ d \in r.IgnoredClientsWithInput
                    <=> d \in masks.IgnoredClientsWithInput
              /\ buffered'[d] = buffered[d],
           c \in Tracked => (c \in r.ClientsWithInput <=> buffered'[c] > 0),
           asleep' \cup grabWaiters' = asleep \cup grabWaiters \cup {c},
           asleep \subseteq asleep', grabWaiters \subseteq grabWaiters',
           asleep' \subseteq Sleepers, grabWaiters' \subseteq ImperviousUsers,
           current = c, Connected(c), current' = NoClient,
           UNCHANGED <<grabState, grabClient, clientState, clientReady>>
    PROVE  IInv'
<1>1. /\ masks \in Masks
      /\ r.ClientsWithInput \subseteq Clients
      /\ clientReady \subseteq Clients
      /\ masks.AllClients \subseteq Clients
      /\ masks.ClientsWithInput \subseteq Clients
      /\ masks.SavedAllClients \subseteq Clients
      /\ masks.EnabledDevices \subseteq Devices
      /\ NoClient \notin Clients /\ c # NoClient
      /\ \A d \in Clients : Connected(d)' <=> Connected(d)
      /\ \A d \in Clients : Ignored(d)' <=> Ignored(d) \/ d = c
  BY ConnMasksAssumption DEF IInv, TypeOK, Masks, Connected, Ignored
<1>2. /\ r.AllClients = masks.AllClients
      /\ r.AllSockets = masks.AllSockets
      /\ r.ClientsWithInput = r.ClientsWithInput
      /\ r.SavedAllClients = masks.SavedAllClients
      /\ r.SavedAllSockets = masks.SavedAllSockets
      /\ r.SavedClientsWithInput = masks.SavedClientsWithInput
      /\ r.IgnoredClientsWithInput = r.IgnoredClientsWithInput
      /\ r.GrabImperviousClients = masks.GrabImperviousClients
      /\ r.EnabledDevices = masks.EnabledDevices
      /\ r.GrabInProgress = masks.GrabInProgress
  BY <1>1 DEF Masks
<1>3. c \in Tracked => c \in masks.AllClients
  BY DEF IInv, Tracked, MasksMatchClients, ServiceAllowed,
         GrabExcludesOthers, RolesKept
<1>4. CASE r.GrabInProgress = NoClient \/ c \in r.AllClients
  <2>1. /\ masks'.AllClients = r.AllClients \ {c}
        /\ masks'.AllSockets = r.AllSockets \ {c}
        /\ masks'.ClientsWithInput = r.ClientsWithInput \ {c}
        /\ masks'.SavedAllClients = r.SavedAllClients
        /\ masks'.SavedAllSockets = r.SavedAllSockets
        /\ masks'.SavedClientsWithInput = r.SavedClientsWithInput
        /\ masks'.IgnoredClientsWithInput = 
            Assign(r.IgnoredClientsWithInput, c, c \in r.ClientsWithInput)
        /\ masks'.GrabImperviousClients = r.GrabImperviousClients
        /\ masks'.EnabledDevices = r.EnabledDevices
        /\ masks'.GrabInProgress = r.GrabInProgress
    BY <1>4, IgnoreListenedFields
  <2>2. GrabOwnerConnected'
    BY <1>1, <1>2, <1>3, <1>4, <2>1, ConnMasksAssumption
    DEF IInv, Connected, Grabbed, Tracked, GrabOwnerConnected,
        ClosedClientsForgotten, AfterRequest, Assign
  <2>3. SocketsMatch'
    BY <1>1, <1>2, <1>3, <1>4, <2>1, ConnMasksAssumption
    DEF IInv, Connected, Grabbed, Tracked, SocketsMatch, GrabOwnerConnected,
        AfterRequest, Assign
  <2>4. RolesKept'
    BY <1>1, <1>2, <1>3, <1>4, <2>1, ConnMasksAssumption
    DEF IInv, Connected, Grabbed, Tracked, RolesKept, GrabExcludesOthers,
        AfterRequest, Assign
  <2>5. ClosedClientsForgotten'
    BY <1>1, <1>2, <1>3, <1>4, <2>1, ConnMasksAssumption
    DEF IInv, Connected, Grabbed, Tracked, ClosedClientsForgotten,
        GrabOwnerConnected, SocketsMatch, AfterRequest, Assign
  <2>6. WorkingMasksRestricted'
    BY <1>1, <1>2, <1>3, <1>4, <2>1, ConnMasksAssumption
    DEF IInv, Connected, Grabbed, Tracked, WorkingMasksRestricted,
        GrabOwnerConnected, GrabExcludesOthers, AfterRequest, Assign
  <2>7. InputTidy'
    BY <1>1, <1>2, <1>3, <1>4, <2>1, ConnMasksAssumption
    DEF IInv, Connected, Grabbed, Tracked, InputTidy, RolesKept,
        GrabOwnerConnected, ClosedClientsForgotten, GrabExcludesOthers,
        ServiceAllowed, WorkingMasksRestricted, AfterRequest, Assign
  <2>8. ServiceAllowed'
    BY <1>1, <1>2, <1>3, <1>4, <2>1, ConnMasksAssumption
    DEF IInv, Connected, Grabbed, Tracked, ServiceAllowed, RolesKept,
        GrabOwnerConnected, WorkingMasksRestricted, MasksMatchClients,
        InputTidy, ClosedClientsForgotten, GrabExcludesOthers, AfterRequest,
        Assign
  <2>9. GrabExcludesOthers'
    BY <1>1, <1>2, <1>3, <1>4, <2>1, ConnMasksAssumption
    DEF IInv, Connected, Grabbed, Tracked, GrabExcludesOthers, ServiceAllowed,
        RolesKept, GrabOwnerConnected, WorkingMasksRestricted, AfterRequest,
        Assign
  <2>10. MasksMatchClients'
    BY <1>1, <1>2, <1>3, <1>4, <2>1, ConnMasksAssumption
    DEF IInv, Connected, Grabbed, Tracked, MasksMatchClients,
        GrabOwnerConnected, RolesKept, WorkingMasksRestricted,
        GrabExcludesOthers, ServiceAllowed, ClosedClientsForgotten,
        AfterRequest, Assign
  <2>11. BufferedRequestsRemembered'
    BY <1>1, <1>2, <1>3, <1>4, <2>1, ConnMasksAssumption
    DEF IInv, Connected, Grabbed, Tracked, BufferedRequestsRemembered,
        InputTidy, RolesKept, GrabOwnerConnected, WorkingMasksRestricted,
        GrabExcludesOthers, ServiceAllowed, ClosedClientsForgotten,
        MasksMatchClients, AfterRequest, Assign
  <2> QED BY <2>2, <2>3, <2>4, <2>5, <2>6, <2>7, <2>8, <2>9, <2>10, <2>11 DEF IInv
<1>5. CASE r.GrabInProgress # NoClient /\ c \notin r.AllClients
  <2>1. /\ masks'.AllClients = r.AllClients
        /\ masks'.AllSockets = r.AllSockets
        /\ masks'.ClientsWithInput = r.ClientsWithInput
        /\ masks'.SavedAllClients = r.SavedAllClients \ {c}
        /\ masks'.SavedAllSockets = r.SavedAllSockets \ {c}
        /\ masks'.SavedClientsWithInput = r.SavedClientsWithInput \ {c}
        /\ masks'.IgnoredClientsWithInput = 
            Assign(r.IgnoredClientsWithInput, c, c \in r.SavedClientsWithInput)
        /\ masks'.GrabImperviousClients = r.GrabImperviousClients
        /\ masks'.EnabledDevices = r.EnabledDevices
        /\ masks'.GrabInProgress = r.GrabInProgress
    BY <1>5, IgnoreHeldFields
  <2>2. GrabOwnerConnected'
    BY <1>1, <1>2, <1>3, <1>5, <2>1, ConnMasksAssumption
    DEF IInv, Connected, Grabbed, Tracked, GrabOwnerConnected,
        ClosedClientsForgotten, AfterRequest, Assign
  <2>3. SocketsMatch'
    BY <1>1, <1>2, <1>3, <1>5, <2>1, ConnMasksAssumption
    DEF IInv, Connected, Grabbed, Tracked, SocketsMatch, GrabOwnerConnected,
        AfterRequest, Assign
  <2>4. RolesKept'
    BY <1>1, <1>2, <1>3, <1>5, <2>1, ConnMasksAssumption
    DEF IInv, Connected, Grabbed, Tracked, RolesKept, GrabExcludesOthers,
        AfterRequest, Assign
  <2>5. ClosedClientsForgotten'
    BY <1>1, <1>2, <1>3, <1>5, <2>1, ConnMasksAssumption
    DEF IInv, Connected, Grabbed, Tracked, ClosedClientsForgotten,
        GrabOwnerConnected, SocketsMatch, AfterRequest, Assign
  <2>6. WorkingMasksRestricted'
    BY <1>1, <1>2, <1>3, <1>5, <2>1, ConnMasksAssumption
    DEF IInv, Connected, Grabbed, Tracked, WorkingMasksRestricted,
        GrabOwnerConnected, GrabExcludesOthers, AfterRequest, Assign
  <2>7. InputTidy'
    BY <1>1, <1>2, <1>3, <1>5, <2>1, ConnMasksAssumption
    DEF IInv, Connected, Grabbed, Tracked, InputTidy, RolesKept,
        GrabOwnerConnected, ClosedClientsForgotten, GrabExcludesOthers,
        ServiceAllowed, WorkingMasksRestricted, AfterRequest, Assign
  <2>8. ServiceAllowed'
    BY <1>1, <1>2, <1>3, <1>5, <2>1, ConnMasksAssumption
    DEF IInv, Connected, Grabbed, Tracked, ServiceAllowed, RolesKept,
        GrabOwnerConnected, WorkingMasksRestricted, MasksMatchClients,
        InputTidy, ClosedClientsForgotten, GrabExcludesOthers, AfterRequest,
        Assign
  <2>9. GrabExcludesOthers'
    BY <1>1, <1>2, <1>3, <1>5, <2>1, ConnMasksAssumption
    DEF IInv, Connected, Grabbed, Tracked, GrabExcludesOthers, ServiceAllowed,
        RolesKept, GrabOwnerConnected, WorkingMasksRestricted, AfterRequest,
        Assign
  <2>10. MasksMatchClients'
    BY <1>1, <1>2, <1>3, <1>5, <2>1, ConnMasksAssumption
    DEF IInv, Connected, Grabbed, Tracked, MasksMatchClients,
        GrabOwnerConnected, RolesKept, WorkingMasksRestricted,
        GrabExcludesOthers, ServiceAllowed, ClosedClientsForgotten,
        AfterRequest, Assign
  <2>11. BufferedRequestsRemembered'
    BY <1>1, <1>2, <1>3, <1>5, <2>1, ConnMasksAssumption
    DEF IInv, Connected, Grabbed, Tracked, BufferedRequestsRemembered,
        InputTidy, RolesKept, GrabOwnerConnected, WorkingMasksRestricted,
        GrabExcludesOthers, ServiceAllowed, ClosedClientsForgotten,
        MasksMatchClients, AfterRequest, Assign
  <2> QED BY <2>2, <2>3, <2>4, <2>5, <2>6, <2>7, <2>8, <2>9, <2>10, <2>11 DEF IInv
<1> QED BY <1>4, <1>5

(* IgnoreClient takes the client out of the masks it is in and keeps its   *)
(* input bit aside.                                                        *)
LEMMA SleepStep ==
    ASSUME IInv, TypeOK', NEW c \in Clients, Sleep(c)
    PROVE  IInv'
<1> PICK k \in 0..MaxRequests : Sleep(c)!(k)
  BY DEF Sleep
<1> DEFINE t == Taken(c, k)
<1>1. /\ k \in Reads(c)
      /\ t \in Masks
      /\ Left(c, k) \in Nat
      /\ masks \in Masks
  BY ExecutesFacts DEF IInv, TypeOK
<1>2. /\ t.AllClients = masks.AllClients
      /\ t.AllSockets = masks.AllSockets
      /\ t.ClientsWithInput = IF Left(c, k) > 0 THEN masks.ClientsWithInput \cup {c}
                                            ELSE masks.ClientsWithInput \ {c}
      /\ t.SavedAllClients = masks.SavedAllClients
      /\ t.SavedAllSockets = masks.SavedAllSockets
      /\ t.SavedClientsWithInput = masks.SavedClientsWithInput
      /\ t.IgnoredClientsWithInput = masks.IgnoredClientsWithInput
      /\ t.GrabImperviousClients = masks.GrabImperviousClients
      /\ t.EnabledDevices = masks.EnabledDevices
      /\ t.GrabInProgress = masks.GrabInProgress
  BY <1>1, TakenFields DEF IInv
<1> HIDE DEF t
<1>3. [t EXCEPT !.ClientsWithInput = {}, !.IgnoredClientsWithInput = {}]
         = [masks EXCEPT !.ClientsWithInput = {},
                         !.IgnoredClientsWithInput = {}]
  BY <1>1, <1>2 DEF Masks
<1>4. /\ current = c /\ Connected(c)
      /\ buffered'[c] = Left(c, k)
      /\ \A d \in Clients : d # c => buffered'[d] = buffered[d]
  BY DEF Executes, IInv, TypeOK
<1>5. c \in t.ClientsWithInput <=> buffered'[c] > 0
  BY <1>2, <1>4
<1>6. asleep \subseteq Sleepers /\ grabWaiters \subseteq ImperviousUsers
  BY DEF IInv, RolesKept
<1>7. masks' = IgnoreClient(t, c)
  BY DEF t
<1> QED BY <1>1, <1>2, <1>3, <1>4, <1>5, <1>6, <1>7, IgnoreStep

(* The end of the grab restores every client that was held back and attends*)
(* to one waiter.                                                          *)
LEMMA ProcUngrabServerStep ==
    ASSUME IInv, TypeOK', NEW c \in Clients, ProcUngrabServer(c)
    PROVE  IInv'
<1> PICK k \in 0..MaxRequests, w \in Clients \cup {NoClient} :
        ProcUngrabServer(c)!(k, w)
  BY DEF ProcUngrabServer
<1> DEFINE t == Taken(c, k)
<1>1. /\ k \in Reads(c)
      /\ t \in Masks
      /\ Left(c, k) \in Nat
      /\ masks \in Masks
      /\ buffered[c] + k = Left(c, k) + 1
  BY ExecutesFacts, ServerGrabAssumption DEF IInv, TypeOK, Left, Reads
<1>2. /\ t.AllClients = masks.AllClients
      /\ t.AllSockets = masks.AllSockets
      /\ t.ClientsWithInput = IF Left(c, k) > 0 THEN masks.ClientsWithInput \cup {c}
                                            ELSE masks.ClientsWithInput \ {c}
      /\ t.SavedAllClients = masks.SavedAllClients
      /\ t.SavedAllSockets = masks.SavedAllSockets
      /\ t.SavedClientsWithInput = masks.SavedClientsWithInput
      /\ t.IgnoredClientsWithInput = masks.IgnoredClientsWithInput
      /\ t.GrabImperviousClients = masks.GrabImperviousClients
      /\ t.EnabledDevices = masks.EnabledDevices
      /\ t.GrabInProgress = masks.GrabInProgress
  BY <1>1, TakenFields DEF IInv
<1> HIDE DEF t
<1> DEFINE grab == t.GrabInProgress # NoClient
<1>3. /\ masks'.AllClients = t.AllClients \cup ({w} \ {NoClient})
            \cup IF grab THEN t.SavedAllClients ELSE {}
      /\ masks'.AllSockets = t.AllSockets \cup ({w} \ {NoClient})
            \cup IF grab THEN t.SavedAllSockets ELSE {}
      /\ masks'.ClientsWithInput = t.ClientsWithInput
            \cup (({w} \ {NoClient}) \cap t.IgnoredClientsWithInput)
            \cup IF grab THEN t.SavedClientsWithInput ELSE {}
      /\ masks'.SavedAllClients = t.SavedAllClients
      /\ masks'.SavedAllSockets = t.SavedAllSockets
      /\ masks'.SavedClientsWithInput = t.SavedClientsWithInput
      /\ masks'.IgnoredClientsWithInput = t.IgnoredClientsWithInput
      /\ masks'.GrabImperviousClients = t.GrabImperviousClients
      /\ masks'.EnabledDevices = t.EnabledDevices
      /\ masks'.GrabInProgress = NoClient
  BY <1>1, UngrabFields DEF t
<1>4. /\ masks.AllClients \subseteq Clients
      /\ masks.ClientsWithInput \subseteq Clients
      /\ masks.SavedAllClients \subseteq Clients
      /\ masks.SavedClientsWithInput \subseteq Clients
      /\ masks.EnabledDevices \subseteq Devices
      /\ clientReady \subseteq Clients
      /\ grabWaiters \subseteq Clients
      /\ grabClient \in Clients \cup {NoClient}
      /\ buffered \in [Clients -> 0..MaxRequests]
      /\ buffered[c] \in Nat
      /\ current = c /\ Connected(c)
      /\ w # NoClient => w \in grabWaiters
  BY <1>1 DEF Executes, Masks, IInv, TypeOK, IsNextWaiter
<1>r. current' \notin clientReady' /\ clientReady' = clientReady
  BY <1>4, ConnMasksAssumption DEF AfterRequest, IInv, ServiceAllowed, NoClient
<1>5. GrabOwnerConnected'
  BY <1>r, <1>1, <1>2, <1>3, <1>4, ConnMasksAssumption
  DEF IInv, Connected, Ignored, Grabbed, Tracked, NoClient, GrabOwnerConnected,
      ClosedClientsForgotten, AfterRequest
<1>6. SocketsMatch'
  BY <1>r, <1>1, <1>2, <1>3, <1>4, ConnMasksAssumption
  DEF IInv, Connected, Ignored, Grabbed, Tracked, NoClient, SocketsMatch,
      GrabOwnerConnected, AfterRequest
<1>7. RolesKept'
  BY <1>r, <1>1, <1>2, <1>3, <1>4, ConnMasksAssumption
  DEF IInv, Connected, Ignored, Grabbed, Tracked, NoClient, RolesKept,
      GrabExcludesOthers, AfterRequest
<1>8. ClosedClientsForgotten'
  BY <1>r, <1>1, <1>2, <1>3, <1>4, ConnMasksAssumption
  DEF IInv, Connected, Ignored, Grabbed, Tracked, NoClient,
      ClosedClientsForgotten, GrabOwnerConnected, SocketsMatch, AfterRequest
<1>9. WorkingMasksRestricted'
  BY <1>r, <1>1, <1>2, <1>3, <1>4, ConnMasksAssumption
  DEF IInv, Connected, Ignored, Grabbed, Tracked, NoClient,
      WorkingMasksRestricted, GrabOwnerConnected, GrabExcludesOthers,
      AfterRequest
<1>10. InputTidy'
  BY <1>r, <1>1, <1>2, <1>3, <1>4, ConnMasksAssumption
  DEF IInv, Connected, Ignored, Grabbed, Tracked, NoClient, InputTidy,
      RolesKept, GrabOwnerConnected, ClosedClientsForgotten,
      GrabExcludesOthers, ServiceAllowed, WorkingMasksRestricted, AfterRequest
<1>11. ServiceAllowed'
  BY <1>r, <1>1, <1>2, <1>3, <1>4, ConnMasksAssumption
  DEF IInv, Connected, Ignored, Grabbed, Tracked, NoClient, ServiceAllowed,
      RolesKept, GrabOwnerConnected, WorkingMasksRestricted, MasksMatchClients,
      InputTidy, ClosedClientsForgotten, GrabExcludesOthers, AfterRequest
<1>12. GrabExcludesOthers'
  BY <1>r, <1>1, <1>2, <1>3, <1>4, ConnMasksAssumption
  DEF IInv, Connected, Ignored, Grabbed, Tracked, NoClient, GrabExcludesOthers,
      ServiceAllowed, RolesKept, GrabOwnerConnected, WorkingMasksRestricted,
      AfterRequest
<1>13. MasksMatchClients'
  BY <1>r, <1>1, <1>2, <1>3, <1>4, ConnMasksAssumption
  DEF IInv, Connected, Ignored, Grabbed, Tracked, NoClient, MasksMatchClients,
      GrabOwnerConnected, RolesKept, WorkingMasksRestricted,
      GrabExcludesOthers, ServiceAllowed, ClosedClientsForgotten, AfterRequest
<1>14. BufferedRequestsRemembered'
  BY <1>r, <1>1, <1>2, <1>3, <1>4, ConnMasksAssumption
  DEF IInv, Connected, Ignored, Grabbed, Tracked, NoClient,
      BufferedRequestsRemembered, InputTidy, RolesKept, GrabOwnerConnected,
      WorkingMasksRestricted, GrabExcludesOthers, ServiceAllowed,
      ClosedClientsForgotten, MasksMatchClients, AfterRequest
<1> QED BY <1>5, <1>6, <1>7, <1>8, <1>9, <1>10, <1>11, <1>12, <1>13, <1>14 DEF IInv

(* A grab holds back everybody else; under another's grab the client waits *)
(* with its request put back.                                              *)
LEMMA ProcGrabServerStep ==
    ASSUME IInv, TypeOK', NEW c \in Clients, ProcGrabServer(c)
    PROVE  IInv'
<1> PICK k \in 0..MaxRequests : ProcGrabServer(c)!(k)
  BY DEF ProcGrabServer
<1> DEFINE t == Taken(c, k)
<1>1. /\ k \in Reads(c)
      /\ t \in Masks
      /\ Left(c, k) \in Nat
      /\ masks \in Masks
  BY ExecutesFacts DEF IInv, TypeOK
<1>2. /\ t.AllClients = masks.AllClients
      /\ t.AllSockets = masks.AllSockets
      /\ t.ClientsWithInput = IF Left(c, k) > 0 THEN masks.ClientsWithInput \cup {c}
                                            ELSE masks.ClientsWithInput \ {c}
      /\ t.SavedAllClients = masks.SavedAllClients
      /\ t.SavedAllSockets = masks.SavedAllSockets
      /\ t.SavedClientsWithInput = masks.SavedClientsWithInput
      /\ t.IgnoredClientsWithInput = masks.IgnoredClientsWithInput
      /\ t.GrabImperviousClients = masks.GrabImperviousClients
      /\ t.EnabledDevices = masks.EnabledDevices
      /\ t.GrabInProgress = masks.GrabInProgress
  BY <1>1, TakenFields DEF IInv
<1>3. /\ masks.AllClients \subseteq Clients
      /\ masks.ClientsWithInput \subseteq Clients
      /\ masks.SavedAllClients \subseteq Clients
      /\ masks.SavedClientsWithInput \subseteq Clients
      /\ masks.EnabledDevices \subseteq Devices
      /\ clientReady \subseteq Clients
      /\ grabWaiters \subseteq Clients
      /\ grabClient \in Clients \cup {NoClient}
      /\ buffered \in [Clients -> 0..MaxRequests]
      /\ buffered[c] \in Nat
      /\ current = c /\ Connected(c)
  BY <1>1 DEF Executes, Masks, IInv, TypeOK
<1>4. CASE ~Grabbed
  <2>1. /\ masks'.AllClients = (t.AllClients \cap t.GrabImperviousClients) \cup {c}
        /\ masks'.AllSockets = (t.AllSockets \ t.AllClients)
              \cup (t.AllClients \cap t.GrabImperviousClients) \cup {c}
        /\ masks'.ClientsWithInput = t.ClientsWithInput
              \cap (t.GrabImperviousClients \cup {c})
        /\ masks'.SavedAllClients = t.AllClients
        /\ masks'.SavedAllSockets = t.AllSockets
        /\ masks'.SavedClientsWithInput = t.ClientsWithInput
              \ (t.GrabImperviousClients \cup {c})
        /\ masks'.IgnoredClientsWithInput = t.IgnoredClientsWithInput
        /\ masks'.GrabImperviousClients = t.GrabImperviousClients
        /\ masks'.EnabledDevices = t.EnabledDevices
        /\ masks'.GrabInProgress = c
    <3>1. t.GrabInProgress = NoClient
      BY <1>2, <1>4 DEF IInv, GrabOwnerConnected
    <3>2. masks' = OnlyListenToOneClient(t, c)
      BY <1>4 DEF Grabbed
    <3> HIDE DEF t
    <3> QED BY <1>1, <3>1, <3>2, OnlyListenFields
  <2>2. grabState' = "Kickout" /\ grabClient' = c /\ clientState' = clientState
    BY <1>4 DEF Grabbed
  <2>3. asleep' = asleep /\ grabWaiters' = grabWaiters
    BY <1>4 DEF Grabbed
  <2>4. buffered' = [buffered EXCEPT ![c] = Left(c, k)]
    BY <1>4 DEF Grabbed
  <2>5. current' \notin clientReady' /\ clientReady' = clientReady
    BY <1>3, <1>4, ConnMasksAssumption
    DEF AfterRequest, IInv, ServiceAllowed, NoClient, Grabbed
  <2> HIDE DEF t
  <2>6. GrabOwnerConnected'
    BY <1>1, <1>2, <1>3, <1>4, <2>1, <2>2, <2>3, <2>4, <2>5,
        ConnMasksAssumption
    DEF IInv, Connected, Ignored, Grabbed, Tracked, NoClient,
        GrabOwnerConnected, ClosedClientsForgotten, AfterRequest
  <2>7. SocketsMatch'
    BY <1>1, <1>2, <1>3, <1>4, <2>1, <2>2, <2>3, <2>4, <2>5,
        ConnMasksAssumption
    DEF IInv, Connected, Ignored, Grabbed, Tracked, NoClient, SocketsMatch,
        GrabOwnerConnected, AfterRequest
  <2>8. RolesKept'
    BY <1>1, <1>2, <1>3, <1>4, <2>1, <2>2, <2>3, <2>4, <2>5,
        ConnMasksAssumption
    DEF IInv, Connected, Ignored, Grabbed, Tracked, NoClient, RolesKept,
        GrabExcludesOthers, AfterRequest
  <2>9. ClosedClientsForgotten'
    BY <1>1, <1>2, <1>3, <1>4, <2>1, <2>2, <2>3, <2>4, <2>5,
        ConnMasksAssumption
    DEF IInv, Connected, Ignored, Grabbed, Tracked, NoClient,
        ClosedClientsForgotten, GrabOwnerConnected, SocketsMatch, AfterRequest
  <2>10. WorkingMasksRestricted'
    BY <1>1, <1>2, <1>3, <1>4, <2>1, <2>2, <2>3, <2>4, <2>5,
        ConnMasksAssumption
    DEF IInv, Connected, Ignored, Grabbed, Tracked, NoClient,
        WorkingMasksRestricted, GrabOwnerConnected, GrabExcludesOthers,
        AfterRequest
  <2>11. InputTidy'
    BY <1>1, <1>2, <1>3, <1>4, <2>1, <2>2, <2>3, <2>4, <2>5,
        ConnMasksAssumption
    DEF IInv, Connected, Ignored, Grabbed, Tracked, NoClient, InputTidy,
        RolesKept, GrabOwnerConnected, ClosedClientsForgotten,
        GrabExcludesOthers, ServiceAllowed, WorkingMasksRestricted,
        AfterRequest
  <2>12. ServiceAllowed'
    BY <1>1, <1>2, <1>3, <1>4, <2>1, <2>2, <2>3, <2>4, <2>5,
        ConnMasksAssumption
    DEF IInv, Connected, Ignored, Grabbed, Tracked, NoClient, ServiceAllowed,
        RolesKept, GrabOwnerConnected, WorkingMasksRestricted,
        MasksMatchClients, InputTidy, ClosedClientsForgotten,
        GrabExcludesOthers, AfterRequest
  <2>13. GrabExcludesOthers'
    BY <1>1, <1>2, <1>3, <1>4, <2>1, <2>2, <2>3, <2>4, <2>5,
        ConnMasksAssumption
    DEF IInv, Connected, Ignored, Grabbed, Tracked, NoClient,
        GrabExcludesOthers, ServiceAllowed, RolesKept, GrabOwnerConnected,
        WorkingMasksRestricted, AfterRequest
  <2>14. MasksMatchClients'
    BY <1>1, <1>2, <1>3, <1>4, <2>1, <2>2, <2>3, <2>4, <2>5,
        ConnMasksAssumption
    DEF IInv, Connected, Ignored, Grabbed, Tracked, NoClient,
        MasksMatchClients, GrabOwnerConnected, RolesKept,
        WorkingMasksRestricted, GrabExcludesOthers, ServiceAllowed,
        ClosedClientsForgotten, AfterRequest
  <2>15. BufferedRequestsRemembered'
    BY <1>1, <1>2, <1>3, <1>4, <2>1, <2>2, <2>3, <2>4, <2>5,
        ConnMasksAssumption
    DEF IInv, Connected, Ignored, Grabbed, Tracked, NoClient,
        BufferedRequestsRemembered, InputTidy, RolesKept, GrabOwnerConnected,
        WorkingMasksRestricted, GrabExcludesOthers, ServiceAllowed,
        ClosedClientsForgotten, MasksMatchClients, AfterRequest
  <2> QED BY <2>6, <2>7, <2>8, <2>9, <2>10, <2>11, <2>12, <2>13, <2>14, <2>15 DEF IInv
<1>5. CASE Grabbed /\ grabClient = c
  <2>1. masks' = Taken(c, k)
    BY <1>1, <1>2, <1>5
    DEF OnlyListenToOneClient, IInv, GrabOwnerConnected, Grabbed
  <2>2. \A d \in Clients : Connected(d)' <=> Connected(d)
    BY DEF Connected
  <2> QED BY <1>5, <2>1, <2>2, ReadStep DEF Grabbed
<1>6. CASE Grabbed /\ grabClient # c
  <2> DEFINE r == ResetCurrentRequest(t, c)
  <2>1. r \in Masks
    BY <1>1, MaskTypes
  <2>2. [r EXCEPT !.ClientsWithInput = {}, !.IgnoredClientsWithInput = {}]
           = [masks EXCEPT !.ClientsWithInput = {},
                           !.IgnoredClientsWithInput = {}]
    <3> HIDE DEF t
    <3> QED BY <1>1, <1>2 DEF ResetCurrentRequest, Masks
  <2>3. \A d \in Clients : d # c =>
           /\ d \in r.ClientsWithInput <=> d \in masks.ClientsWithInput
           /\ d \in r.IgnoredClientsWithInput
                 <=> d \in masks.IgnoredClientsWithInput
    <3> HIDE DEF t
    <3> QED BY <1>1, <1>2 DEF ResetCurrentRequest, Masks
  <2>4. c \in ImperviousUsers /\ c \notin Tracked
    BY <1>3, <1>6 DEF IInv, RolesKept, GrabExcludesOthers, Tracked
  <2>5. /\ masks' = IgnoreClient(r, c)
        /\ buffered' = [buffered EXCEPT ![c] = Left(c, k) + 1]
        /\ grabWaiters' = grabWaiters \cup {c}
        /\ current' = NoClient
        /\ UNCHANGED <<grabState, grabClient, clientState, asleep, clientReady>>
    BY <1>6 DEF Grabbed
  <2>6. \A d \in Clients : d # c => buffered'[d] = buffered[d]
    BY <1>3, <2>5
  <2>7. asleep \subseteq Sleepers /\ grabWaiters \subseteq ImperviousUsers
    BY DEF IInv, RolesKept
  <2> HIDE DEF r
  <2> QED BY <1>3, <2>1, <2>2, <2>3, <2>4, <2>5, <2>6, <2>7, IgnoreStep
<1> QED BY <1>4, <1>5, <1>6

(* The masks m and the buffer counts b are the current ones, but for what   *)
(* reading a request of r, the client that is served, changes in them.     *)
AfterReadBy(m, b, r) ==
    /\ m = [masks EXCEPT !.ClientsWithInput = m.ClientsWithInput]
    /\ \A d \in Clients : d # r =>
          /\ d \in m.ClientsWithInput <=> d \in masks.ClientsWithInput
          /\ b[d] = buffered[d]
    /\ \/ /\ current = r /\ Connected(r)
          /\ r \in m.ClientsWithInput <=> b[r] > 0
       \/ m.ClientsWithInput = masks.ClientsWithInput /\ b = buffered

(* CloseDownClient, from the dispatch loop with a request just read by r,  *)
(* or from elsewhere with the masks as they are.                           *)
LEMMA CloseDownStep ==
    ASSUME IInv, TypeOK', NEW c \in Clients, NEW m \in Masks,
           NEW b \in [Clients -> 0..MaxRequests],
           NEW s \in [Clients -> 0..MaxRequests],
           NEW r \in Clients,
           CloseDownClient(m, b, s, c), Connected(c),
           AfterReadBy(m, b, r),
           UNCHANGED clientReady,
           current' \in {current, NoClient},
           current = c => current' = NoClient
    PROVE  IInv'
<1>1. masks \in Masks
  BY DEF IInv, TypeOK
<1>2. /\ m.AllClients = masks.AllClients
      /\ m.AllSockets = masks.AllSockets
      /\ m.SavedAllClients = masks.SavedAllClients
      /\ m.SavedAllSockets = masks.SavedAllSockets
      /\ m.SavedClientsWithInput = masks.SavedClientsWithInput
      /\ m.IgnoredClientsWithInput = masks.IgnoredClientsWithInput
      /\ m.GrabImperviousClients = masks.GrabImperviousClients
      /\ m.EnabledDevices = masks.EnabledDevices
      /\ m.GrabInProgress = masks.GrabInProgress
  BY <1>1 DEF AfterReadBy, Masks
<1> /\ \A d \in Clients : d # r =>
          /\ d \in m.ClientsWithInput <=> d \in masks.ClientsWithInput
          /\ b[d] = buffered[d]
    /\ \/ /\ current = r /\ Connected(r)
          /\ r \in m.ClientsWithInput <=> b[r] > 0
       \/ m.ClientsWithInput = masks.ClientsWithInput /\ b = buffered
  BY DEF AfterReadBy
<1> PICK w \in Clients \cup {NoClient} : CloseDownClient(m, b, s, c)!(w)
  BY DEF CloseDownClient
<1> DEFINE u == IF GrabbedBy(c) THEN UngrabServer(m, w) ELSE m
<1> DEFINE e == IF GrabbedBy(c) THEN {w} \ {NoClient} ELSE {}
<1>3. u \in Masks
  BY ServerMaskTypes
<1>g. GrabbedBy(c) => masks.GrabInProgress # NoClient
  BY DEF IInv, GrabOwnerConnected, Grabbed, GrabbedBy
<1>4. /\ u.AllClients = masks.AllClients \cup e
            \cup IF GrabbedBy(c) THEN masks.SavedAllClients ELSE {}
      /\ u.AllSockets = masks.AllSockets \cup e
            \cup IF GrabbedBy(c) THEN masks.SavedAllSockets ELSE {}
      /\ u.ClientsWithInput = m.ClientsWithInput
            \cup (e \cap masks.IgnoredClientsWithInput)
            \cup IF GrabbedBy(c) THEN masks.SavedClientsWithInput ELSE {}
      /\ u.SavedAllClients = masks.SavedAllClients
      /\ u.SavedAllSockets = masks.SavedAllSockets
      /\ u.SavedClientsWithInput = masks.SavedClientsWithInput
      /\ u.IgnoredClientsWithInput = masks.IgnoredClientsWithInput
      /\ u.GrabImperviousClients = masks.GrabImperviousClients
      /\ u.EnabledDevices = masks.EnabledDevices
      /\ u.GrabInProgress = IF GrabbedBy(c) THEN NoClient ELSE masks.GrabInProgress
  <2>1. CASE GrabbedBy(c)
    <3>1. u = UngrabServer(m, w) /\ e = {w} \ {NoClient}
      BY <2>1
    <3>2. m.GrabInProgress # NoClient
      BY <1>2, <1>g, <2>1
    <3>3. LET n == UngrabServer(m, w) IN
                    /\ n.AllClients = m.AllClients \cup ({w} \ {NoClient}) \cup m.SavedAllClients
          /\ n.AllSockets = m.AllSockets \cup ({w} \ {NoClient}) \cup m.SavedAllSockets
          /\ n.ClientsWithInput = m.ClientsWithInput
                \cup (({w} \ {NoClient}) \cap m.IgnoredClientsWithInput)
                \cup m.SavedClientsWithInput
          /\ n.SavedAllClients = m.SavedAllClients
          /\ n.SavedAllSockets = m.SavedAllSockets
          /\ n.SavedClientsWithInput = m.SavedClientsWithInput
          /\ n.IgnoredClientsWithInput = m.IgnoredClientsWithInput
          /\ n.GrabImperviousClients = m.GrabImperviousClients
          /\ n.EnabledDevices = m.EnabledDevices
          /\ n.GrabInProgress = NoClient
      BY <3>2, UngrabFields
    <3> HIDE DEF u, e
    <3> QED BY <1>2, <2>1, <3>1, <3>3
  <2>2. CASE ~GrabbedBy(c)
    BY <1>2, <2>2
  <2> QED BY <2>1, <2>2
<1>5. masks' = CloseDownFileDescriptor(u, c)
  OBVIOUS
<1> HIDE DEF u
<1>6. /\ masks'.AllClients = u.AllClients \ {c}
      /\ masks'.AllSockets = u.AllSockets \ {c}
      /\ masks'.ClientsWithInput = u.ClientsWithInput \ {c}
      /\ masks'.SavedAllClients = u.SavedAllClients \ SavedToo(u, c)
      /\ masks'.SavedAllSockets = u.SavedAllSockets \ SavedToo(u, c)
      /\ masks'.SavedClientsWithInput = u.SavedClientsWithInput \ SavedToo(u, c)
      /\ masks'.IgnoredClientsWithInput = u.IgnoredClientsWithInput
      /\ masks'.GrabImperviousClients = u.GrabImperviousClients \ {c}
      /\ masks'.EnabledDevices = u.EnabledDevices
      /\ masks'.GrabInProgress = u.GrabInProgress
  BY <1>3, <1>5, CloseDownFields
<1>7. /\ masks.AllClients \subseteq Clients
      /\ masks.ClientsWithInput \subseteq Clients
      /\ masks.SavedAllClients \subseteq Clients
      /\ masks.SavedClientsWithInput \subseteq Clients
      /\ masks.EnabledDevices \subseteq Devices
      /\ clientReady \subseteq Clients
      /\ grabWaiters \subseteq Clients
      /\ grabClient \in Clients \cup {NoClient}
      /\ buffered \in [Clients -> 0..MaxRequests]
      /\ m.ClientsWithInput \subseteq Clients
      /\ c # NoClient
      /\ GrabbedBy(c) => (w # NoClient => w \in grabWaiters)
      /\ ~GrabbedBy(c) => w = NoClient
      /\ grabWaiters' = grabWaiters \ {w, c}
  BY <1>1, ConnMasksAssumption DEF Masks, IInv, TypeOK, IsNextWaiter
<1>8. /\ ~Connected(c)'
      /\ \A d \in Clients : d # c => (Connected(d)' <=> Connected(d))
      /\ buffered'[c] = 0
      /\ \A d \in Clients : d # c => buffered'[d] = b[d]
      /\ \A d \in Clients : b[d] \in Nat
  BY DEF Connected, IInv, TypeOK
<1>9. \A d \in Tracked : Ignored(d) => d \notin m.ClientsWithInput
  BY DEF IInv, Tracked, InputTidy, ServiceAllowed, Ignored
<1>10. e \cap Tracked = {}
  BY <1>7 DEF IInv, RolesKept, Tracked
<1>11. \A d \in Tracked : Connected(d) =>
         LET where == IF Ignored(d) THEN masks.IgnoredClientsWithInput
                      ELSE IF Grabbed /\ grabClient # d
                           THEN masks.SavedClientsWithInput
                           ELSE m.ClientsWithInput
         IN  d \in where <=> b[d] > 0
  BY DEF IInv, Tracked, BufferedRequestsRemembered, GrabExcludesOthers,
         ServiceAllowed, RolesKept, Connected
<1>12. GrabOwnerConnected'
  BY <1>2, <1>4, <1>6, <1>7, <1>8, <1>9, <1>10, <1>11, ConnMasksAssumption
  DEF IInv, Ignored, Grabbed, Tracked, NoClient, GrabOwnerConnected,
      ClosedClientsForgotten, AfterRequest, GrabbedBy, SavedToo
<1>13. SocketsMatch'
  BY <1>2, <1>4, <1>6, <1>7, <1>8, <1>9, <1>10, <1>11, ConnMasksAssumption
  DEF IInv, Ignored, Grabbed, Tracked, NoClient, SocketsMatch,
      GrabOwnerConnected, AfterRequest, GrabbedBy, SavedToo
<1>14. RolesKept'
  BY <1>2, <1>4, <1>6, <1>7, <1>8, <1>9, <1>10, <1>11, ConnMasksAssumption
  DEF IInv, Ignored, Grabbed, Tracked, NoClient, RolesKept, GrabExcludesOthers,
      AfterRequest, GrabbedBy, SavedToo
<1>15. ClosedClientsForgotten'
  BY <1>2, <1>4, <1>6, <1>7, <1>8, <1>9, <1>10, <1>11, ConnMasksAssumption
  DEF IInv, Ignored, Grabbed, Tracked, NoClient, ClosedClientsForgotten,
      GrabOwnerConnected, SocketsMatch, AfterRequest, GrabbedBy, SavedToo
<1>16. WorkingMasksRestricted'
  BY <1>2, <1>4, <1>6, <1>7, <1>8, <1>9, <1>10, <1>11, ConnMasksAssumption
  DEF IInv, Ignored, Grabbed, Tracked, NoClient, WorkingMasksRestricted,
      GrabOwnerConnected, GrabExcludesOthers, AfterRequest, GrabbedBy, SavedToo
<1>17. InputTidy'
  <2>1. ASSUME NEW d \in Tracked, Ignored(d)' PROVE d \notin masks'.ClientsWithInput
    <3>1. d \in Clients /\ Ignored(d) /\ d \notin e /\ d # c
      BY <1>7, <1>10, <2>1 DEF Ignored, Tracked, IInv, ClosedClientsForgotten
    <3>2. GrabbedBy(c) => d \notin masks.SavedClientsWithInput
      BY <2>1, <3>1 DEF IInv, InputTidy, GrabbedBy, Grabbed
    <3> QED BY <1>4, <1>6, <1>9, <2>1, <3>1, <3>2
  <2>2. ASSUME NEW d \in Tracked, Ignored(d)', Grabbed'
        PROVE  d \notin masks'.SavedClientsWithInput
    BY <1>4, <1>6, <1>7, <2>2 DEF IInv, InputTidy, Ignored, Grabbed
  <2>3. ASSUME NEW d \in Clients, ~Connected(d)' PROVE buffered'[d] = 0
    BY <1>8, <2>3 DEF IInv, InputTidy
  <2> QED BY <2>1, <2>2, <2>3 DEF InputTidy
<1>18. ServiceAllowed'
  BY <1>2, <1>4, <1>6, <1>7, <1>8, <1>9, <1>10, <1>11, ConnMasksAssumption
  DEF IInv, Ignored, Grabbed, Tracked, NoClient, ServiceAllowed, RolesKept,
      GrabOwnerConnected, WorkingMasksRestricted, MasksMatchClients, InputTidy,
      ClosedClientsForgotten, GrabExcludesOthers, AfterRequest, GrabbedBy,
      SavedToo
<1>19. GrabExcludesOthers'
  BY <1>2, <1>4, <1>6, <1>7, <1>8, <1>9, <1>10, <1>11, ConnMasksAssumption
  DEF IInv, Ignored, Grabbed, Tracked, NoClient, GrabExcludesOthers,
      ServiceAllowed, RolesKept, GrabOwnerConnected, WorkingMasksRestricted,
      AfterRequest, GrabbedBy, SavedToo
<1>20. MasksMatchClients'
  BY <1>2, <1>4, <1>6, <1>7, <1>8, <1>9, <1>10, <1>11, ConnMasksAssumption
  DEF IInv, Ignored, Grabbed, Tracked, NoClient, MasksMatchClients,
      GrabOwnerConnected, RolesKept, WorkingMasksRestricted,
      GrabExcludesOthers, ServiceAllowed, ClosedClientsForgotten, AfterRequest,
      GrabbedBy, SavedToo
<1>21. BufferedRequestsRemembered'
  BY <1>2, <1>4, <1>6, <1>7, <1>8, <1>9, <1>10, <1>11, ConnMasksAssumption
  DEF IInv, Ignored, Grabbed, Tracked, NoClient, BufferedRequestsRemembered,
      InputTidy, RolesKept, GrabOwnerConnected, WorkingMasksRestricted,
      GrabExcludesOthers, ServiceAllowed, ClosedClientsForgotten,
      MasksMatchClients, AfterRequest, GrabbedBy, SavedToo
<1> QED BY <1>12, <1>13, <1>14, <1>15, <1>16, <1>17, <1>18, <1>19, <1>20, <1>21 DEF IInv

----------------------------------------------------------------------------
(* A client closed outside the dispatch loop, or by a failing read, leaves *)
(* the masks and buffers of the others as they were.                       *)
LEMMA CloseIdleStep ==
    ASSUME IInv, TypeOK', NEW c \in Clients, Connected(c),
           CloseDownClient(masks, buffered, inSocket, c),
           UNCHANGED clientReady,
           current' \in {current, NoClient}, current = c => current' = NoClient
    PROVE  IInv'
<1>1. /\ masks \in Masks
      /\ buffered \in [Clients -> 0..MaxRequests]
      /\ inSocket \in [Clients -> 0..MaxRequests]
  BY DEF IInv, TypeOK
<1>2. AfterReadBy(masks, buffered, c)
  BY <1>1 DEF AfterReadBy, Masks
<1> QED BY <1>1, <1>2, CloseDownStep

(* KillClient closes the victim after the killer's request was read.       *)
LEMMA ProcKillClientStep ==
    ASSUME IInv, TypeOK', NEW c \in Clients, NEW victim \in Clients,
           ProcKillClient(c, victim)
    PROVE  IInv'
<1> PICK k \in Reads(c) : ProcKillClient(c, victim)!(k)
  BY DEF ProcKillClient
<1>1. /\ Taken(c, k) \in Masks
      /\ [buffered EXCEPT ![c] = Left(c, k)] \in [Clients -> 0..MaxRequests]
      /\ [inSocket EXCEPT ![c] = @ - k] \in [Clients -> 0..MaxRequests]
      /\ masks \in Masks
  BY ReadBounds, TakenType DEF IInv, TypeOK
<1> PICK m \in Masks : m = Taken(c, k)
  BY <1>1
<1> PICK b \in [Clients -> 0..MaxRequests] :
        b = [buffered EXCEPT ![c] = Left(c, k)]
  BY <1>1
<1> PICK s \in [Clients -> 0..MaxRequests] : s = [inSocket EXCEPT ![c] = @ - k]
  BY <1>1
<1>2. /\ m = [masks EXCEPT !.ClientsWithInput = m.ClientsWithInput]
      /\ \A d \in Clients : d # c =>
            (d \in m.ClientsWithInput <=> d \in masks.ClientsWithInput)
      /\ c \in m.ClientsWithInput <=> Left(c, k) > 0
  BY <1>1 DEF Taken, ReadRequestFromClient, Assign, Masks
<1>3. /\ \A d \in Clients : d # c => b[d] = buffered[d]
      /\ b[c] = Left(c, k)
  BY DEF IInv, TypeOK
<1>4. /\ current' \in {current, NoClient}
      /\ current = victim => current' = NoClient
  BY DEF AfterRequest
<1>5. AfterReadBy(m, b, c)
  BY <1>2, <1>3 DEF AfterReadBy
<1> QED BY <1>4, <1>5, CloseDownStep

(* The invariant is inductive: one fact for each action of Next.           *)
LEMMA IInvStep == IInv /\ [Next]_vars => IInv'
<1> SUFFICES ASSUME IInv, [Next]_vars PROVE IInv'
  OBVIOUS
<1>1. TypeOK'
  BY TypeStep DEF IInv
<1>2. ASSUME NEW c \in Clients, LoseConnection(c) PROVE IInv'
  BY <1>1, <1>2, CloseIdleStep, ConnMasksAssumption DEF LoseConnection, NoClient
<1>3. ASSUME NEW c \in Clients, ReadFails(c) PROVE IInv'
  BY <1>1, <1>3, CloseIdleStep DEF ReadFails
<1>4. ASSUME NEW c \in Clients, Serve(c) PROVE IInv'
  BY <1>1, <1>3, <1>4, ReadReturnsNothingStep, ProcGrabServerStep,
     ProcUngrabServerStep, ProcXTestGrabControlStep, SleepStep,
     ProcChangeCloseDownModeStep, ProcKillClientStep, KillRetainedStep,
     OtherRequestStep DEF Serve
<1>5. CASE UNCHANGED vars
  BY <1>5 DEF vars, IInv, TypeOK, GrabOwnerConnected, SocketsMatch, RolesKept,
     ClosedClientsForgotten, WorkingMasksRestricted, InputTidy,
     ServiceAllowed, GrabExcludesOthers, MasksMatchClients,
     BufferedRequestsRemembered, Grabbed, Ignored, Connected
<1> QED BY <1>1, <1>2, <1>4, <1>5, ClientSendsStep,
           EstablishNewConnectionStep, DevicesChangeStep, AwakenStep,
           WaitForSomethingStep, DispatchNextStep DEF Next

(* The invariant holds in every reachable state.                           *)
THEOREM Invariant == Spec => []IInv
<1>1. Init => IInv
  <2>1. Init => TypeOK
    BY InitMasksType, ServerGrabAssumption DEF Init, TypeOK
  <2> QED BY <2>1, ConnMasksAssumption
    DEF Init, InitMasks, IInv, GrabOwnerConnected, SocketsMatch, RolesKept,
        ClosedClientsForgotten, WorkingMasksRestricted, InputTidy,
        ServiceAllowed, GrabExcludesOthers, MasksMatchClients,
        BufferedRequestsRemembered, Grabbed, Ignored, Connected, Tracked,
        NoClient
<1> QED BY <1>1, IInvStep, PTL DEF Spec

(* A client is listened to exactly when nothing holds it back, and a client*)
(* held back by a grab is remembered, for every order of grabs, sleeps,    *)
(* deaths and connections.                                                 *)
THEOREM MasksMatch == Spec => []MasksMatchClients
<1>1. IInv => MasksMatchClients
  BY DEF IInv
<1> QED BY <1>1, Invariant, PTL

(* A whole request in an input buffer always has its bit in the mask that  *)
(* will bring the client to the select loop's attention.                   *)
THEOREM BufferedNeverForgotten == Spec => []BufferedRequestsRemembered
<1>1. IInv => BufferedRequestsRemembered
  BY DEF IInv
<1> QED BY <1>1, Invariant, PTL

(* No mask select() uses names a closed descriptor, and no dead client     *)
(* waits for the grab.                                                     *)
THEOREM ClosedForgotten == Spec => []ClosedClientsForgotten
<1>1. IInv => ClosedClientsForgotten
  BY DEF IInv
<1> QED BY <1>1, Invariant, PTL

(* AllSockets, and its saved copy, are the clients, the devices and the    *)
(* listening sockets.                                                      *)
THEOREM SocketsAlwaysMatch == Spec => []SocketsMatch
<1>1. IInv => SocketsMatch
  BY DEF IInv
<1> QED BY <1>1, Invariant, PTL

(* dix and os agree on the owner of the grab, and the owner is connected.  *)
THEOREM OwnerConnected == Spec => []GrabOwnerConnected
<1>1. IInv => GrabOwnerConnected
  BY DEF IInv
<1> QED BY <1>1, Invariant, PTL

(* Under a grab only the owner and impervious clients are served.          *)
THEOREM GrabExclusive == Spec => []GrabExcludesOthers
<1>1. IInv => GrabExcludesOthers
  BY DEF IInv
<1> QED BY <1>1, Invariant, PTL

----------------------------------------------------------------------------
(* The client Dispatch serves.                                             *)

(* A client that never asks for its resources to be retained is gone for   *)
(* good when it is closed, and is connected while it is served.            *)
ServedAlive ==
    \A c \in Clients \ Retainers :
        /\ closeDownMode[c] = "DestroyAll"
        /\ clientState[c] # "Retained"
        /\ current = c => Connected(c)

(* Closing a client that is not served, or after whom nobody is, keeps it. *)
LEMMA CloseDownServedAlive ==
    ASSUME TypeOK, ServedAlive, NEW v \in Clients, NEW m, NEW b, NEW s,
           CloseDownClient(m, b, s, v),
           current' \in IF v = current THEN {NoClient} ELSE {current, NoClient}
    PROVE  ServedAlive'
<1>1. /\ clientState' = [clientState EXCEPT ![v] =
            IF closeDownMode[v] = "DestroyAll" THEN "NULL" ELSE "Retained"]
      /\ closeDownMode' = closeDownMode
  BY DEF CloseDownClient
<1>2. NoClient \notin Clients
  BY ServerGrabAssumption, ConnMasksAssumption
<1> SUFFICES ASSUME NEW c \in Clients \ Retainers
             PROVE  /\ closeDownMode'[c] = "DestroyAll"
                    /\ clientState'[c] # "Retained"
                    /\ current' = c => clientState'[c] = "Connected"
  BY DEF ServedAlive, Connected
<1>3. clientState'[c] = IF c = v
        THEN IF closeDownMode[v] = "DestroyAll" THEN "NULL" ELSE "Retained"
        ELSE clientState[c]
  BY <1>1 DEF TypeOK
<1> QED BY <1>1, <1>2, <1>3 DEF ServedAlive, Connected

(* A request that closes nobody goes on with its client or with none.      *)
LEMMA ServedAliveStep ==
    TypeOK /\ ServedAlive /\ [Next]_vars => ServedAlive'
<1> SUFFICES ASSUME TypeOK, ServedAlive, [Next]_vars PROVE ServedAlive'
  OBVIOUS
<1> USE DEF ServedAlive, Connected
<1>1. NoClient \notin Clients
  BY ServerGrabAssumption, ConnMasksAssumption
<1>2. ASSUME NEW c \in Clients, ClientSends(c) PROVE ServedAlive'
  BY <1>2 DEF ClientSends
<1>3. ASSUME NEW c \in Clients, EstablishNewConnection(c) PROVE ServedAlive'
  BY <1>1, <1>3 DEF EstablishNewConnection, TypeOK
<1>4. ASSUME NEW c \in Clients, LoseConnection(c) PROVE ServedAlive'
  BY <1>1, <1>4, CloseDownServedAlive DEF LoseConnection
<1>5. CASE DevicesChange
  BY <1>5 DEF DevicesChange
<1>6. ASSUME NEW c \in Clients, Awaken(c) PROVE ServedAlive'
  BY <1>6 DEF Awaken
<1>7. CASE WaitForSomething
  BY <1>7 DEF WaitForSomething
<1>8. ASSUME NEW c \in Clients, DispatchNext(c) PROVE ServedAlive'
  BY <1>1, <1>8 DEF DispatchNext, TypeOK
<1>9. ASSUME NEW c \in Clients, Serve(c) PROVE ServedAlive'
  <2> DEFINE Goes == current' \in {c, NoClient} /\ current = c
             Kept == UNCHANGED <<clientState, closeDownMode>>
  <2>1. CASE ReadReturnsNothing(c)
    BY <1>1, <2>1 DEF ReadReturnsNothing
  <2>2. CASE ReadFails(c)
    BY <2>2, CloseDownServedAlive DEF ReadFails
  <2>3. CASE ProcGrabServer(c)
    <3>1. Goes /\ Kept
      BY <2>3 DEF ProcGrabServer, Executes, AfterRequest
    <3> QED BY <1>1, <3>1
  <2>4. CASE ProcUngrabServer(c)
    <3>1. Goes /\ Kept
      BY <2>4 DEF ProcUngrabServer, Executes, AfterRequest
    <3> QED BY <1>1, <3>1
  <2>5. CASE ProcXTestGrabControl(c)
    <3>1. Goes /\ Kept
      BY <2>5 DEF ProcXTestGrabControl, Executes, AfterRequest
    <3> QED BY <1>1, <3>1
  <2>6. CASE Sleep(c)
    <3>1. Goes /\ Kept
      BY <2>6 DEF Sleep, Executes
    <3> QED BY <1>1, <3>1
  <2>7. CASE ProcChangeCloseDownMode(c)
    <3>1. PICK mode \in {"DestroyAll", "Retain"} :
            /\ c \in Retainers
            /\ closeDownMode' = [closeDownMode EXCEPT ![c] = mode]
            /\ UNCHANGED clientState
            /\ Goes
      BY <2>7 DEF ProcChangeCloseDownMode, Executes, AfterRequest
    <3> QED BY <1>1, <3>1 DEF TypeOK
  <2>8. ASSUME NEW v \in Clients, ProcKillClient(c, v) PROVE ServedAlive'
    <3>1. PICK k \in Reads(c) :
            /\ current = c
            /\ CloseDownClient(Taken(c, k),
                               [buffered EXCEPT ![c] = Left(c, k)],
                               [inSocket EXCEPT ![c] = @ - k], v)
            /\ current' \in IF v = c THEN {NoClient} ELSE AfterRequest(c, k)
      BY <2>8 DEF ProcKillClient
    <3> QED BY <3>1, CloseDownServedAlive DEF AfterRequest
  <2>9. ASSUME NEW v \in Clients, KillRetained(c, v) PROVE ServedAlive'
    <3>1. /\ clientState[v] = "Retained"
          /\ clientState' = [clientState EXCEPT ![v] = "NULL"]
          /\ UNCHANGED closeDownMode
          /\ Goes
      BY <2>9 DEF KillRetained, Executes, AfterRequest
    <3> QED BY <1>1, <3>1 DEF TypeOK
  <2>10. CASE OtherRequest(c)
    <3>1. Goes /\ Kept
      BY <2>10 DEF OtherRequest, Executes, AfterRequest
    <3> QED BY <1>1, <3>1
  <2> QED BY <1>9, <2>1, <2>2, <2>3, <2>4, <2>5, <2>6, <2>7, <2>8, <2>9,
             <2>10 DEF Serve
<1>10. CASE UNCHANGED vars
  BY <1>10 DEF vars
<1> QED BY <1>2, <1>3, <1>4, <1>5, <1>6, <1>7, <1>8, <1>9, <1>10 DEF Next

(* Whoever else retains resources: a client that does not is connected     *)
(* whenever it is served (the NULL test of Dispatch's loop is enough).     *)
THEOREM ServedAlways == Spec => []ServedAlive
<1>1. Init => ServedAlive
  BY ServerGrabAssumption, ConnMasksAssumption DEF Init, ServedAlive, Connected
<1> QED BY <1>1, ServedAliveStep, TypeInvariant, PTL DEF Spec

(* When no client uses ChangeCloseDownMode, every client that is served    *)
(* has a connection to read from.                                          *)
THEOREM ServedConnected ==
    ASSUME Retainers = {}
    PROVE  Spec => []ServedClientConnected
<1>1. TypeOK /\ ServedAlive => ServedClientConnected
  BY DEF ServedAlive, ServedClientConnected, TypeOK
<1> QED BY <1>1, ServedAlways, TypeInvariant, PTL

---------------------------------------------------------------------------
(* The smart scheduler, the other half of Dispatch.                        *)

(* The handler stops the timer only of an idle server: from the step that  *)
(* clears SmartScheduleIdle to the first request, a timer that is not      *)
(* stopped runs, or setitimer() is about to be called.                     *)
TimerInv ==
    /\ pc \in {"test", "start", "setitimer", "choose", "serve"} => ~SmartScheduleIdle
    /\ ~SmartScheduleTimerStopped => itimer \/ pc = "setitimer"
    /\ pc \in {"choose", "serve"} => itimer

(* Seen from the client last chosen with the priority of c, those that     *)
(* were chosen before c are all behind it.                                 *)
OvertakenInv ==
    /\ \A c \in Clients : \A d \in overtaken[c] :
         Robin(d, smart_priority[c]) < Robin(c, smart_priority[c])
    /\ serving # NoClient => overtaken[serving] = {}

SchedulerInv == ScheduleTypeOK /\ TimerInv /\ OvertakenInv

---------------------------------------------------------------------------
(* The choice among the clients that are ready.                            *)

NatLess == {ss \in Nat \X Nat : ss[1] < ss[2]}

(* Every set of natural numbers that is not empty has a least one: the     *)
(* form in which induction over numbers is used here.                      *)
LEMMA LeastExists ==
    ASSUME NEW T, T \subseteq Nat, T # {}
    PROVE  \E x \in T : \A y \in T : x <= y
<1>1. IsWellFoundedOn(NatLess, Nat)
  BY NatLessThanWellFounded DEF OpToRel, NatLess
<1>2. PICK x \in T : \A y \in T : ~ (<<y, x>> \in NatLess)
  BY <1>1, WFMin
<1>3. ASSUME NEW y \in T PROVE x <= y
  <2>1. y \in Nat /\ x \in Nat
    OBVIOUS
  <2>2. y < x => <<y, x>> \in NatLess
    BY <2>1 DEF NatLess
  <2> QED BY <1>2, <2>1, <2>2
<1> QED BY <1>3

(* And one that is bounded has a greatest.                                 *)
LEMMA GreatestExists ==
    ASSUME NEW T, T # {}, NEW lo \in Int, NEW hi \in Int, T \subseteq lo .. hi
    PROVE  \E x \in T : \A y \in T : y <= x
<1> DEFINE D == {n \in Nat : hi - n \in T}
<1>1. D # {}
  <2> PICK x \in T : TRUE
    OBVIOUS
  <2>1. hi - x \in Nat /\ hi - (hi - x) = x
    OBVIOUS
  <2> QED BY <2>1
<1>2. PICK n \in D : \A m \in D : n <= m
  BY <1>1, LeastExists
<1>3. ASSUME NEW y \in T PROVE y <= hi - n
  <2>1. hi - y \in Nat /\ hi - (hi - y) = y
    OBVIOUS
  <2>2. hi - y \in D
    BY <2>1
  <2> QED BY <1>2, <2>2
<1> QED BY <1>2, <1>3

(* What assumptions on the constants say of one client or priority.        *)
LEMMA ClientFacts ==
    /\ \A c \in Clients : c \in 1 .. 255 /\ c # NoClient
    /\ Priorities \subseteq Int /\ 0 \in Priorities
  BY SmartSchedulerAssumption DEF Priorities

(* Only clients that have a request are on the list.                       *)
LEMMA ReadyOnly ==
    ASSUME NEW S PROVE ClientsReady(S) \subseteq S
  BY DEF ClientsReady, HighestOfWord

(* How far round the clients a client is behind the one last chosen.       *)
LEMMA RobinValue ==
    ASSUME NEW c \in 0 .. 255, NEW l \in 0 .. 255
    PROVE  (c - l) % 256 = IF c >= l THEN c - l ELSE c - l + 256
  OBVIOUS

LEMMA RobinType ==
    ASSUME ScheduleTypeOK, NEW c \in Clients, NEW p \in Priorities
    PROVE  /\ SmartLastIndex[p] \in 0 .. 255
           /\ Robin(c, p) = IF c >= SmartLastIndex[p] THEN c - SmartLastIndex[p]
                            ELSE c - SmartLastIndex[p] + 256
           /\ Robin(c, p) \in 0 .. 255
<1>1. SmartLastIndex[p] \in 0 .. 255 /\ c \in 0 .. 255
  BY ClientFacts DEF ScheduleTypeOK
<1> QED BY <1>1, RobinValue DEF Robin

(* Two clients are never equally far behind.                               *)
LEMMA RobinInjective ==
    ASSUME ScheduleTypeOK, NEW c \in Clients, NEW d \in Clients, NEW p \in Priorities,
           Robin(c, p) = Robin(d, p)
    PROVE  c = d
<1> DEFINE l == SmartLastIndex[p]
<1>1. l \in 0 .. 255 /\ c \in 1 .. 255 /\ d \in 1 .. 255
  <2>1. l \in 0 .. 255
    BY RobinType
  <2> QED BY <2>1, ClientFacts
<1>2. Robin(c, p) = IF c >= l THEN c - l ELSE c - l + 256
  BY RobinType
<1>3. Robin(d, p) = IF d >= l THEN d - l ELSE d - l + 256
  BY RobinType
<1> HIDE DEF l
<1>4. (IF c >= l THEN c - l ELSE c - l + 256) = (IF d >= l THEN d - l ELSE d - l + 256)
  BY <1>2, <1>3
<1> QED BY <1>1, <1>4

(* Praise leaves priorities in their range.                                *)
LEMMA PraisedType ==
    ASSUME ScheduleTypeOK, NEW list
    PROVE  Praised(list) \in [Clients -> Priorities]
  BY SmartSchedulerAssumption DEF Praised, ScheduleTypeOK, Priorities

(* There is a best client: of the highest priority, and of those the one   *)
(* that is farthest behind.                                                *)
LEMMA BestFacts ==
    ASSUME ScheduleTypeOK, NEW list, list \subseteq Clients, list # {},
           NEW prio \in [Clients -> Priorities]
    PROVE  /\ Best(list, prio) \in list
           /\ \A d \in list :
                \/ prio[d] < prio[Best(list, prio)]
                \/ /\ prio[d] = prio[Best(list, prio)]
                   /\ Robin(d, prio[d]) <= Robin(Best(list, prio), prio[Best(list, prio)])
<1> DEFINE H == {prio[c] : c \in list}
<1>1. PICK h \in H : \A p \in H : p <= h
  <2>1. H # {} /\ H \subseteq SMART_MIN_PRIORITY .. SMART_MAX_PRIORITY
    BY DEF Priorities
  <2>2. SMART_MIN_PRIORITY \in Int /\ SMART_MAX_PRIORITY \in Int
    BY SmartSchedulerAssumption
  <2> QED BY <2>1, <2>2, GreatestExists
<1> DEFINE R == {Robin(c, h) : c \in {d \in list : prio[d] = h}}
<1>2. h \in Priorities
  OBVIOUS
<1>3. PICK r \in R : \A q \in R : q <= r
  <2>0. 0 \in Int /\ 255 \in Int
    OBVIOUS
  <2>1. R # {} /\ R \subseteq 0 .. 255
    BY <1>2, RobinType
  <2> HIDE DEF R
  <2> QED BY <2>0, <2>1, GreatestExists
<1>4. PICK c \in list : prio[c] = h /\ Robin(c, h) = r
  BY <1>3
<1>5. ASSUME NEW d \in list
      PROVE  \/ prio[d] < prio[c]
             \/ prio[d] = prio[c] /\ Robin(d, prio[d]) <= Robin(c, prio[c])
  <2>1. prio[d] <= h /\ prio[d] \in Int /\ h \in Int
    BY <1>1, <1>2, ClientFacts
  <2>2. prio[d] = h => Robin(d, h) <= r
    BY <1>3
  <2> QED BY <2>1, <2>2, <1>4
<1> QED BY <1>4, <1>5 DEF Best

(* What SmartScheduleClient does, said of the client that it chooses.      *)
LEMMA Chosen ==
    ASSUME ScheduleTypeOK, SmartScheduleClient
    PROVE  /\ serving' \in ClientsReady(ready) /\ serving' \in clients
           /\ smart_priority' \in [Clients -> Priorities]
           /\ SmartLastIndex' = [SmartLastIndex EXCEPT ![smart_priority'[serving']] = serving']
           /\ overtaken' = PassedOver(ClientsReady(ready), serving', smart_priority')
           /\ \A d \in ClientsReady(ready) :
                \/ smart_priority'[d] < smart_priority'[serving']
                \/ /\ smart_priority'[d] = smart_priority'[serving']
                   /\ Robin(d, smart_priority'[d]) <= Robin(serving', smart_priority'[serving'])
<1> DEFINE list == ClientsReady(ready)
           prio == Praised(list)
<1>1. list # {} /\ list \subseteq clients /\ list \subseteq Clients
  BY ReadyOnly DEF SmartScheduleClient, ScheduleTypeOK
<1>2. prio \in [Clients -> Priorities]
  BY PraisedType
<1>3. /\ smart_priority' = prio /\ serving' = Best(list, prio)
      /\ SmartLastIndex' = [SmartLastIndex EXCEPT ![prio[serving']] = serving']
      /\ overtaken' = PassedOver(list, serving', prio)
  BY DEF SmartScheduleClient
<1> HIDE DEF list, prio
<1>4. /\ serving' \in list
      /\ \A d \in list : \/ prio[d] < prio[serving']
                        \/ /\ prio[d] = prio[serving']
                           /\ Robin(d, prio[d]) <= Robin(serving', prio[serving'])
  BY <1>1, <1>2, <1>3, BestFacts
<1> QED BY <1>1, <1>2, <1>3, <1>4 DEF list

---------------------------------------------------------------------------
(* Every step keeps the types.                                             *)

LEMMA TickTypes ==
    ASSUME ScheduleTypeOK, Tick
    PROVE  /\ check_age' \in [Clients -> 0 .. 2 * SmartScheduleMaxSlice]
           /\ start_age' \in 0 .. LongTime + 1 /\ slice_age' \in 0 .. SmartScheduleMaxSlice
  BY SmartSchedulerAssumption DEF Tick, Older, ScheduleTypeOK

LEMMA AgesKeptTypes ==
    ASSUME ScheduleTypeOK, AgesKept
    PROVE  check_age' \in [Clients -> 0 .. 2 * SmartScheduleMaxSlice]
  BY SmartSchedulerAssumption DEF AgesKept, ScheduleTypeOK

(* Choosing a client keeps the types.                                      *)
LEMMA ChoiceTypes ==
    ASSUME ScheduleTypeOK, SmartScheduleClient
    PROVE  ScheduleTypeOK'
<1>1. serving' \in clients /\ smart_priority' \in [Clients -> Priorities]
  BY Chosen
<1>2. serving' \in Clients /\ serving' # NoClient
  BY <1>1, ClientFacts DEF ScheduleTypeOK
<1>3. check_age' \in [Clients -> 0 .. 2 * SmartScheduleMaxSlice]
  BY SmartSchedulerAssumption DEF SmartScheduleClient, ScheduleTypeOK
<1>4. SmartLastIndex' \in [Priorities -> Clients \cup {0}]
  <2>1. SmartLastIndex' = [SmartLastIndex EXCEPT ![smart_priority'[serving']] = serving']
    BY Chosen
  <2> QED BY <1>2, <2>1 DEF ScheduleTypeOK
<1>5. /\ start_age' \in 0 .. LongTime + 1 /\ slice_age' \in 0 .. SmartScheduleMaxSlice
      /\ SmartLastClient' = serving' /\ pc' = "serve"
  BY SmartSchedulerAssumption DEF SmartScheduleClient, ScheduleTypeOK, Goto
<1>6. SmartScheduleSlice' \in 1 .. SmartScheduleMaxSlice
  BY SmartSchedulerAssumption DEF SmartScheduleClient, AdjustedSlice, ScheduleTypeOK
<1>7. overtaken' \in [Clients -> SUBSET Clients]
  <2>1. overtaken' = PassedOver(ClientsReady(ready), serving', smart_priority')
    BY Chosen
  <2> QED BY <1>2, <2>1 DEF PassedOver, ScheduleTypeOK
<1>8. UNCHANGED <<clients, ready, timer>>
  BY DEF SmartScheduleClient
<1> QED BY <1>1, <1>2, <1>3, <1>4, <1>5, <1>6, <1>7, <1>8 DEF ScheduleTypeOK, timer

LEMMA SchedulerTypes ==
    ASSUME ScheduleTypeOK, [ScheduleNext]_scheduleVars
    PROVE  ScheduleTypeOK'
<1> USE DEF ScheduleTypeOK, scheduling, ages, timer, Goto
<1>1. CASE SmartScheduleTimer
  BY <1>1, TickTypes DEF SmartScheduleTimer
<1>2. CASE EnterSelect
  BY <1>2 DEF EnterSelect
<1>3. CASE NoLongerIdle
  BY <1>3 DEF NoLongerIdle
<1>4. CASE SmartScheduleStartTimer
  BY <1>4 DEF SmartScheduleStartTimer
<1>5. CASE SmartScheduleClient
  BY <1>5, ChoiceTypes
<1>6. CASE NobodyReturned
  BY <1>6 DEF NobodyReturned
<1>7. CASE SliceEnds
  <2>1. smart_priority' \in [Clients -> Priorities]
    BY <1>7, SmartSchedulerAssumption DEF SliceEnds, Priorities
  <2>2. check_age' \in [Clients -> 0 .. 2 * SmartScheduleMaxSlice]
    BY <1>7, AgesKeptTypes DEF SliceEnds
  <2> QED BY <1>7, <2>1, <2>2, SmartSchedulerAssumption DEF SliceEnds, Stopped
<1>8. CASE NothingToRead
  <2>1. check_age' \in [Clients -> 0 .. 2 * SmartScheduleMaxSlice]
    BY <1>8, AgesKeptTypes DEF NothingToRead
  <2> QED BY <1>8, <2>1, SmartSchedulerAssumption DEF NothingToRead, Stopped
<1>9. CASE RequestYields
  <2>1. check_age' \in [Clients -> 0 .. 2 * SmartScheduleMaxSlice]
    BY <1>9, AgesKeptTypes DEF RequestYields
  <2> QED BY <1>9, <2>1, SmartSchedulerAssumption DEF RequestYields, Stopped
<1>10. CASE Request
  BY <1>10 DEF Request, GoesOn
<1>11. CASE SelectFails \/ SelectReturns
  BY <1>11 DEF SelectFails, SelectReturns
<1>12. ASSUME NEW c \in Clients, CriticalEvent(c) PROVE ScheduleTypeOK'
  <2>1. smart_priority' \in [Clients -> Priorities]
    BY <1>12, SmartSchedulerAssumption DEF CriticalEvent, Priorities
  <2>2. check_age' \in [Clients -> 0 .. 2 * SmartScheduleMaxSlice]
    BY <1>12, AgesKeptTypes DEF CriticalEvent
  <2> QED BY <1>12, <2>1, <2>2 DEF CriticalEvent
<1>13. ASSUME NEW c \in Clients, ClientClosed(c) PROVE ScheduleTypeOK'
  <2>1. smart_priority' \in [Clients -> Priorities]
    BY <1>13, ClientFacts DEF ClientClosed
  <2>2. check_age' \in [Clients -> 0 .. 2 * SmartScheduleMaxSlice]
    BY <1>13, AgesKeptTypes DEF ClientClosed
  <2>3. start_age' \in 0 .. LongTime + 1 /\ slice_age' \in 0 .. SmartScheduleMaxSlice
    BY <1>13, SmartSchedulerAssumption DEF ClientClosed, Stopped, GoesOn
  <2>4. clients' \subseteq Clients /\ ready' \subseteq clients'
    BY <1>13 DEF ClientClosed
  <2>5. serving' \in clients' \cup {NoClient} /\ (serving' # NoClient <=> pc' = "serve")
    BY <1>13 DEF ClientClosed, Stopped, GoesOn
  <2> QED BY <1>13, <2>1, <2>2, <2>3, <2>4, <2>5 DEF ClientClosed
<1>14. ASSUME NEW c \in Clients, NextAvailableClient(c) PROVE ScheduleTypeOK'
  <2>1. smart_priority' \in [Clients -> Priorities]
    BY <1>14, ClientFacts DEF NextAvailableClient
  <2> QED BY <1>14, <2>1 DEF NextAvailableClient
<1>15. ASSUME NEW c \in Clients, RequestArrives(c) PROVE ScheduleTypeOK'
  BY <1>15 DEF RequestArrives
<1>16. CASE UNCHANGED scheduleVars
  BY <1>16 DEF scheduleVars
<1> QED BY <1>1, <1>2, <1>3, <1>4, <1>5, <1>6, <1>7, <1>8, <1>9, <1>10, <1>11, <1>12, <1>13,
           <1>14, <1>15, <1>16 DEF ScheduleNext, Main

---------------------------------------------------------------------------
(* The timer.                                                              *)

(* Only the handler stops the timer, and only of an idle server; the       *)
(* program reaches "choose" by way of the test whether it was stopped.     *)
LEMMA TimerStep ==
    ASSUME ScheduleTypeOK, TimerInv, [ScheduleNext]_scheduleVars
    PROVE  TimerInv'
<1> USE DEF TimerInv, timer, Goto
<1>1. CASE SmartScheduleTimer
  BY <1>1 DEF SmartScheduleTimer
<1>2. CASE EnterSelect \/ SelectFails \/ SelectReturns
  BY <1>2 DEF EnterSelect, SelectFails, SelectReturns
<1>3. CASE NoLongerIdle
  BY <1>3 DEF NoLongerIdle
<1>4. CASE SmartScheduleStartTimer
  BY <1>4 DEF SmartScheduleStartTimer
<1>5. CASE SmartScheduleClient \/ NobodyReturned
  BY <1>5 DEF SmartScheduleClient, NobodyReturned
<1>6. CASE SliceEnds \/ NothingToRead \/ RequestYields \/ Request
  BY <1>6 DEF SliceEnds, NothingToRead, RequestYields, Request, Stopped, GoesOn
<1>7. ASSUME NEW c \in Clients,
             \/ ClientClosed(c) \/ NextAvailableClient(c)
             \/ RequestArrives(c) \/ CriticalEvent(c)
      PROVE  TimerInv'
  BY <1>7 DEF ClientClosed, NextAvailableClient, RequestArrives, CriticalEvent, Stopped, GoesOn
<1>8. CASE UNCHANGED scheduleVars
  BY <1>8 DEF scheduleVars
<1> QED BY <1>1, <1>2, <1>3, <1>4, <1>5, <1>6, <1>7, <1>8 DEF ScheduleNext, Main

---------------------------------------------------------------------------
(* Who was passed over.                                                    *)

(* Once the client that was farthest behind is the last one, everyone else *)
(* keeps his place in the round and it is before them all.                 *)
LEMMA RoundTurns ==
    ASSUME ScheduleTypeOK, SmartScheduleClient,
           NEW c \in Clients, NEW d \in Clients, NEW p \in Priorities,
           c \in ClientsReady(ready), c # serving',
           p = smart_priority'[c], p = smart_priority'[serving'],
           d = serving' \/ Robin(d, p) < Robin(c, p)
    PROVE  Robin(d, p)' < Robin(c, p)'
<1>1. PICK b \in Clients : b = serving' /\ SmartLastIndex'[p] = b
  BY Chosen DEF ScheduleTypeOK
<1>2. Robin(c, p) <= Robin(b, p)
  <2>1. p \in Int
    BY ClientFacts
  <2>2. ~ (smart_priority'[c] < smart_priority'[serving'])
    BY <2>1
  <2>3. Robin(c, smart_priority'[c]) <= Robin(serving', smart_priority'[serving'])
    BY <2>2, Chosen
  <2> QED BY <1>1, <2>3
<1>3. Robin(c, p) # Robin(b, p)
  BY <1>1, RobinInjective
<1>4. b \in 1 .. 255 /\ c \in 1 .. 255 /\ d \in 1 .. 255
  BY <1>1, ClientFacts
<1>5. PICK l \in 0 .. 255 :
        /\ Robin(b, p) = IF b >= l THEN b - l ELSE b - l + 256
        /\ Robin(c, p) = IF c >= l THEN c - l ELSE c - l + 256
        /\ Robin(d, p) = IF d >= l THEN d - l ELSE d - l + 256
  <2>1. PICK l \in 0 .. 255 : l = SmartLastIndex[p]
    BY RobinType
  <2>2. Robin(b, p) = IF b >= l THEN b - l ELSE b - l + 256
    BY <2>1, RobinType
  <2>3. Robin(c, p) = IF c >= l THEN c - l ELSE c - l + 256
    BY <2>1, RobinType
  <2>4. Robin(d, p) = IF d >= l THEN d - l ELSE d - l + 256
    BY <2>1, RobinType
  <2> QED BY <2>2, <2>3, <2>4
<1>6. /\ Robin(c, p)' = IF c >= b THEN c - b ELSE c - b + 256
      /\ Robin(d, p)' = IF d >= b THEN d - b ELSE d - b + 256
  <2>1. Robin(c, p)' = (c - b) % 256 /\ Robin(d, p)' = (d - b) % 256
    BY <1>1 DEF Robin
  <2> QED BY <1>4, <2>1, RobinValue
<1>7. d = b \/ Robin(d, p) < Robin(c, p)
  BY <1>1
<1>8. c # b
  BY <1>1
<1> HIDE DEF Robin
<1> QED BY <1>2, <1>3, <1>4, <1>5, <1>6, <1>7, <1>8

(* Choosing keeps the order of those that were passed over.                *)
LEMMA ChoiceOvertaken ==
    ASSUME SchedulerInv, SmartScheduleClient
    PROVE  OvertakenInv'
<1> USE DEF SchedulerInv
<1> DEFINE list == ClientsReady(ready)
<1>1. /\ overtaken' = PassedOver(list, serving', smart_priority')
      /\ serving' \in Clients /\ smart_priority' \in [Clients -> Priorities]
      /\ SmartLastIndex' = [SmartLastIndex EXCEPT ![smart_priority'[serving']] = serving']
  BY Chosen DEF ScheduleTypeOK
<1>2. overtaken'[serving'] = {}
  BY <1>1 DEF PassedOver
<1>3. ASSUME NEW c \in Clients, NEW d \in overtaken'[c]
      PROVE  Robin(d, smart_priority[c])' < Robin(c, smart_priority[c])'
  <2>1. c \in list /\ c # serving'
    BY <1>1, <1>3 DEF PassedOver
  <2>2. PICK p \in Priorities : p = smart_priority'[c]
    BY <1>1
  <2>3. \/ d \in overtaken[c] /\ p = smart_priority[c]
        \/ d = serving' /\ p = smart_priority'[serving']
    BY <1>1, <1>3, <2>1, <2>2 DEF PassedOver
  <2>4. d \in Clients
    BY <1>1, <2>3 DEF ScheduleTypeOK
  <2>5. d \in overtaken[c] /\ p = smart_priority[c] => Robin(d, p) < Robin(c, p)
    BY DEF OvertakenInv
  <2>6. CASE p = smart_priority'[serving']
    <3>1. Robin(d, p)' < Robin(c, p)'
      BY <2>1, <2>2, <2>3, <2>4, <2>5, <2>6, RoundTurns
    <3> QED BY <2>2, <3>1 DEF Robin
  <2>7. CASE p # smart_priority'[serving']
    <3>1. SmartLastIndex'[p] = SmartLastIndex[p]
      BY <1>1, <2>7 DEF ScheduleTypeOK
    <3>2. Robin(d, p)' = Robin(d, p) /\ Robin(c, p)' = Robin(c, p)
      BY <3>1 DEF Robin
    <3>3. Robin(d, p)' < Robin(c, p)'
      BY <2>3, <2>5, <2>7, <3>2
    <3> QED BY <2>2, <3>3 DEF Robin
  <2> QED BY <2>6, <2>7
<1> QED BY <1>2, <1>3 DEF OvertakenInv

(* Apart from a choice, a step that changes the priority of a client finds *)
(* or leaves it with nobody before it.                                     *)
LEMMA OvertakenStep ==
    ASSUME SchedulerInv, [ScheduleNext]_scheduleVars
    PROVE  OvertakenInv'
<1> USE DEF SchedulerInv, scheduling
<1>1. CASE SmartScheduleClient
  BY <1>1, ChoiceOvertaken
<1>2. SUFFICES
        ASSUME /\ SmartLastIndex' = SmartLastIndex
               /\ serving' \in {serving, NoClient}
               /\ \A c \in Clients :
                    \/ overtaken'[c] = {}
                    \/ overtaken'[c] = overtaken[c] /\ smart_priority'[c] = smart_priority[c]
        PROVE  OvertakenInv'
  <2>1. CASE SmartScheduleTimer \/ EnterSelect \/ SelectFails \/ SelectReturns
    BY <1>2, <2>1 DEF SmartScheduleTimer, EnterSelect, SelectFails, SelectReturns
  <2>2. CASE NoLongerIdle \/ SmartScheduleStartTimer \/ NobodyReturned
    BY <1>2, <2>2 DEF NoLongerIdle, SmartScheduleStartTimer, NobodyReturned
  <2>3. CASE SliceEnds
    BY <1>2, <2>3 DEF SliceEnds, Stopped, ScheduleTypeOK, OvertakenInv
  <2>4. CASE NothingToRead \/ RequestYields \/ Request
    BY <1>2, <2>4 DEF NothingToRead, RequestYields, Request, Stopped, GoesOn
  <2>5. ASSUME NEW c \in Clients, CriticalEvent(c) \/ ClientClosed(c)
        PROVE  OvertakenInv'
    BY <1>2, <2>5 DEF CriticalEvent, ClientClosed, Stopped, GoesOn, ScheduleTypeOK
  <2>6. ASSUME NEW c \in Clients, NextAvailableClient(c) \/ RequestArrives(c)
        PROVE  OvertakenInv'
    BY <1>2, <2>6 DEF NextAvailableClient, RequestArrives, ScheduleTypeOK
  <2>7. CASE UNCHANGED scheduleVars
    BY <1>2, <2>7 DEF scheduleVars
  <2> QED BY <1>1, <2>1, <2>2, <2>3, <2>4, <2>5, <2>6, <2>7 DEF ScheduleNext, Main
<1>3. ASSUME NEW c \in Clients, NEW d \in overtaken'[c]
      PROVE  Robin(d, smart_priority[c])' < Robin(c, smart_priority[c])'
  <2>1. d \in overtaken[c] /\ smart_priority'[c] = smart_priority[c]
    BY <1>2, <1>3
  <2>2. Robin(d, smart_priority[c]) < Robin(c, smart_priority[c])
    BY <2>1 DEF OvertakenInv
  <2> QED BY <1>2, <2>1, <2>2 DEF Robin
<1>4. serving' # NoClient => overtaken'[serving'] = {}
  BY <1>2, ClientFacts DEF OvertakenInv, ScheduleTypeOK
<1> QED BY <1>3, <1>4 DEF OvertakenInv

---------------------------------------------------------------------------
(* The theorems.                                                           *)

LEMMA SchedulerInit == ScheduleInit => SchedulerInv
<1> SUFFICES ASSUME ScheduleInit PROVE SchedulerInv
  OBVIOUS
<1>1. /\ clients \subseteq Clients /\ ready \subseteq clients
      /\ smart_priority \in [Clients -> Priorities]
      /\ SmartLastIndex \in [Priorities -> Clients \cup {0}]
      /\ overtaken \in [Clients -> SUBSET Clients]
  BY ClientFacts DEF ScheduleInit
<1>2. /\ check_age \in [Clients -> 0 .. 2 * SmartScheduleMaxSlice]
      /\ start_age \in 0 .. LongTime + 1 /\ slice_age \in 0 .. SmartScheduleMaxSlice
      /\ SmartScheduleSlice \in 1 .. SmartScheduleMaxSlice
  BY SmartSchedulerAssumption DEF ScheduleInit
<1>3. ScheduleTypeOK
  BY <1>1, <1>2 DEF ScheduleInit, ScheduleTypeOK
<1>4. TimerInv /\ OvertakenInv
  BY DEF ScheduleInit, TimerInv, OvertakenInv
<1> QED BY <1>3, <1>4 DEF SchedulerInv

LEMMA SchedulerStep == SchedulerInv /\ [ScheduleNext]_scheduleVars => SchedulerInv'
  BY SchedulerTypes, TimerStep, OvertakenStep DEF SchedulerInv

LEMMA SchedulerInvariance == ScheduleSpec => []SchedulerInv
  BY SchedulerInit, SchedulerStep, PTL DEF ScheduleSpec

(* Whatever the clients, their priorities and the limits of a slice, every *)
(* priority stays an index of SmartLastIndex and whoever Dispatch serves   *)
(* is served under a running timer, at whatever steps the handler of       *)
(* SIGALRM comes in between.                                               *)
THEOREM ServedUnderTimerAlways == ScheduleSpec => []SmartSchedulerInv
<1>1. SchedulerInv => SmartSchedulerInv
  BY DEF SchedulerInv, TimerInv, SmartSchedulerInv, ServedUnderTimer
<1> QED BY <1>1, SchedulerInvariance, PTL

(* SmartScheduleClient passes over no client twice in favour of the same   *)
(* one of its priority, while clients join that priority, leave it and     *)
(* close.                                                                  *)
THEOREM NobodyPassedOverTwice == ScheduleSpec => PassedOverOnce
<1> DEFINE Fair ==
      pc = "choose" /\ pc' = "serve" =>
         \A c \in ClientsReady(ready) \ {serving'} :
             smart_priority'[c] = smart_priority'[serving'] /\ smart_priority'[c] = smart_priority[c]
               => serving' \notin overtaken[c]
<1>1. ASSUME SchedulerInv, [ScheduleNext]_scheduleVars PROVE [Fair]_scheduleVars
  <2> SUFFICES ASSUME pc = "choose", pc' = "serve",
                      NEW c \in ClientsReady(ready) \ {serving'},
                      smart_priority'[c] = smart_priority'[serving'],
                      smart_priority'[c] = smart_priority[c],
                      serving' \in overtaken[c]
               PROVE  FALSE
    OBVIOUS
  <2>1. SmartScheduleClient
    BY <1>1 DEF ScheduleNext, Main, scheduleVars, timer, scheduling, ages, Goto, SmartScheduleTimer,
       EnterSelect, NoLongerIdle, SmartScheduleStartTimer, NobodyReturned, SelectFails,
       SelectReturns, SliceEnds, NothingToRead, RequestYields, Request, CriticalEvent,
       ClientClosed, NextAvailableClient, RequestArrives, Stopped, GoesOn
  <2>2. c \in Clients /\ serving' \in Clients
    BY <1>1, <2>1, ReadyOnly, Chosen DEF SchedulerInv, ScheduleTypeOK
  <2>3. PICK p \in Priorities : p = smart_priority'[c] /\ p = smart_priority[c]
    BY <1>1, <2>2 DEF SchedulerInv, ScheduleTypeOK
  <2>4. Robin(serving', p) < Robin(c, p)
    BY <1>1, <2>2, <2>3 DEF SchedulerInv, OvertakenInv
  <2>5. Robin(c, p) <= Robin(serving', p)
    BY <1>1, <2>1, <2>3, Chosen, ClientFacts DEF SchedulerInv
  <2>6. Robin(c, p) \in Int /\ Robin(serving', p) \in Int
    BY <1>1, <2>2, <2>3, RobinType DEF SchedulerInv
  <2> QED BY <2>4, <2>5, <2>6
<1> QED BY <1>1, SchedulerInvariance, PTL DEF ScheduleSpec, PassedOverOnce
=============================================================================

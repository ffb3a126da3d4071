--------------------------- MODULE OutputBuffers ---------------------------
(***************************************************************************)
(* The output side of os/io.c and the life of a client's connection in     *)
(* os/connection.c and os/WaitFor.c: replies and events are buffered, are  *)
(* flushed, wait for a client that does not keep up, and are thrown away   *)
(* with a connection that fails.  A failed write closes the descriptor at  *)
(* once, but the client only when select() objects to the descriptor, or   *)
(* when a new connection is about to get its number.                       *)
(*                                                                         *)
(* The unit of data is the CARD32, padding included; a unit is the client  *)
(* and its number in what was written to it.  ClientsWithInput is the      *)
(* business of RequestBuffers: here it changes at any time.                *)
(***************************************************************************)
EXTENDS Integers, Sequences, FiniteSets, SequencesExt

CONSTANTS
    Clients,     \* client structures, none used twice
    Fds,         \* descriptors a connection may get, 1 .. n
    None,        \* no buffer, no client
    Sleepers,    \* clients that may be ignored
    Mortal,      \* clients that may hang up or be killed
    MaxWritten,  \* bound: units written to each client
    SocketSize, BUFSIZE, BUFWATERMARK

(* ConnectionOutputs, each with what is in it.                             *)
Buffers == [buf: Seq(Clients \X Nat), size: Nat]

ASSUME OutputBuffersAssumption ==
    /\ IsFiniteSet(Fds) /\ Fds = 1 .. Cardinality(Fds)
    /\ Sleepers \subseteq Clients /\ Mortal \subseteq Clients
    /\ MaxWritten \in [Clients -> Nat]
    /\ {SocketSize, BUFSIZE} \subseteq Nat \ {0}
    /\ BUFWATERMARK \in Nat /\ BUFWATERMARK >= BUFSIZE
    /\ None \notin Clients \cup Buffers /\ 0 \notin Clients

VARIABLES
    os,       \* what the functions of the os layer keep: see Init
    received, \* what the client program has read
    gone,     \* client programs that have closed their end
    queued,   \* EstablishNewConnections is in the work queue
    pc        \* the server: "dispatch", "wait" or "select"

vars == <<os, received, gone, queued, pc>>

---------------------------------------------------------------------------
(* The functions of the os layer, from one state s of it to the next.      *)

OpenFds(s) == {s.fd[c] : c \in s.trans_conn}

(* A flush: the units that the socket takes, and what is left.  A client   *)
(* that reads meanwhile is one that has read before.                       *)
Data(s, c, extra) == s.output[c].buf \o extra
Room(s, c) == SocketSize - Len(s.socket[c])
Taken(s, c, extra) == IF Len(Data(s, c, extra)) <= Room(s, c)
                      THEN Len(Data(s, c, extra)) ELSE Room(s, c)

(* mutant of Emptied: oco->count is not reset *)
NotEmptied(o) == o

Emptied(o) == [o EXCEPT !.buf = <<>>]

(* Everything was flushed out.                                             *)
FlushedOut(s, c, extra) ==
    LET free == IF s.output[c].size > BUFWATERMARK THEN s.FreeOutputs
                ELSE <<Emptied(s.output[c])>> \o s.FreeOutputs
        blocked == s.ClientsWriteBlocked \ {s.fd[c]}
    IN [s EXCEPT !.socket[c] = @ \o Data(s, c, extra),
                 !.output[c] = None, !.FreeOutputs = free,
                 !.ClientsWriteBlocked = blocked,
                 !.AnyClientsWriteBlocked = @ /\ blocked # {}]

(* The client is stuffed to the gills: the rest is kept, in a bigger       *)
(* buffer if it must be.                                                   *)
Grown(o, n) == IF n > o.size THEN n + BUFSIZE ELSE o.size

RestBuffered(s, c, extra) ==
    LET n == Taken(s, c, extra)
        rest == SubSeq(Data(s, c, extra), n + 1, Len(Data(s, c, extra)))
    IN [s EXCEPT !.socket[c] = @ \o SubSeq(Data(s, c, extra), 1, n),
                 !.output[c] = [buf |-> rest, size |-> Grown(@, Len(rest))],
                 !.ClientsWriteBlocked = @ \cup {s.fd[c]},
                 !.AnyClientsWriteBlocked = TRUE]

(* A permanent error; MarkClientException.                                 *)
WriteFailed(s, c) ==
    [s EXCEPT !.trans_conn = @ \ {c}, !.noClientException = @ \cup {c},
              !.output[c].buf = <<>>]

FlushClient(s, c, extra) ==
    IF s.output[c] = None THEN s
    ELSE IF Data(s, c, extra) = <<>> THEN FlushedOut(s, c, extra)
    ELSE IF c \notin s.trans_conn \/ c \in gone THEN WriteFailed(s, c)
    ELSE IF Taken(s, c, extra) = Len(Data(s, c, extra)) THEN FlushedOut(s, c, extra)
    ELSE RestBuffered(s, c, extra)

(* The buffer of the client, or the first free one, or a new one.          *)
WithOutput(s, c) ==
    IF s.output[c] # None THEN s
    ELSE IF s.FreeOutputs # <<>>
    THEN [s EXCEPT !.output[c] = Head(s.FreeOutputs), !.FreeOutputs = Tail(@)]
    ELSE [s EXCEPT !.output[c] = [buf |-> <<>>, size |-> BUFSIZE]]

(* The units do not fit in the buffer.                                    *)
Full(o, units) == Len(o.buf) + Len(units) > o.size

WriteToClient(s, c, n) ==
    LET units == [i \in 1 .. n |-> <<c, s.written[c] + i>>]
        s1 == [WithOutput(s, c) EXCEPT !.written[c] = @ + n]
        pending == s1.OutputPending \ {s1.fd[c]}
    IN IF Full(s1.output[c], units)
       THEN FlushClient([s1 EXCEPT !.OutputPending = pending,
                                   !.NewOutputPending = @ /\ pending # {}], c, units)
       ELSE [s1 EXCEPT !.NewOutputPending = TRUE,
                       !.OutputPending = @ \cup {s1.fd[c]},
                       !.output[c].buf = @ \o units]

(* A loop over the descriptors of a mask, the lowest first.                *)
ForEach(step(_, _), mask, s) ==
    LET after[f \in 0 .. Cardinality(Fds)] ==
          IF f = 0 THEN s
          ELSE IF f \in mask THEN step(after[f - 1], f) ELSE after[f - 1]
    IN after[Cardinality(Fds)]

FlushFd(s, f) ==
    LET c == s.ConnectionTranslation[f]
    IN IF c = None THEN s
       ELSE IF s.fd[c] \in s.ClientsWithInput
       THEN [s EXCEPT !.OutputPending = @ \cup {s.fd[c]}, !.NewOutputPending = TRUE]
       ELSE FlushClient(s, c, <<>>)

FlushAllOutput(s) ==
    IF ~s.NewOutputPending THEN s
    ELSE ForEach(FlushFd, s.OutputPending,
                 [s EXCEPT !.NewOutputPending = FALSE, !.OutputPending = {}])

(* CloseDownFileDescriptor and FreeOsBuffers.                              *)
ClosedMasks(s, f) ==
    [s EXCEPT !.ConnectionTranslation[f] = None,
              !.AllClients = @ \ {f}, !.ClientsWithInput = @ \ {f},
              !.ClientsWriteBlocked = @ \ {f},
              !.AnyClientsWriteBlocked = @ /\ s.ClientsWriteBlocked # {f},
              !.OutputPending = @ \ {f}]

FreedOutput(s, c) ==
    [s EXCEPT !.output[c] = None,
              !.FreeOutputs = IF @ = <<>> /\ s.output[c] # None
                              THEN <<Emptied(s.output[c])>> ELSE @]

CloseDownConnection(s, c) ==
    LET s1 == IF s.output[c] # None /\ s.output[c].buf # <<>>
              THEN FlushClient(s, c, <<>>) ELSE s
    IN [FreedOutput(ClosedMasks(s1, s1.fd[c]), c)
          EXCEPT !.trans_conn = @ \ {c}, !.clients = @ \ {c}]

(* CloseDownClient: the others are told, which writes to them.             *)
CloseDownClient(s, c, told) ==
    LET tell(t, f) ==
          LET d == t.ConnectionTranslation[f]
          IN IF d \in (told \cap t.clients) \ {c} /\ t.written[d] < MaxWritten[d]
             THEN WriteToClient(t, d, 1) ELSE t
    IN CloseDownConnection(ForEach(tell, Fds, s), c)

(* CheckConnections: every client's descriptor is tried.                   *)
CheckConnections(s, told) ==
    LET check(t, f) == IF f \in OpenFds(t) THEN t
                       ELSE CloseDownClient(t, t.ConnectionTranslation[f], told)
    IN ForEach(check, s.AllClients, s)

(* EstablishNewConnections: clients with an exception go first (in the     *)
(* order of their descriptors here, of clients[] in the code; those that   *)
(* are late with their setup are left out).  The new connection gets the   *)
(* lowest number that is not open, and what is left there goes too.        *)
KillStragglers(s, told) ==
    LET kill(t, f) ==
          LET c == t.ConnectionTranslation[f]
          IN IF c \in t.clients \cap t.noClientException
             THEN CloseDownClient(t, c, told) ELSE t
    IN ForEach(kill, Fds, s)

(* mutant of Evicted: the old client of the descriptor is left there *)
LeftThere(s, f, told) == s

Evicted(s, f, told) ==
    LET c == s.ConnectionTranslation[f]
    IN IF c \in s.clients THEN CloseDownClient(s, c, told) ELSE s

AllocNewConnection(s, c, f) ==
    [s EXCEPT !.clients = @ \cup {c}, !.fd[c] = f, !.trans_conn = @ \cup {c},
              !.ConnectionTranslation[f] = c, !.AllClients = @ \cup {f}]

EstablishNewConnection(s, c, told) ==
    LET s1 == KillStragglers(s, told)
        free == Fds \ OpenFds(s1)
        f == CHOOSE g \in free : \A h \in free : g <= h
    IN IF free = {} THEN s1
       ELSE AllocNewConnection(Evicted(s1, f, told), c, f)

Writable(s) == {s.fd[c] : c \in {d \in s.trans_conn : Room(s, d) > 0 \/ d \in gone}}

(* mutant of Unblocked: NewOutputPending is not set *)
UnblockedUnmarked(s) ==
    LET clientsWritable == s.ClientsWriteBlocked \cap Writable(s)
        blocked == s.ClientsWriteBlocked \ clientsWritable
    IN [s EXCEPT !.OutputPending = @ \cup clientsWritable,
                 !.ClientsWriteBlocked = blocked,
                 !.AnyClientsWriteBlocked = @ /\ blocked # {}]

(* WaitForSomething after a successful select(): the stuffed clients that  *)
(* have room again are flushed next time.                                  *)
Unblocked(s) ==
    LET clientsWritable == s.ClientsWriteBlocked \cap Writable(s)
        blocked == s.ClientsWriteBlocked \ clientsWritable
    IN IF ~s.AnyClientsWriteBlocked \/ clientsWritable = {} THEN s
       ELSE [s EXCEPT !.NewOutputPending = TRUE,
                      !.OutputPending = @ \cup clientsWritable,
                      !.ClientsWriteBlocked = blocked,
                      !.AnyClientsWriteBlocked = blocked # {}]

(* The descriptors that select() is given and that are closed: EBADF.      *)
BadFds(s) == ((s.AllClients \ s.ClientsWithInput)
                \cup (IF s.AnyClientsWriteBlocked THEN s.ClientsWriteBlocked ELSE {}))
             \ OpenFds(s)

---------------------------------------------------------------------------
Init ==
    /\ os = [clients |-> {}, fd |-> [c \in Clients |-> 0],
             trans_conn |-> {},          \* clients whose descriptor is open
             ConnectionTranslation |-> [f \in Fds |-> None],
             AllClients |-> {}, ClientsWithInput |-> {},
             output |-> [c \in Clients |-> None], FreeOutputs |-> <<>>,
             OutputPending |-> {}, NewOutputPending |-> FALSE,
             ClientsWriteBlocked |-> {}, AnyClientsWriteBlocked |-> FALSE,
             noClientException |-> {},
             socket |-> [c \in Clients |-> <<>>],
             written |-> [c \in Clients |-> 0]]
    /\ received = [c \in Clients |-> <<>>]
    /\ gone = {} /\ queued = FALSE /\ pc = "dispatch"

(* A reply or an event.                                                    *)
Write(c, n) ==
    /\ pc = "dispatch" /\ c \in os.clients /\ os.written[c] + n <= MaxWritten[c]
    /\ os' = WriteToClient(os, c, n)
    /\ UNCHANGED <<received, gone, queued, pc>>

(* The end of a client's turn; FlushIfCriticalOutputPending.               *)
Flush ==
    /\ pc = "dispatch"
    /\ os' = FlushAllOutput(os)
    /\ UNCHANGED <<received, gone, queued, pc>>

(* ReadRequestFromClient fails: end of file, or no trans_conn any more.    *)
ReadFails(c) ==
    /\ pc = "dispatch" /\ c \in os.clients
    /\ os.fd[c] \in os.AllClients \ os.ClientsWithInput
    /\ c \in gone \/ c \notin os.trans_conn

ReadFailed(c, told) ==
    /\ ReadFails(c)
    /\ os' = CloseDownClient(os, c, told)
    /\ UNCHANGED <<received, gone, queued, pc>>

KillClient(c, told) ==
    /\ pc = "dispatch" /\ c \in os.clients \cap Mortal
    /\ os' = CloseDownClient(os, c, told)
    /\ UNCHANGED <<received, gone, queued, pc>>

(* ReadRequestFromClient finds more than one request, and the last of them.*)
Input(c) ==
    /\ pc = "dispatch" /\ c \in os.trans_conn \ gone
    /\ os.fd[c] \in os.AllClients \ os.ClientsWithInput
    /\ os' = [os EXCEPT !.ClientsWithInput = @ \cup {os.fd[c]}]
    /\ UNCHANGED <<received, gone, queued, pc>>

LastRequest(c) ==
    /\ pc = "dispatch" /\ c \in os.clients /\ os.fd[c] \in os.ClientsWithInput
    /\ os' = [os EXCEPT !.ClientsWithInput = @ \ {os.fd[c]}]
    /\ UNCHANGED <<received, gone, queued, pc>>

IgnoreClient(c) ==
    /\ pc = "dispatch" /\ c \in os.clients \cap Sleepers /\ os.fd[c] \in os.AllClients
    /\ os' = [os EXCEPT !.AllClients = @ \ {os.fd[c]},
                        !.ClientsWithInput = @ \ {os.fd[c]}]
    /\ UNCHANGED <<received, gone, queued, pc>>

AttendClient(c) ==
    /\ pc = "dispatch" /\ c \in os.clients /\ os.fd[c] \notin os.AllClients
    /\ os' = [os EXCEPT !.AllClients = @ \cup {os.fd[c]}]
    /\ UNCHANGED <<received, gone, queued, pc>>

(* WaitForSomething: the work queue, then the flush before select().       *)
EnterWait ==
    /\ pc \in {"dispatch", "wait"} /\ ~queued
    /\ os' = FlushAllOutput(os)
    /\ pc' = "select"
    /\ UNCHANGED <<received, gone, queued>>

Establish(c, told) ==
    /\ pc \in {"dispatch", "wait"} /\ queued
    /\ os.fd[c] = 0 /\ \A d \in Clients : os.fd[d] = 0 => c <= d
    /\ os' = FlushAllOutput(EstablishNewConnection(os, c, told))
    /\ queued' = FALSE /\ pc' = "select"
    /\ UNCHANGED <<received, gone>>

(* select() returns -1 with EBADF.                                         *)
SelectBadFd(told) ==
    /\ pc = "select" /\ BadFds(os) # {}
    /\ os' = CheckConnections(os, told)
    /\ pc' \in IF os'.AllClients = {} THEN {"dispatch"} ELSE {"dispatch", "wait"}
    /\ UNCHANGED <<received, gone, queued>>

(* select() returns: something is readable or writable, a client connects, *)
(* a timer expires or a device has input.  (EINTR changes nothing here.)   *)
Select ==
    /\ pc = "select" /\ BadFds(os) = {}
    /\ os' = Unblocked(os)
    /\ queued' \in IF \E c \in Clients : os.fd[c] = 0 THEN BOOLEAN ELSE {FALSE}
    /\ pc' \in IF \E c \in os.clients : c \in gone /\ os.fd[c] \in os.AllClients
               THEN {"dispatch"} ELSE {"dispatch", "wait"}
    /\ UNCHANGED <<received, gone>>

(* The client programs.                                                    *)
ClientReads(c) ==
    /\ c \notin gone /\ os.socket[c] # <<>>
    /\ received' = [received EXCEPT ![c] = Append(@, Head(os.socket[c]))]
    /\ os' = [os EXCEPT !.socket[c] = Tail(@)]
    /\ UNCHANGED <<gone, queued, pc>>

HangUp(c) ==
    /\ c \in (Mortal \cap os.trans_conn) \ gone
    /\ gone' = gone \cup {c}
    /\ UNCHANGED <<os, received, queued, pc>>

Server == EnterWait \/ Select \/ \E told \in SUBSET Clients :
                                    SelectBadFd(told) \/ \E c \in Clients : Establish(c, told)

Next ==
    \/ Server \/ Flush
    \/ \E c \in Clients :
         \/ \E n \in 1 .. MaxWritten[c] : Write(c, n)
         \/ \E told \in SUBSET Clients : ReadFailed(c, told) \/ KillClient(c, told)
         \/ Input(c) \/ LastRequest(c) \/ IgnoreClient(c) \/ AttendClient(c)
         \/ ClientReads(c) \/ HangUp(c)

Spec == Init /\ [][Next]_vars

(* WaitForSomething is called again and again and returns; a client whose  *)
(* read fails again and again is closed (a strong fairness, written out);  *)
(* requests that were read are executed, and the program at the other end  *)
(* reads what there is.                                                    *)
FairSpec ==
    /\ Spec /\ []<>(pc = "select") /\ []<>(pc # "select")
    /\ \A c \in Clients :
         /\ []<>ReadFails(c) => []<>(c \notin os.clients)
         /\ WF_vars(ClientReads(c)) /\ SF_vars(LastRequest(c))

---------------------------------------------------------------------------
(* Properties.                                                             *)

(* Every variable has its type.                                            *)
TypeOK ==
    /\ os.clients \subseteq Clients /\ os.fd \in [Clients -> Fds \cup {0}]
    /\ os.trans_conn \subseteq os.clients /\ os.noClientException \subseteq Clients
    /\ os.ConnectionTranslation \in [Fds -> Clients \cup {None}]
    /\ \A S \in {os.AllClients, os.ClientsWithInput, os.OutputPending,
                 os.ClientsWriteBlocked} : S \subseteq Fds
    /\ os.NewOutputPending \in BOOLEAN /\ os.AnyClientsWriteBlocked \in BOOLEAN
    /\ \A c \in Clients : os.output[c] # None =>
         os.output[c] \in Buffers /\ Len(os.output[c].buf) <= os.output[c].size
    /\ os.FreeOutputs \in Seq(Buffers)
    /\ \A c \in Clients : Len(os.socket[c]) <= SocketSize /\ os.written[c] <= MaxWritten[c]
    /\ queued \in BOOLEAN /\ pc \in {"dispatch", "wait", "select"}

(* What the program at the other end has read, what is in its socket and   *)
(* what is buffered is what was written to it, in that order, and nothing  *)
(* that was written to another; of a connection that failed, a beginning.  *)
StreamIntact ==
    \A c \in Clients :
        LET delivered == received[c] \o os.socket[c]
            all == [i \in 1 .. os.written[c] |-> <<c, i>>]
        IN IF c \in os.trans_conn
           THEN delivered \o (IF os.output[c] = None THEN <<>> ELSE os.output[c].buf) = all
           ELSE IsPrefix(delivered, all)

(* Output that is buffered is not forgotten: FlushAllOutput will look for  *)
(* it, or select() will say when there is room.                            *)
OutputRemembered ==
    \A c \in os.trans_conn :
        os.output[c] # None /\ os.output[c].buf # <<>> =>
            \/ os.NewOutputPending /\ os.fd[c] \in os.OutputPending
            \/ os.AnyClientsWriteBlocked /\ os.fd[c] \in os.ClientsWriteBlocked

(* A descriptor belongs to one client, whose masks are its own: a client   *)
(* whose descriptor was closed is gone before the number is used again,    *)
(* and no mask names a descriptor that no client has.                      *)
OneClientPerFd ==
    /\ \A c \in os.clients : os.ConnectionTranslation[os.fd[c]] = c
    /\ \A f \in os.AllClients \cup os.ClientsWithInput \cup os.ClientsWriteBlocked
                  \cup os.OutputPending :
         os.ConnectionTranslation[f] \in os.clients

(* The invariant of the connections: a descriptor has one client, also     *)
(* after a failed write closed it and another connection got its number,   *)
(* and buffered output has somebody to look for it.                        *)
OutputBuffersInv == TypeOK /\ OutputRemembered /\ OneClientPerFd

(* All that was written to a client arrives, or the client is closed and   *)
(* not only its descriptor, unless the client sends requests for ever:     *)
(* FlushAllOutput passes over a client with more requests.                 *)
OutputDelivered ==
    \A c \in Clients :
        <>[](os.fd[c] \notin os.ClientsWithInput) =>
            []<>(c \notin os.clients \/ Len(received[c]) = os.written[c])
=============================================================================

--------------------------- MODULE RequestBuffers ---------------------------
(***************************************************************************)
(* The input buffers of os/io.c: how the words that arrive on a client's   *)
(* socket become requests.  A buffer belongs to one client while it holds  *)
(* unread data and passes to another when it does not; it grows for a long *)
(* request and shrinks again; a request may be put back to be read again;  *)
(* the first request of a connection is made up by the server and grows    *)
(* when its prefix has been seen; a Big Request's header is moved.         *)
(*                                                                         *)
(* The unit is the CARD32: sizeof(xReq) is 1 and sizeof(xBigReq) 2.  A     *)
(* word says whose it is, in which request (0 is the connection setup) and *)
(* where, and what length the field in it would give.                      *)
(***************************************************************************)
EXTENDS Integers, Sequences, FiniteSets, SequencesExt

CONSTANTS
    Clients,
    Mortal,        \* clients that may hang up or be killed
    Requests,      \* what each client sends: [kind, big, len] in a sequence
    SetupPrefix,   \* words of xConnClientPrefix
    SetupStrings,  \* words of the authorization strings after it
    Buffers,       \* addresses of ConnectionInputs
    None,          \* the NULL pointer, and no word
    BUFSIZE, BUFWATERMARK, MAXBUFSIZE

Kinds == {"plain", "grab", "enable"}  \* "grab" may be put back; BigReqEnable

ASSUME RequestBuffersAssumption ==
    /\ IsFiniteSet(Clients) /\ IsFiniteSet(Buffers) /\ Mortal \subseteq Clients
    /\ Requests \in [Clients -> Seq([kind : Kinds, big : BOOLEAN, len : Nat])]
    /\ \A c \in Clients : \A i \in DOMAIN Requests[c] :
         LET r == Requests[c][i] IN r.len >= IF r.big THEN 3 ELSE 1
    /\ {SetupPrefix, SetupStrings} \subseteq Nat \ {0}
    /\ Cardinality(Buffers) > Cardinality(Clients)
    /\ None \notin Clients \cup Buffers
    /\ None \notin [client : Clients, req : Nat, at : Nat, len : Nat]  \* words
    /\ None \notin [client : Clients, req_len : Nat]                   \* current
    /\ BUFSIZE \in Nat /\ BUFSIZE >= 2
    /\ BUFWATERMARK \in Nat /\ BUFWATERMARK >= BUFSIZE
    /\ MAXBUFSIZE \in Nat /\ MAXBUFSIZE >= BUFWATERMARK

VARIABLES
    sent,             \* words the client has written to its socket
    got,              \* words read from it
    hungUp,           \* clients that have closed their end
    connected,        \* clients with a connection
    input,            \* oc->input of each client
    buf,              \* the ConnectionInputs
    AvailableInput,   \* the client whose buffer may be taken
    FreeInputs,       \* the list of free buffers
    ClientsWithInput, \* clients with a whole request in their buffers
    big_requests,     \* clients that may send Big Requests
    current,          \* the request being executed
    executed          \* history: requests executed, the setup included

vars == <<sent, got, hungUp, connected, input, buf, AvailableInput, FreeInputs,
          ClientsWithInput, big_requests, current, executed>>

---------------------------------------------------------------------------
(* What a client sends.                                                    *)

Word(c, req, at, len) == [client |-> c, req |-> req, at |-> at, len |-> len]

(* The length field of a request: 0 in the header of a Big Request, whose  *)
(* second word holds the length.                                           *)
RequestWords(c, k) ==
    LET r == Requests[c][k]
        field(i) == IF i = (IF r.big THEN 2 ELSE 1) THEN r.len ELSE 0
    IN [i \in 1 .. r.len |-> Word(c, k, i, field(i))]

Stream ==
    [c \in Clients |->
        [i \in 1 .. SetupPrefix + SetupStrings |-> Word(c, 0, i + 1, 0)]
            \o FlattenSeq([k \in DOMAIN Requests[c] |-> RequestWords(c, k)])]

(* NextAvailableClient's request: its length covers the prefix only.       *)
FakeRequest(c) == Word(c, 0, 1, 1 + SetupPrefix)

---------------------------------------------------------------------------
(* Buffers.                                                                *)

(* AllocateInputBuffer.                                                    *)
FreshBuffer == [buffer |-> [i \in 1 .. BUFSIZE |-> None],
                bufptr |-> 0, bufcnt |-> 0, lenLastReq |-> 0]

Size(o) == Len(o.buffer)
Gotnow(o) == o.bufcnt - o.bufptr
At(o, i) == LET n == o.bufptr + i   \* the i-th word that is not used up
            IN IF n \in DOMAIN o.buffer THEN o.buffer[n] ELSE None
FieldAt(o, i) == IF At(o, i) = None THEN 0 ELSE At(o, i).len

(* The contents moved to the front of a buffer of size n: memmove, realloc.*)
Moved(o, n) ==
    [o EXCEPT !.buffer = [i \in 1 .. n |->
                            IF i <= Gotnow(o) THEN At(o, i)
                            ELSE IF i <= Size(o) THEN @[i] ELSE None],
              !.bufptr = 0, !.bufcnt = Gotnow(o)]

(* realloc of the buffer to n words.                                       *)
Resized(o, n) ==
    [o EXCEPT !.buffer = [i \in 1 .. n |-> IF i <= Size(o) THEN @[i] ELSE None]]

(* mutant of Unlent: the client keeps the buffer it lent *)
LentKept == input

(* The beginning of ReadRequestFromClient and of InsertFakeRequest: the    *)
(* client that lent its buffer loses it; the buffer goes to the free list  *)
(* or, if it is big, is freed; a client without a buffer gets one.         *)
Unlent == IF AvailableInput = None THEN input
          ELSE [input EXCEPT ![AvailableInput] = None]

Returned == IF AvailableInput # None /\ Size(buf[input[AvailableInput]]) <= BUFWATERMARK
            THEN <<input[AvailableInput]>> \o FreeInputs ELSE FreeInputs

WithBuffer(c) ==
    LET mine == AvailableInput = c
        inp == IF mine THEN input ELSE Unlent
        free == IF mine THEN FreeInputs ELSE Returned
        fresh == CHOOSE b \in Buffers : b \notin Range(inp) \cup Range(free)
    IN IF inp[c] # None
       THEN [input |-> inp, free |-> free, buf |-> buf]
       ELSE IF free # <<>>
       THEN [input |-> [inp EXCEPT ![c] = Head(free)], free |-> Tail(free), buf |-> buf]
       ELSE [input |-> [inp EXCEPT ![c] = fresh], free |-> <<>>,
             buf |-> [buf EXCEPT ![fresh] = FreshBuffer]]

---------------------------------------------------------------------------
(* ReadRequestFromClient.                                                  *)

(* What the words there are say of the request at bufptr: how many words   *)
(* are needed, whether that is only its header, whether it is a big one.   *)
Parse(o, big) ==
    IF Gotnow(o) < 1 THEN [needed |-> 1, header |-> TRUE, move |-> FALSE]
    ELSE IF FieldAt(o, 1) # 0 \/ ~big
    THEN [needed |-> FieldAt(o, 1), header |-> FALSE, move |-> FALSE]
    ELSE IF Gotnow(o) < 2 THEN [needed |-> 2, header |-> TRUE, move |-> TRUE]
    ELSE [needed |-> FieldAt(o, 2), header |-> FALSE, move |-> TRUE]

(* Room for needed words at bufptr.                                        *)
Roomy(o, needed) ==
    IF Gotnow(o) = 0 \/ o.bufptr + needed > Size(o)
    THEN Moved(o, IF needed > Size(o) THEN needed ELSE Size(o))
    ELSE o

(* One read of what is in the socket, as far as the buffer goes.           *)
Arriving(c, o) == LET n == sent[c] - got[c]
                  IN IF n <= Size(o) - o.bufcnt THEN n ELSE Size(o) - o.bufcnt

Filled(c, o) ==
    LET n == Arriving(c, o)
    IN [o EXCEPT !.buffer = [i \in DOMAIN @ |->
                               IF i \in o.bufcnt + 1 .. o.bufcnt + n
                               THEN Stream[c][got[c] + i - o.bufcnt] ELSE @[i]],
                 !.bufcnt = @ + n]

(* Some space is freed after a huge request.                               *)
Shrunk(o, needed) ==
    IF Size(o) > BUFWATERMARK /\ o.bufcnt < BUFSIZE /\ needed < BUFSIZE
    THEN Resized(o, BUFSIZE) ELSE o

(* The outcome of the read: the buffer, and either a request of needed     *)
(* words, or nothing yet, or a client that cannot be served any longer.    *)
ReadOutcome(c, o) ==
    LET big == c \in big_requests
        p == Parse(o, big)
        o1 == [o EXCEPT !.lenLastReq = 0]
        o2 == Roomy(o1, p.needed)
        o3 == Shrunk(Filled(c, o2), p.needed)
        p3 == IF p.header /\ Gotnow(o3) >= p.needed THEN Parse(o3, big) ELSE p
    IN IF Gotnow(o) >= p.needed
       THEN [result |-> "request", o |-> o, n |-> 0, p |-> p]
       ELSE IF p.needed > MAXBUFSIZE
       THEN [result |-> "dead", o |-> o1, n |-> 0, p |-> p]
       ELSE IF Arriving(c, o2) = 0
       THEN [result |-> IF c \in hungUp THEN "dead" ELSE "nothing",
             o |-> o2, n |-> 0, p |-> p]
       ELSE [result |-> IF Gotnow(o3) >= p3.needed THEN "request" ELSE "nothing",
             o |-> o3, n |-> Arriving(c, o2), p |-> p3]

(* mutant of WholeRequestAt: a Big Request's header is enough *)
HeaderAt(o, big) ==
    /\ Gotnow(o) >= 1
    /\ LET p == Parse(o, big)
       IN ~p.header /\ (p.move \/ (p.needed # 0 /\ Gotnow(o) >= p.needed))

(* At least one whole request is there beyond the words of the current.    *)
WholeRequestAt(o, big) ==
    /\ Gotnow(o) >= 1
    /\ LET p == Parse(o, big)
       IN ~p.header /\ Gotnow(o) >= p.needed /\ (p.needed # 0 \/ p.move)

(* mutant of HeaderMoved: lenLastReq still counts the word that is gone *)
HeaderCopied(o, move) ==
    IF ~move THEN o
    ELSE [o EXCEPT !.buffer[o.bufptr + 2] = At(o, 1), !.bufptr = @ + 1]

(* A Big Request's header is moved next to its data.                       *)
HeaderMoved(o, move) ==
    IF ~move THEN o
    ELSE [o EXCEPT !.buffer[o.bufptr + 2] = At(o, 1),
                   !.bufptr = @ + 1, !.lenLastReq = @ - 1]

(* CloseDownConnection: FreeOsBuffers keeps the buffer only if no other is *)
(* free.                                                                   *)
Close(c, inp, free, bufs) ==
    LET b == inp[c]
    IN /\ connected' = [connected EXCEPT ![c] = "closed"]
       /\ input' = [inp EXCEPT ![c] = None]
       /\ FreeInputs' = IF free = <<>> /\ b # None THEN <<b>> ELSE free
       /\ buf' = IF b = None THEN bufs
                 ELSE [bufs EXCEPT ![b].bufptr = 0, ![b].bufcnt = 0, ![b].lenLastReq = 0]
       /\ ClientsWithInput' = ClientsWithInput \ {c}

ReadRequestFromClient(c) ==
    LET w == WithBuffer(c)
        b == w.input[c]
        o == [w.buf[b] EXCEPT !.bufptr = @ + w.buf[b].lenLastReq]
        r == ReadOutcome(c, o)
        big == c \in big_requests
        needed == IF r.p.needed # 0 THEN r.p.needed ELSE IF big THEN 2 ELSE 1
        rest == [r.o EXCEPT !.bufptr = @ + needed]
    IN /\ connected[c] = "yes" /\ current = None
       /\ got' = [got EXCEPT ![c] = @ + r.n]
       /\ CASE r.result = "dead" ->
                 /\ Close(c, w.input, w.free, w.buf)
                 /\ AvailableInput' = None /\ UNCHANGED current
            [] r.result = "nothing" ->
                 /\ input' = w.input /\ FreeInputs' = w.free
                 /\ buf' = [w.buf EXCEPT ![b] = r.o]
                 /\ ClientsWithInput' = ClientsWithInput \ {c}
                 /\ AvailableInput' = None
                 /\ UNCHANGED <<connected, current>>
            [] r.result = "request" ->
                 /\ input' = w.input /\ FreeInputs' = w.free
                 /\ buf' = [w.buf EXCEPT ![b] =
                              HeaderMoved([r.o EXCEPT !.lenLastReq = needed], r.p.move)]
                 /\ ClientsWithInput' = IF WholeRequestAt(rest, big)
                                        THEN ClientsWithInput \cup {c}
                                        ELSE ClientsWithInput \ {c}
                 /\ AvailableInput' = IF Gotnow(rest) = 0 THEN c ELSE None
                 /\ current' = [client |-> c,
                                req_len |-> r.p.needed - IF r.p.move THEN 1 ELSE 0]
                 /\ UNCHANGED connected
       /\ UNCHANGED <<sent, hungUp, big_requests, executed>>

---------------------------------------------------------------------------
(* The other operations.                                                   *)

(* InsertFakeRequest, from NextAvailableClient.                            *)
Connect(c) ==
    LET w == WithBuffer(c)
        b == w.input[c]
        o == [w.buf[b] EXCEPT !.bufptr = @ + w.buf[b].lenLastReq, !.lenLastReq = 0]
        roomy == IF Gotnow(o) + 1 > Size(o) THEN Resized(o, Gotnow(o) + 1) ELSE o
        moveup == IF roomy.bufptr = 0 THEN 1 ELSE 0
        start == roomy.bufptr + moveup
    IN /\ connected[c] = "no" /\ current = None
       /\ connected' = [connected EXCEPT ![c] = "yes"]
       /\ input' = w.input /\ FreeInputs' = w.free
       /\ buf' = [w.buf EXCEPT ![b] =
            [roomy EXCEPT
               !.buffer = [i \in DOMAIN @ |->
                             IF i = start THEN FakeRequest(c)
                             ELSE IF i \in start + 1 .. start + Gotnow(o)
                             THEN @[i - moveup] ELSE @[i]],
               !.bufptr = start - 1,
               !.bufcnt = @ + moveup]]
       /\ ClientsWithInput' = IF Gotnow(o) + 1 >= FakeRequest(c).len
                              THEN ClientsWithInput \cup {c}
                              ELSE ClientsWithInput \ {c}
       /\ AvailableInput' = None
       /\ UNCHANGED <<sent, got, hungUp, big_requests, current, executed>>

(* mutant of ReadyAgain: more than the request must be there *)
ReadyIfMore(o, needed) == Gotnow(o) > needed

(* All of the request that is put back is in the buffer.                   *)
ReadyAgain(o, needed) == Gotnow(o) >= 1 /\ Gotnow(o) >= needed

(* ResetCurrentRequest, of a buffer whose current request is of req_len.   *)
ResetCurrentRequest(c, o, req_len) ==
    LET b == input[c]
        needed == FieldAt(o, 1)
        big == Gotnow(o) >= 1 /\ needed = 0 /\ c \in big_requests
        o1 == [o EXCEPT !.lenLastReq = 0]
    IN /\ AvailableInput' = IF AvailableInput = c THEN None ELSE AvailableInput
       /\ buf' = [buf EXCEPT ![b] =
            IF ~big THEN o1
            ELSE [o1 EXCEPT !.buffer = [@ EXCEPT
                              ![o.bufptr] = At(o, 1),
                              ![o.bufptr + 1] = Word(c, At(o, 1).req, 2, req_len)],
                            !.bufptr = @ - 1]]
       /\ ClientsWithInput' = IF ReadyAgain(o, needed) THEN ClientsWithInput \cup {c}
                              ELSE ClientsWithInput \ {c}

Executing(c) == current # None /\ current.client = c
Current(c) == At(buf[input[c]], 1)   \* the word at client->requestBuffer
KindOf(c) == IF Current(c).req = 0 THEN "setup"
             ELSE Requests[Current(c).client][Current(c).req].kind

(* ProcInitialConnection: with the prefix there, the length of the whole   *)
(* setup is known; the request is put back with that length.               *)
ProcInitialConnection(c) ==
    /\ Executing(c) /\ Current(c) = FakeRequest(c)
    /\ LET o == buf[input[c]]
       IN ResetCurrentRequest(
            c, [o EXCEPT !.buffer[o.bufptr + 1].len = @ + SetupStrings],
            current.req_len)
    /\ current' = None
    /\ UNCHANGED <<sent, got, hungUp, connected, input, FreeInputs, big_requests,
                   executed>>

(* A request that is to be executed later: ProcGrabServer under another's  *)
(* grab.                                                                   *)
PutBack(c) ==
    /\ Executing(c) /\ KindOf(c) = "grab"
    /\ ResetCurrentRequest(c, buf[input[c]], current.req_len)
    /\ current' = None
    /\ UNCHANGED <<sent, got, hungUp, connected, input, FreeInputs, big_requests,
                   executed>>

(* Any other request, BigReqEnable among them.                             *)
Execute(c) ==
    /\ Executing(c) /\ Current(c) # FakeRequest(c)
    /\ executed' = [executed EXCEPT ![c] = @ + 1]
    /\ big_requests' = IF KindOf(c) = "enable" THEN big_requests \cup {c}
                       ELSE big_requests
    /\ current' = None
    /\ UNCHANGED <<sent, got, hungUp, connected, input, buf, AvailableInput,
                   FreeInputs, ClientsWithInput>>

(* CloseDownClient between requests: KillClient, an error on output.       *)
KillClient(c) ==
    /\ c \in Mortal /\ connected[c] = "yes" /\ current = None
    /\ Close(c, input, FreeInputs, buf)
    /\ AvailableInput' = IF AvailableInput = c THEN None ELSE AvailableInput
    /\ UNCHANGED <<sent, got, hungUp, big_requests, current, executed>>

(* The client writes a word.  It sends Big Requests when it has been told  *)
(* that they are enabled.                                                  *)
Send(c) ==
    /\ connected[c] # "closed" /\ c \notin hungUp /\ sent[c] < Len(Stream[c])
    /\ LET w == Stream[c][sent[c] + 1]
       IN w.req > 0 /\ Requests[c][w.req].big => c \in big_requests
    /\ sent' = [sent EXCEPT ![c] = @ + 1]
    /\ UNCHANGED <<got, hungUp, connected, input, buf, AvailableInput, FreeInputs,
                   ClientsWithInput, big_requests, current, executed>>

HangUp(c) ==
    /\ c \in Mortal /\ connected[c] = "yes" /\ c \notin hungUp
    /\ hungUp' = hungUp \cup {c}
    /\ UNCHANGED <<sent, got, connected, input, buf, AvailableInput, FreeInputs,
                   ClientsWithInput, big_requests, current, executed>>

---------------------------------------------------------------------------
Init ==
    /\ sent = [c \in Clients |-> 0] /\ got = [c \in Clients |-> 0]
    /\ hungUp = {} /\ connected = [c \in Clients |-> "no"]
    /\ input = [c \in Clients |-> None] /\ buf = [b \in Buffers |-> FreshBuffer]
    /\ AvailableInput = None /\ FreeInputs = <<>> /\ ClientsWithInput = {}
    /\ big_requests = {} /\ current = None /\ executed = [c \in Clients |-> 0]

ExecuteCurrent == \E c \in Clients : ProcInitialConnection(c) \/ PutBack(c) \/ Execute(c)

Next ==
    \/ \E c \in Clients : \/ Connect(c) \/ ReadRequestFromClient(c)
                          \/ KillClient(c) \/ Send(c) \/ HangUp(c)
    \/ ExecuteCurrent

Spec == Init /\ [][Next]_vars

(* WaitForSomething returns the client: a whole request is in its buffer,  *)
(* or its socket is readable.                                              *)
Readable(c) == /\ current = None /\ connected[c] = "yes"
               /\ c \in ClientsWithInput \/ got[c] < sent[c] \/ c \in hungUp

Read(c) == /\ Readable(c)
           /\ \/ got'[c] # got[c]
              \/ connected'[c] = "closed"
              \/ current' # None /\ current'.client = c

(* Every handler returns; every client that WaitForSomething returns again *)
(* and again is read; a request is not put back for ever.  The two strong  *)
(* fairness conditions are written out, on what the step changes.          *)
FairSpec ==
    /\ Spec
    /\ []<>(current = None)
    /\ \A c \in Clients :
         /\ []<>Readable(c) =>
              []<><<Read(c)>>_vars
         /\ []<>(Executing(c) /\ Current(c) # FakeRequest(c)) =>
              []<><<executed'[c] # executed[c]>>_vars

---------------------------------------------------------------------------
(* Properties.                                                             *)

(* Every variable has its type, and the offsets of a buffer lie in it: the *)
(* last request does not end behind the data, nor the data behind the      *)
(* buffer.                                                                 *)
TypeOK ==
    /\ \A c \in Clients : /\ sent[c] \in 0 .. Len(Stream[c]) /\ got[c] \in 0 .. sent[c]
                          /\ connected[c] \in {"no", "yes", "closed"}
                          /\ input[c] \in Buffers \cup {None}
                          /\ executed[c] \in 0 .. Len(Requests[c]) + 1
    /\ \A b \in Buffers :
         /\ 0 <= buf[b].bufptr /\ 0 <= buf[b].lenLastReq
         /\ buf[b].bufptr + buf[b].lenLastReq <= buf[b].bufcnt
         /\ buf[b].bufcnt <= Size(buf[b]) /\ Size(buf[b]) <= MAXBUFSIZE
         /\ \A i \in DOMAIN buf[b].buffer :
              LET w == buf[b].buffer[i]
              IN w # None => w.client \in Clients /\ w.req \in 0 .. Len(Requests[w.client])
    /\ AvailableInput \in Clients \cup {None}
    /\ FreeInputs \in Seq(Buffers)
    /\ ClientsWithInput \subseteq Clients /\ big_requests \subseteq Clients
    /\ hungUp \subseteq Clients
    /\ current # None => current.client \in Clients /\ current.req_len \in Nat

(* The words of request k of c that its handler may look at: of a Big      *)
(* Request the second word is gone.                                        *)
Positions(c, k) ==
    IF k = 0
    THEN {[i \in 1 .. n |-> i] :
            n \in {1 + SetupPrefix, 1 + SetupPrefix + SetupStrings}}
    ELSE IF Requests[c][k].big
    THEN {[i \in 1 .. Requests[c][k].len - 1 |-> IF i = 1 THEN 1 ELSE i + 1]}
    ELSE {[i \in 1 .. Requests[c][k].len |-> i]}

(* Requests are executed in the order sent, none skipped and none but a    *)
(* request that was put back twice, each whole and with its own length,    *)
(* however the words arrived and whoever had the buffer before.            *)
ExecutedInOrder ==
    current # None =>
        LET c == current.client
            o == buf[input[c]]
        IN /\ executed[c] <= Len(Requests[c])
           /\ \E p \in Positions(c, executed[c]) :
                /\ current.req_len = Len(p) /\ Len(p) <= Gotnow(o)
                /\ \A i \in DOMAIN p :
                     /\ At(o, i) # None
                     /\ At(o, i).client = c /\ At(o, i).req = executed[c]
                     /\ At(o, i).at = p[i]

(* A buffer has one owner: a client or, once, the free list.  The buffer   *)
(* that others may take holds no word that is still to be executed.        *)
BuffersNotShared ==
    /\ \A c, d \in Clients : input[c] # None /\ input[c] = input[d] => c = d
    /\ \A i, j \in DOMAIN FreeInputs : FreeInputs[i] = FreeInputs[j] => i = j
    /\ \A c \in Clients : input[c] \notin Range(FreeInputs)
    /\ AvailableInput # None =>
         LET o == buf[input[AvailableInput]]
         IN input[AvailableInput] # None /\ Gotnow(o) = o.lenLastReq

(* The invariant of the buffers: offsets lie in them, through growing,     *)
(* shrinking and moved headers, and each has one owner.                    *)
RequestBuffersInv == TypeOK /\ BuffersNotShared

(* Between requests a client is marked as having input exactly when all of *)
(* its next request has been read: select() would not report it, and with  *)
(* less than a whole request it must be select() that does.                *)
End(c, k) == Cardinality({i \in DOMAIN Stream[c] : Stream[c][i].req <= k})

InputBitExact ==
    current = None =>
        \A c \in Clients :
            c \in ClientsWithInput <=>
                /\ connected[c] = "yes" /\ executed[c] <= Len(Requests[c])
                /\ got[c] >= End(c, executed[c])

(* Every request that was sent is executed, unless the client is closed.   *)
RequestsExecuted ==
    \A c \in Clients :
        sent[c] = Len(Stream[c]) /\ connected[c] = "yes" ~>
            executed[c] = Len(Requests[c]) + 1 \/ connected[c] = "closed"
=============================================================================

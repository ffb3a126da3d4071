------------------------ MODULE OutputBuffers_proofs ------------------------
(***************************************************************************)
(* Proofs about the output buffers: for any clients, descriptors and       *)
(* sizes, what is written to a client arrives in order, at that client     *)
(* only, and whatever is buffered has somebody to look for it.             *)
(***************************************************************************)
EXTENDS OutputBuffers, SequenceTheorems, FiniteSetTheorems, WellFoundedInduction, TLAPS

Units == Clients \X Nat

(* The states of the os layer.                                             *)
States ==
    [clients : SUBSET Clients, fd : [Clients -> Fds \cup {0}], trans_conn : SUBSET Clients,
     ConnectionTranslation : [Fds -> Clients \cup {None}],
     AllClients : SUBSET Fds, ClientsWithInput : SUBSET Fds,
     output : [Clients -> Buffers \cup {None}], FreeOutputs : Seq(Buffers),
     OutputPending : SUBSET Fds, NewOutputPending : BOOLEAN,
     ClientsWriteBlocked : SUBSET Fds, AnyClientsWriteBlocked : BOOLEAN,
     noClientException : SUBSET Clients,
     socket : [Clients -> Seq(Units)], written : [Clients -> Nat]]

Buf(s, c) == IF s.output[c] = None THEN <<>> ELSE s.output[c].buf
All(c, n) == [i \in 1 .. n |-> <<c, i>>]
Delivered(r, s, c) == r[c] \o s.socket[c]

(* What the client has got, r, what is in its socket and buffer, and what  *)
(* is about to be written, is what was written; of a connection that       *)
(* failed, a beginning.                                                    *)
StreamOf(r, s, c, extra) ==
    IF c \in s.trans_conn
    THEN Delivered(r, s, c) \o (Buf(s, c) \o extra) = All(c, s.written[c])
    ELSE \E rest \in Seq(Units) : Delivered(r, s, c) \o rest = All(c, s.written[c])

Sizes(s) ==
    \A c \in Clients :
        /\ Len(s.socket[c]) <= SocketSize /\ s.written[c] <= MaxWritten[c]
        /\ s.output[c] # None => Len(s.output[c].buf) <= s.output[c].size

FreeEmptied(s) == \A i \in DOMAIN s.FreeOutputs : s.FreeOutputs[i].buf = <<>>

(* Descriptors and clients belong together, and to a client that is gone   *)
(* nothing.                                                                *)
Connections(s) ==
    /\ s.trans_conn \subseteq s.clients
    /\ \A c \in s.clients : s.fd[c] \in Fds /\ s.ConnectionTranslation[s.fd[c]] = c
    /\ \A f \in Fds : LET c == s.ConnectionTranslation[f]
                      IN c # None => c \in s.clients /\ s.fd[c] = f
    /\ \A f \in s.AllClients \cup s.ClientsWithInput \cup s.ClientsWriteBlocked
                  \cup s.OutputPending :
         s.ConnectionTranslation[f] # None
    /\ \A c \in Clients \ s.clients : s.output[c] = None

(* A client that has not connected yet.                                    *)
Fresh(r, s) == \A c \in Clients : s.fd[c] = 0 =>
                   r[c] = <<>> /\ s.socket[c] = <<>> /\ s.written[c] = 0

(* Buffered output has somebody to look for it; of the descriptors in left *)
(* a loop that runs will.                                                  *)
Remembered(s, left) ==
    \A c \in s.trans_conn :
        Buf(s, c) # <<>> =>
            \/ s.NewOutputPending /\ s.fd[c] \in s.OutputPending
            \/ s.AnyClientsWriteBlocked /\ s.fd[c] \in s.ClientsWriteBlocked
            \/ s.fd[c] \in left

Kept(r, s) ==
    /\ r \in [Clients -> Seq(Units)] /\ s \in States
    /\ Sizes(s) /\ FreeEmptied(s) /\ Connections(s) /\ Fresh(r, s)

Good(r, s, left) ==
    Kept(r, s) /\ Remembered(s, left) /\ \A c \in Clients : StreamOf(r, s, c, <<>>)

IInv ==
    /\ Good(received, os, {})
    /\ queued \in BOOLEAN /\ pc \in {"dispatch", "wait", "select"}

---------------------------------------------------------------------------
(* Sequences of units.                                                     *)

LEMMA ConstantFacts ==
    /\ SocketSize \in Nat \ {0} /\ BUFSIZE \in Nat \ {0} /\ BUFWATERMARK \in Nat
    /\ MaxWritten \in [Clients -> Nat] /\ None \notin Clients /\ None \notin Buffers
    /\ 0 \notin Clients /\ Cardinality(Fds) \in Nat /\ Fds = 1 .. Cardinality(Fds)
<1>1. Cardinality(Fds) \in Nat
  BY OutputBuffersAssumption, FS_CardinalityType
<1> QED BY <1>1, OutputBuffersAssumption

LEMMA BuffersFacts ==
    ASSUME NEW o \in Buffers
    PROVE  o # None /\ o.buf \in Seq(Units) /\ o.size \in Nat /\ Len(o.buf) \in Nat
<1>1. o.buf \in Seq(Units) /\ o.size \in Nat
  BY DEF Buffers, Units
<1> QED BY <1>1, ConstantFacts, LenProperties

LEMMA BufFacts ==
    ASSUME NEW s \in States, NEW c \in Clients
    PROVE  /\ Buf(s, c) \in Seq(Units)
           /\ s.socket[c] \in Seq(Units)
           /\ s.output[c] # None => s.output[c] \in Buffers /\ Buf(s, c) = s.output[c].buf
<1>1. s.output[c] \in Buffers \cup {None} /\ s.socket[c] \in Seq(Units)
  BY DEF States
<1>2. <<>> \in Seq(Units)
  BY EmptySeq
<1> QED BY <1>1, <1>2, BuffersFacts DEF Buf

LEMMA AllFacts ==
    ASSUME NEW c \in Clients, NEW n \in Nat
    PROVE  All(c, n) \in Seq(Units) /\ Len(All(c, n)) = n /\ All(c, 0) = <<>>
<1>1. All(c, n) \in Seq(Units)
  <2>1. \A i \in 1 .. n : <<c, i>> \in Units
    BY DEF Units
  <2> QED BY <2>1, IsASeq DEF All
<1>2. Len(All(c, n)) = n
  BY DEF All
<1>3. All(c, 0) = <<>>
  BY DEF All
<1> QED BY <1>1, <1>2, <1>3

(* The next m units.                                                       *)
LEMMA AllMore ==
    ASSUME NEW c \in Clients, NEW n \in Nat, NEW m \in Nat
    PROVE  /\ [i \in 1 .. m |-> <<c, n + i>>] \in Seq(Units)
           /\ Len([i \in 1 .. m |-> <<c, n + i>>]) = m
           /\ All(c, n + m) = All(c, n) \o [i \in 1 .. m |-> <<c, n + i>>]
<1> DEFINE u == [i \in 1 .. m |-> <<c, n + i>>]
<1>1. u \in Seq(Units) /\ Len(u) = m
  <2>1. \A i \in 1 .. m : <<c, n + i>> \in Units
    BY DEF Units
  <2>2. u \in [1 .. m -> Units]
    BY <2>1
  <2> HIDE DEF u
  <2> QED BY <2>2
<1>2. /\ All(c, n) \in Seq(Units) /\ Len(All(c, n)) = n
      /\ All(c, n + m) \in Seq(Units) /\ Len(All(c, n + m)) = n + m
  BY AllFacts
<1>3. \A i \in 1 .. m : u[i] = <<c, n + i>>
  OBVIOUS
<1> HIDE DEF u
<1>4. /\ All(c, n) \o u \in Seq(Units) /\ Len(All(c, n) \o u) = n + m
      /\ \A i \in 1 .. n + m : (All(c, n) \o u)[i] = IF i <= n THEN All(c, n)[i] ELSE u[i - n]
  <2> DEFINE a == All(c, n)
  <2>1. a \in Seq(Units) /\ Len(a) = n
    BY <1>2
  <2> HIDE DEF a
  <2>2. /\ a \o u \in Seq(Units) /\ Len(a \o u) = Len(a) + Len(u)
        /\ \A i \in 1 .. Len(a) + Len(u) :
             (a \o u)[i] = IF i <= Len(a) THEN a[i] ELSE u[i - Len(a)]
    BY <1>1, <2>1, ConcatProperties
  <2>3. /\ a \o u \in Seq(Units) /\ Len(a \o u) = n + m
        /\ \A i \in 1 .. n + m : (a \o u)[i] = IF i <= n THEN a[i] ELSE u[i - n]
    BY ONLY <1>1, <2>1, <2>2
  <2> QED BY <2>3 DEF a
<1>5. \A i \in 1 .. n + m : (All(c, n) \o u)[i] = All(c, n + m)[i]
  <2> SUFFICES ASSUME NEW i \in 1 .. n + m
               PROVE  (All(c, n) \o u)[i] = <<c, i>>
    BY DEF All
  <2>1. CASE i <= n
    <3>1. i \in 1 .. n
      BY <2>1
    <3>2. All(c, n)[i] = <<c, i>>
      BY <3>1 DEF All
    <3> QED BY <1>4, <2>1, <3>2
  <2>2. CASE ~(i <= n)
    <3>1. i - n \in 1 .. m /\ n + (i - n) = i
      BY <2>2
    <3> QED BY <1>3, <1>4, <2>2, <3>1
  <2> QED BY <2>1, <2>2
<1>6. All(c, n + m) = All(c, n) \o u
  BY <1>2, <1>4, <1>5, SeqEqual
<1>7. u \in Seq(Units) /\ Len(u) = m /\ All(c, n + m) = All(c, n) \o u
  BY <1>1, <1>6
<1> QED BY ONLY <1>7 DEF u

LEMMA UnitsAssociate ==
    \A x, y, z \in Seq(Units) : (x \o y) \o z = x \o (y \o z)
  BY ConcatAssociative

LEMMA UnitsJoined == \A x, y \in Seq(Units) : x \o y \in Seq(Units)
  BY ConcatProperties

(* A sequence is what is before any place of it and what is after.         *)
LEMMA SplitAt ==
    ASSUME NEW S, NEW q \in Seq(S), NEW n \in 0 .. Len(q)
    PROVE  /\ SubSeq(q, 1, n) \in Seq(S) /\ Len(SubSeq(q, 1, n)) = n
           /\ SubSeq(q, n + 1, Len(q)) \in Seq(S)
           /\ Len(SubSeq(q, n + 1, Len(q))) = Len(q) - n
           /\ SubSeq(q, 1, n) \o SubSeq(q, n + 1, Len(q)) = q
<1>1. Len(q) \in Nat /\ \A i \in 1 .. Len(q) : q[i] \in S
  BY LenProperties, ElementOfSeq
<1>2. SubSeq(q, 1, n) \in Seq(S) /\ Len(SubSeq(q, 1, n)) = n
  <2>1. \A i \in 1 .. n : q[i] \in S
    BY <1>1
  <2>2. Len(SubSeq(q, 1, n)) = IF 1 <= n THEN n - 1 + 1 ELSE 0
    BY <1>1, <2>1, SubSeqProperties
  <2> QED BY <1>1, <2>1, <2>2, SubSeqProperties
<1>3. SubSeq(q, n + 1, Len(q)) \in Seq(S) /\ Len(SubSeq(q, n + 1, Len(q))) = Len(q) - n
  <2>1. \A i \in n + 1 .. Len(q) : q[i] \in S
    BY <1>1
  <2>2. Len(SubSeq(q, n + 1, Len(q))) = IF n + 1 <= Len(q) THEN Len(q) - (n + 1) + 1 ELSE 0
    BY <1>1, <2>1, SubSeqProperties
  <2> QED BY <1>1, <2>1, <2>2, SubSeqProperties
<1>4. SubSeq(q, 1, n) \o SubSeq(q, n + 1, Len(q)) = SubSeq(q, 1, Len(q))
  <2>1. 1 \in 1 .. Len(q) + 1 /\ n \in 1 - 1 .. Len(q) /\ Len(q) \in n .. Len(q)
    BY <1>1
  <2> QED BY <2>1, ConcatAdjacentSubSeq
<1> QED BY <1>2, <1>3, <1>4, SubSeqFull

---------------------------------------------------------------------------
(* A flush.                                                                *)

(* What a flush of c may change.                                           *)
Flushes(s, t, c) ==
    /\ t \in States
    /\ t.clients = s.clients /\ t.fd = s.fd
    /\ t.ConnectionTranslation = s.ConnectionTranslation
    /\ t.AllClients = s.AllClients /\ t.ClientsWithInput = s.ClientsWithInput
    /\ t.OutputPending = s.OutputPending /\ t.NewOutputPending = s.NewOutputPending
    /\ t.written = s.written /\ t.trans_conn \subseteq s.trans_conn
    /\ \A d \in Clients \ {c} :
         /\ t.socket[d] = s.socket[d] /\ t.output[d] = s.output[d]
         /\ d \in s.trans_conn => d \in t.trans_conn
    /\ t.ClientsWriteBlocked \subseteq s.ClientsWriteBlocked \cup {s.fd[c]}
    /\ \A f \in s.ClientsWriteBlocked \ {s.fd[c]} :
         f \in t.ClientsWriteBlocked /\ (s.AnyClientsWriteBlocked => t.AnyClientsWriteBlocked)

(* What was to be written to c, all of it, is in its socket or its buffer. *)
Settled(r, t, c) ==
    /\ StreamOf(r, t, c, <<>>)
    /\ Len(t.socket[c]) <= SocketSize
    /\ t.output[c] # None => Len(t.output[c].buf) <= t.output[c].size
    /\ c \in t.trans_conn /\ Buf(t, c) # <<>> =>
         t.AnyClientsWriteBlocked /\ t.fd[c] \in t.ClientsWriteBlocked

(* Two clients have not one descriptor.                                    *)
LEMMA OwnFd ==
    ASSUME NEW s, Connections(s), NEW c \in s.clients, NEW d \in s.clients,
           s.fd[c] = s.fd[d]
    PROVE  c = d
  BY DEF Connections

(* What must be so before a flush.                                         *)
ToFlush(r, s, c, extra, left) ==
    /\ Kept(r, s) /\ c \in s.clients /\ extra \in Seq(Units)
    /\ Remembered(s, left \cup {s.fd[c]})
    /\ \A d \in Clients \ {c} : StreamOf(r, s, d, <<>>)
    /\ StreamOf(r, s, c, extra)

LEMMA FlushKeeps ==
    ASSUME NEW r, NEW s, NEW c, NEW extra, NEW left, ToFlush(r, s, c, extra, left),
           NEW t, Flushes(s, t, c), Settled(r, t, c), FreeEmptied(t)
    PROVE  Good(r, t, left)
<1>1. /\ r \in [Clients -> Seq(Units)] /\ s \in States /\ t \in States /\ c \in s.clients
      /\ Connections(s) /\ Sizes(s) /\ Fresh(r, s) /\ Remembered(s, left \cup {s.fd[c]})
      /\ s.clients \subseteq Clients /\ c \in Clients
  BY DEF ToFlush, Kept, Flushes, States
<1>2. Sizes(t)
  BY <1>1 DEF Sizes, Flushes, Settled
<1>3. Connections(t)
  <2>1. s.fd[c] \in Fds /\ s.ConnectionTranslation[s.fd[c]] = c /\ c # None
    BY <1>1, ConstantFacts DEF Connections
  <2> QED BY <1>1, <2>1 DEF Connections, Flushes
<1>4. Fresh(r, t)
  <2>1. s.fd[c] # 0
    BY <1>1, ConstantFacts DEF Connections
  <2> QED BY <1>1, <2>1 DEF Fresh, Flushes
<1>5. ASSUME NEW d \in t.trans_conn, Buf(t, d) # <<>>
      PROVE  \/ t.NewOutputPending /\ t.fd[d] \in t.OutputPending
             \/ t.AnyClientsWriteBlocked /\ t.fd[d] \in t.ClientsWriteBlocked
             \/ t.fd[d] \in left
  <2>1. CASE d = c
    BY <1>5, <2>1 DEF Settled
  <2>2. CASE d # c
    <3>1. d \in s.trans_conn /\ d \in s.clients /\ d \in Clients /\ Buf(t, d) = Buf(s, d)
      BY <1>1, <2>2 DEF Flushes, Connections, Buf
    <3>2. s.fd[d] # s.fd[c]
      BY <1>1, <2>2, <3>1, OwnFd
    <3>3. \/ s.NewOutputPending /\ s.fd[d] \in s.OutputPending
          \/ s.AnyClientsWriteBlocked /\ s.fd[d] \in s.ClientsWriteBlocked
          \/ s.fd[d] \in left
      BY <1>1, <1>5, <3>1, <3>2 DEF Remembered
    <3> QED BY <3>2, <3>3 DEF Flushes
  <2> QED BY <2>1, <2>2
<1>6. ASSUME NEW d \in Clients PROVE StreamOf(r, t, d, <<>>)
  <2>1. CASE d = c
    BY <2>1 DEF Settled
  <2>2. CASE d # c
    <3>1. /\ t.socket[d] = s.socket[d] /\ t.output[d] = s.output[d] /\ t.written = s.written
          /\ (d \in t.trans_conn <=> d \in s.trans_conn)
      BY <2>2 DEF Flushes
    <3>2. StreamOf(r, s, d, <<>>)
      BY <2>2 DEF ToFlush
    <3> QED BY <3>1, <3>2 DEF StreamOf, Delivered, Buf
  <2> QED BY <2>1, <2>2
<1> QED BY <1>1, <1>2, <1>3, <1>4, <1>5, <1>6 DEF Good, Kept, Remembered

LEMMA DataFacts ==
    ASSUME NEW s \in States, NEW c \in Clients, s.output[c] # None, NEW extra \in Seq(Units),
           Len(s.socket[c]) <= SocketSize
    PROVE  /\ Data(s, c, extra) \in Seq(Units) /\ Len(Data(s, c, extra)) \in Nat
           /\ Data(s, c, extra) = Buf(s, c) \o extra
           /\ Room(s, c) \in Nat /\ Len(s.socket[c]) + Room(s, c) = SocketSize
           /\ Taken(s, c, extra) \in 0 .. Len(Data(s, c, extra))
           /\ Taken(s, c, extra) <= Room(s, c)
<1>1. s.output[c].buf \in Seq(Units) /\ Buf(s, c) = s.output[c].buf /\ s.socket[c] \in Seq(Units)
  BY BufFacts
<1>2. Data(s, c, extra) \in Seq(Units) /\ Data(s, c, extra) = Buf(s, c) \o extra
  BY <1>1, ConcatProperties DEF Data
<1>3. Len(Data(s, c, extra)) \in Nat /\ Len(s.socket[c]) \in Nat /\ SocketSize \in Nat
  BY <1>1, <1>2, LenProperties, ConstantFacts
<1>4. Room(s, c) \in Nat /\ Len(s.socket[c]) + Room(s, c) = SocketSize
  BY <1>3 DEF Room
<1> QED BY <1>2, <1>3, <1>4 DEF Taken

LEMMA FlushedOutKeeps ==
    ASSUME NEW r, NEW s, NEW c, NEW extra, NEW left, ToFlush(r, s, c, extra, left),
           s.output[c] # None, Len(Data(s, c, extra)) <= Room(s, c),
           c \in s.trans_conn \/ Data(s, c, extra) = <<>>
    PROVE  LET t == FlushedOut(s, c, extra)
           IN Flushes(s, t, c) /\ Good(r, t, left)
<1> DEFINE t == FlushedOut(s, c, extra)
           data == Data(s, c, extra)
<1>1. /\ r \in [Clients -> Seq(Units)] /\ s \in States /\ c \in s.clients /\ Sizes(s)
      /\ FreeEmptied(s) /\ c \in Clients /\ extra \in Seq(Units) /\ StreamOf(r, s, c, extra)
      /\ s.fd[c] \in Fds /\ s.trans_conn \subseteq s.clients
  BY DEF ToFlush, Kept, States, Connections
<1>2. /\ s.output[c] \in Buffers /\ s.socket[c] \in Seq(Units) /\ Buf(s, c) = s.output[c].buf
      /\ s.FreeOutputs \in Seq(Buffers) /\ Len(s.socket[c]) <= SocketSize /\ r[c] \in Seq(Units)
  BY <1>1, BufFacts DEF States, Sizes
<1>3. /\ data \in Seq(Units) /\ data = Buf(s, c) \o extra /\ Len(data) \in Nat
      /\ Room(s, c) \in Nat /\ Len(s.socket[c]) + Room(s, c) = SocketSize
  BY <1>1, <1>2, DataFacts
<1> DEFINE o == Emptied(s.output[c])
           free == IF s.output[c].size > BUFWATERMARK THEN s.FreeOutputs
                   ELSE <<o>> \o s.FreeOutputs
<1>4. o \in Buffers /\ o.buf = <<>>
  <2>1. <<>> \in Seq(Clients \X Nat)
    BY EmptySeq
  <2> QED BY <1>2, <2>1 DEF Emptied, Buffers
<1>5. free \in Seq(Buffers) /\ \A i \in DOMAIN free : free[i].buf = <<>>
  <2>1. \A i \in DOMAIN s.FreeOutputs : s.FreeOutputs[i].buf = <<>>
    BY <1>1 DEF FreeEmptied
  <2> DEFINE more == <<o>> \o s.FreeOutputs
  <2>2. more \in Seq(Buffers) /\ \A i \in DOMAIN more : more[i].buf = <<>>
    <3>1. <<o>> \in Seq(Buffers) /\ Len(<<o>>) = 1 /\ <<o>>[1] = o
      <4> HIDE DEF o
      <4> QED BY <1>4
    <3> HIDE DEF o
    <3>2. /\ more \in Seq(Buffers) /\ Len(more) = 1 + Len(s.FreeOutputs)
          /\ \A i \in 1 .. 1 + Len(s.FreeOutputs) :
               more[i] = IF i <= 1 THEN <<o>>[i] ELSE s.FreeOutputs[i - 1]
      BY <1>2, <3>1, ConcatProperties
    <3>3. Len(s.FreeOutputs) \in Nat /\ DOMAIN s.FreeOutputs = 1 .. Len(s.FreeOutputs)
      BY <1>2, LenProperties
    <3>4. DOMAIN more = 1 .. 1 + Len(s.FreeOutputs)
      BY <3>2, <3>3, LenProperties
    <3> HIDE DEF more
    <3>5. ASSUME NEW i \in 1 .. 1 + Len(s.FreeOutputs)
          PROVE  more[i].buf = <<>>
      <4>1. CASE i = 1
        BY <1>4, <3>1, <3>2, <4>1
      <4>2. CASE i # 1
        <5>1. i - 1 \in DOMAIN s.FreeOutputs /\ ~(i <= 1)
          BY <3>3, <4>2
        <5> QED BY <2>1, <3>2, <5>1
      <4> QED BY <4>1, <4>2
    <3> QED BY <3>2, <3>4, <3>5
  <2> HIDE DEF more
  <2> QED BY <1>2, <2>1, <2>2 DEF more
<1>6. /\ s.socket[c] \o data \in Seq(Units) /\ Len(s.socket[c] \o data) <= SocketSize
      /\ s.socket[c] \o <<>> = s.socket[c]
  <2>1. s.socket[c] \o data \in Seq(Units) /\ Len(s.socket[c] \o data) = Len(s.socket[c]) + Len(data)
    BY <1>2, <1>3, ConcatProperties
  <2>2. Len(s.socket[c]) \in Nat /\ SocketSize \in Nat /\ Len(data) <= Room(s, c)
    BY <1>2, LenProperties, ConstantFacts
  <2>3. Len(s.socket[c]) + Len(data) <= SocketSize
    <3> DEFINE l == Len(data)
    <3>1. /\ l \in Nat /\ l <= Room(s, c) /\ Room(s, c) \in Nat /\ Len(s.socket[c]) \in Nat
          /\ SocketSize \in Nat /\ Len(s.socket[c]) + Room(s, c) = SocketSize
      BY <1>3, <2>2
    <3> HIDE DEF l
    <3>2. Len(s.socket[c]) + l <= SocketSize
      BY ONLY <3>1
    <3> QED BY <3>2 DEF l
  <2> QED BY <1>2, <2>1, <2>3, ConcatEmptySeq
<1> DEFINE blocked == s.ClientsWriteBlocked \ {s.fd[c]}
<1>7. t = [s EXCEPT !.socket = [s.socket EXCEPT ![c] = s.socket[c] \o data],
                    !.output = [s.output EXCEPT ![c] = None],
                    !.FreeOutputs = free, !.ClientsWriteBlocked = blocked,
                    !.AnyClientsWriteBlocked = s.AnyClientsWriteBlocked /\ blocked # {}]
  <2> HIDE DEF data
  <2> QED BY DEF FlushedOut, data
<1> HIDE DEF t, data, free, o
<1>8. /\ t.socket = [s.socket EXCEPT ![c] = s.socket[c] \o data]
      /\ t.output = [s.output EXCEPT ![c] = None]
      /\ t.FreeOutputs = free /\ t.ClientsWriteBlocked = blocked
      /\ t.AnyClientsWriteBlocked = (s.AnyClientsWriteBlocked /\ blocked # {})
      /\ t.clients = s.clients /\ t.fd = s.fd /\ t.trans_conn = s.trans_conn
      /\ t.ConnectionTranslation = s.ConnectionTranslation
      /\ t.AllClients = s.AllClients /\ t.ClientsWithInput = s.ClientsWithInput
      /\ t.OutputPending = s.OutputPending /\ t.NewOutputPending = s.NewOutputPending
      /\ t.written = s.written /\ t.noClientException = s.noClientException
      /\ t \in States
  BY <1>1, <1>5, <1>6, <1>7 DEF States
<1>9. Flushes(s, t, c)
  <2>1. \A d \in Clients \ {c} : t.socket[d] = s.socket[d] /\ t.output[d] = s.output[d]
    BY <1>1, <1>8 DEF States
  <2> QED BY <1>8, <2>1 DEF Flushes
<1>10. Settled(r, t, c)
  <2>1. t.socket[c] = s.socket[c] \o data /\ t.output[c] = None /\ Buf(t, c) = <<>>
    BY <1>1, <1>8 DEF States, Buf
  <2>2. StreamOf(r, t, c, <<>>)
    <3>1. <<>> \o <<>> = <<>> /\ <<>> \in Seq(Units)
      BY EmptySeq, ConcatEmptySeq
    <3>2. CASE c \in s.trans_conn
      <4>1. Delivered(r, s, c) \o data = All(c, s.written[c])
        BY <1>1, <1>3, <3>2 DEF StreamOf
      <4>2. Delivered(r, t, c) = Delivered(r, s, c) \o data
        <5> DEFINE k == s.socket[c]
                   rc == r[c]
        <5>1. k \in Seq(Units) /\ rc \in Seq(Units) /\ t.socket[c] = k \o data
          BY <1>2, <2>1
        <5> HIDE DEF k, rc
        <5>2. (rc \o k) \o data = rc \o (k \o data)
          <6>1. data \in Seq(Units)
            BY <1>3
          <6> QED BY ONLY <5>1, <6>1, UnitsAssociate
        <5>3. Delivered(r, t, c) = rc \o t.socket[c] /\ Delivered(r, s, c) = rc \o k
          BY DEF Delivered, k, rc
        <5> QED BY ONLY <5>1, <5>2, <5>3
      <4>3. Delivered(r, t, c) \in Seq(Units)
        BY <1>2, <1>6, <2>1, ConcatProperties DEF Delivered
      <4>4. Delivered(r, t, c) \o <<>> = Delivered(r, t, c)
        BY <4>3, ConcatEmptySeq
      <4> QED BY <1>8, <2>1, <3>1, <3>2, <4>1, <4>2, <4>4 DEF StreamOf
    <3>3. CASE c \notin s.trans_conn
      <4>1. t.socket[c] = s.socket[c]
        BY <1>6, <2>1, <3>3 DEF data
      <4> QED BY <1>1, <1>8, <3>3, <4>1 DEF StreamOf, Delivered
    <3> QED BY <3>2, <3>3
  <2> QED BY <1>6, <2>1, <2>2 DEF Settled
<1>11. FreeEmptied(t)
  BY <1>5, <1>8 DEF FreeEmptied
<1> QED BY <1>9, <1>10, <1>11, FlushKeeps DEF t

LEMMA RestBufferedKeeps ==
    ASSUME NEW r, NEW s, NEW c, NEW extra, NEW left, ToFlush(r, s, c, extra, left),
           s.output[c] # None, c \in s.trans_conn
    PROVE  LET t == RestBuffered(s, c, extra)
           IN Flushes(s, t, c) /\ Good(r, t, left)
<1> DEFINE t == RestBuffered(s, c, extra)
           data == Data(s, c, extra)
           n == Taken(s, c, extra)
           first == SubSeq(data, 1, n)
           rest == SubSeq(data, n + 1, Len(data))
<1>1. /\ r \in [Clients -> Seq(Units)] /\ s \in States /\ c \in s.clients /\ Sizes(s)
      /\ FreeEmptied(s) /\ c \in Clients /\ extra \in Seq(Units) /\ StreamOf(r, s, c, extra)
      /\ s.fd[c] \in Fds /\ s.trans_conn \subseteq s.clients
  BY DEF ToFlush, Kept, States, Connections
<1>2. /\ s.output[c] \in Buffers /\ s.socket[c] \in Seq(Units) /\ Buf(s, c) = s.output[c].buf
      /\ s.output[c].size \in Nat /\ Len(s.socket[c]) <= SocketSize /\ r[c] \in Seq(Units)
      /\ Len(s.socket[c]) \in Nat /\ SocketSize \in Nat /\ BUFSIZE \in Nat
  BY <1>1, BufFacts, BuffersFacts, LenProperties, ConstantFacts DEF States, Sizes
<1>3. /\ data \in Seq(Units) /\ data = Buf(s, c) \o extra /\ Len(data) \in Nat
      /\ n \in 0 .. Len(data) /\ n <= Room(s, c)
      /\ Room(s, c) \in Nat /\ Len(s.socket[c]) + Room(s, c) = SocketSize
  BY <1>1, <1>2, DataFacts
<1> HIDE DEF data, n
<1>4. /\ first \in Seq(Units) /\ Len(first) = n
      /\ rest \in Seq(Units) /\ Len(rest) \in Nat /\ first \o rest = data
  <2>1. Len(data) - n \in Nat
    BY <1>3
  <2>2. data \in Seq(Units) /\ n \in 0 .. Len(data)
    BY <1>3
  <2>3. /\ SubSeq(data, 1, n) \in Seq(Units) /\ Len(SubSeq(data, 1, n)) = n
        /\ SubSeq(data, n + 1, Len(data)) \in Seq(Units)
        /\ Len(SubSeq(data, n + 1, Len(data))) = Len(data) - n
        /\ SubSeq(data, 1, n) \o SubSeq(data, n + 1, Len(data)) = data
    BY ONLY <2>2, SplitAt
  <2> QED BY ONLY <2>1, <2>3
<1> HIDE DEF first, rest
<1> DEFINE o == [buf |-> rest, size |-> Grown(s.output[c], Len(rest))]
<1>5. o \in Buffers /\ o.buf = rest /\ Len(rest) <= o.size
  <2>1. Grown(s.output[c], Len(rest)) \in Nat /\ Len(rest) <= Grown(s.output[c], Len(rest))
    BY <1>2, <1>4 DEF Grown
  <2> QED BY <1>4, <2>1 DEF Buffers, Units
<1>6. /\ s.socket[c] \o first \in Seq(Units) /\ Len(s.socket[c] \o first) <= SocketSize
  <2>1. s.socket[c] \o first \in Seq(Units) /\ Len(s.socket[c] \o first) = Len(s.socket[c]) + n
    BY <1>2, <1>4, ConcatProperties
  <2>2. Len(s.socket[c]) + n <= SocketSize
    BY ONLY <1>2, <1>3
  <2> QED BY <2>1, <2>2
<1> DEFINE blocked == s.ClientsWriteBlocked \cup {s.fd[c]}
<1>7. t = [s EXCEPT !.socket = [s.socket EXCEPT ![c] = s.socket[c] \o first],
                    !.output = [s.output EXCEPT ![c] = o],
                    !.ClientsWriteBlocked = blocked, !.AnyClientsWriteBlocked = TRUE]
  BY <1>1 DEF RestBuffered, data, n, first, rest, States
<1> HIDE DEF t, o
<1>8. /\ t.socket = [s.socket EXCEPT ![c] = s.socket[c] \o first]
      /\ t.output = [s.output EXCEPT ![c] = o]
      /\ t.FreeOutputs = s.FreeOutputs /\ t.ClientsWriteBlocked = blocked
      /\ t.AnyClientsWriteBlocked = TRUE
      /\ t.clients = s.clients /\ t.fd = s.fd /\ t.trans_conn = s.trans_conn
      /\ t.ConnectionTranslation = s.ConnectionTranslation
      /\ t.AllClients = s.AllClients /\ t.ClientsWithInput = s.ClientsWithInput
      /\ t.OutputPending = s.OutputPending /\ t.NewOutputPending = s.NewOutputPending
      /\ t.written = s.written /\ t.noClientException = s.noClientException
      /\ t \in States
  BY <1>1, <1>5, <1>6, <1>7 DEF States
<1>9. Flushes(s, t, c)
  <2>1. \A d \in Clients \ {c} : t.socket[d] = s.socket[d] /\ t.output[d] = s.output[d]
    BY <1>1, <1>8 DEF States
  <2> QED BY <1>8, <2>1 DEF Flushes
<1>10. Settled(r, t, c)
  <2>1. t.socket[c] = s.socket[c] \o first /\ t.output[c] = o /\ Buf(t, c) = rest
    BY <1>1, <1>5, <1>8, BuffersFacts DEF States, Buf
  <2>2. StreamOf(r, t, c, <<>>)
    <3>1. Delivered(r, s, c) \o data = All(c, s.written[c])
      BY <1>1, <1>3 DEF StreamOf
    <3> DEFINE k == s.socket[c]
               rc == r[c]
    <3>2. k \in Seq(Units) /\ rc \in Seq(Units) /\ t.socket[c] = k \o first
      BY <1>2, <2>1
    <3> HIDE DEF k, rc
    <3>3. /\ (rc \o (k \o first)) \o rest = rc \o ((k \o first) \o rest)
          /\ (k \o first) \o rest = k \o (first \o rest)
          /\ (rc \o k) \o data = rc \o (k \o data)
      <4>1. data \in Seq(Units) /\ first \in Seq(Units) /\ rest \in Seq(Units)
        BY <1>3, <1>4
      <4>2. k \o first \in Seq(Units)
        BY ONLY <3>2, <4>1, UnitsJoined
      <4>3. (rc \o (k \o first)) \o rest = rc \o ((k \o first) \o rest)
        <5> DEFINE kf == k \o first
        <5> HIDE DEF kf
        <5>1. kf \in Seq(Units) => (rc \o kf) \o rest = rc \o (kf \o rest)
          BY ONLY <3>2, <4>1, UnitsAssociate
        <5> QED BY ONLY <4>2, <5>1 DEF kf
      <4>4. (k \o first) \o rest = k \o (first \o rest)
        BY ONLY <3>2, <4>1, UnitsAssociate
      <4>5. (rc \o k) \o data = rc \o (k \o data)
        BY ONLY <3>2, <4>1, UnitsAssociate
      <4> QED BY ONLY <4>3, <4>4, <4>5
    <3>4. Delivered(r, t, c) = rc \o t.socket[c] /\ Delivered(r, s, c) = rc \o k
      BY DEF Delivered, k, rc
    <3>5. Delivered(r, t, c) \o rest = Delivered(r, s, c) \o data
      BY ONLY <1>4, <3>2, <3>3, <3>4
    <3>6. Buf(t, c) \o <<>> = rest
      BY <1>4, <2>1, ConcatEmptySeq
    <3> QED BY <1>8, <3>1, <3>5, <3>6 DEF StreamOf
  <2>3. t.fd[c] \in t.ClientsWriteBlocked
    BY <1>8
  <2> QED BY <1>5, <1>6, <1>8, <2>1, <2>2, <2>3 DEF Settled
<1>11. FreeEmptied(t)
  BY <1>1, <1>8 DEF FreeEmptied
<1> QED BY <1>9, <1>10, <1>11, FlushKeeps DEF t

LEMMA WriteFailedKeeps ==
    ASSUME NEW r, NEW s, NEW c, NEW extra, NEW left, ToFlush(r, s, c, extra, left),
           s.output[c] # None
    PROVE  LET t == WriteFailed(s, c)
           IN Flushes(s, t, c) /\ Good(r, t, left)
<1> DEFINE t == WriteFailed(s, c)
           o == [s.output[c] EXCEPT !.buf = <<>>]
<1>1. /\ r \in [Clients -> Seq(Units)] /\ s \in States /\ c \in s.clients /\ Sizes(s)
      /\ FreeEmptied(s) /\ c \in Clients /\ extra \in Seq(Units) /\ StreamOf(r, s, c, extra)
      /\ s.trans_conn \subseteq s.clients
  BY DEF ToFlush, Kept, States, Connections
<1>2. /\ s.output[c] \in Buffers /\ Buf(s, c) \in Seq(Units) /\ r[c] \in Seq(Units)
      /\ s.output[c].size \in Nat
  BY <1>1, BufFacts, BuffersFacts
<1>3. o \in Buffers /\ o.buf = <<>> /\ o.size \in Nat /\ Len(o.buf) = 0
  <2>1. <<>> \in Seq(Clients \X Nat)
    BY EmptySeq
  <2> QED BY <1>2, <2>1 DEF Buffers
<1>4. t = [s EXCEPT !.trans_conn = s.trans_conn \ {c},
                    !.noClientException = s.noClientException \cup {c},
                    !.output = [s.output EXCEPT ![c] = o]]
  BY <1>1 DEF WriteFailed, States
<1> HIDE DEF t, o
<1>5. /\ t.socket = s.socket /\ t.output = [s.output EXCEPT ![c] = o]
      /\ t.FreeOutputs = s.FreeOutputs /\ t.ClientsWriteBlocked = s.ClientsWriteBlocked
      /\ t.AnyClientsWriteBlocked = s.AnyClientsWriteBlocked
      /\ t.clients = s.clients /\ t.fd = s.fd /\ t.trans_conn = s.trans_conn \ {c}
      /\ t.ConnectionTranslation = s.ConnectionTranslation
      /\ t.AllClients = s.AllClients /\ t.ClientsWithInput = s.ClientsWithInput
      /\ t.OutputPending = s.OutputPending /\ t.NewOutputPending = s.NewOutputPending
      /\ t.written = s.written
      /\ t \in States
  BY <1>1, <1>3, <1>4 DEF States
<1>6. Flushes(s, t, c)
  <2>1. \A d \in Clients \ {c} : t.output[d] = s.output[d]
    BY <1>1, <1>5 DEF States
  <2> QED BY <1>5, <2>1 DEF Flushes
<1>7. Settled(r, t, c)
  <2>1. t.output[c] = o
    BY <1>1, <1>5 DEF States
  <2>2. StreamOf(r, t, c, <<>>)
    <3>1. CASE c \in s.trans_conn
      <4>1. Delivered(r, s, c) \o (Buf(s, c) \o extra) = All(c, s.written[c])
        BY <1>1, <3>1 DEF StreamOf
      <4>2. Buf(s, c) \o extra \in Seq(Units)
        BY <1>1, <1>2, ConcatProperties
      <4> QED BY <1>5, <4>1, <4>2 DEF StreamOf, Delivered
    <3>2. CASE c \notin s.trans_conn
      BY <1>1, <1>5, <3>2 DEF StreamOf, Delivered
    <3> QED BY <3>1, <3>2
  <2>3. Len(t.socket[c]) <= SocketSize
    BY <1>1, <1>5 DEF Sizes
  <2>4. c \notin t.trans_conn /\ Len(t.output[c].buf) <= t.output[c].size
    BY <1>3, <1>5, <2>1
  <2> QED BY <2>2, <2>3, <2>4 DEF Settled
<1>8. FreeEmptied(t)
  BY <1>1, <1>5 DEF FreeEmptied
<1> QED BY <1>6, <1>7, <1>8, FlushKeeps DEF t

(* FlushClient, with what is about to be written to the client.            *)
LEMMA FlushClientKeeps ==
    ASSUME NEW r, NEW s, NEW c, NEW extra, NEW left, ToFlush(r, s, c, extra, left),
           s.output[c] = None => extra = <<>>
    PROVE  LET t == FlushClient(s, c, extra)
           IN Flushes(s, t, c) /\ Good(r, t, left)
<1>1. /\ s \in States /\ c \in s.clients /\ c \in Clients /\ extra \in Seq(Units)
      /\ StreamOf(r, s, c, extra) /\ Sizes(s) /\ FreeEmptied(s)
  BY DEF ToFlush, Kept, States
<1>2. CASE s.output[c] = None
  <2>1. FlushClient(s, c, extra) = s
    BY <1>2 DEF FlushClient
  <2>2. Flushes(s, s, c)
    BY <1>1 DEF Flushes
  <2>3. Settled(r, s, c)
    BY <1>1, <1>2 DEF Settled, Sizes, Buf
  <2> QED BY <1>1, <2>1, <2>2, <2>3, FlushKeeps
<1>3. CASE s.output[c] # None
  <2>1. /\ Len(Data(s, c, extra)) \in Nat /\ Taken(s, c, extra) <= Room(s, c)
        /\ Room(s, c) \in Nat
    BY <1>1, <1>3, DataFacts DEF Sizes
  <2>2. CASE Data(s, c, extra) = <<>>
    <3>1. Len(Data(s, c, extra)) <= Room(s, c)
      BY <2>1, <2>2
    <3> QED BY <1>3, <2>2, <3>1, FlushedOutKeeps DEF FlushClient
  <2>3. CASE Data(s, c, extra) # <<>> /\ (c \notin s.trans_conn \/ c \in gone)
    BY <1>3, <2>3, WriteFailedKeeps DEF FlushClient
  <2>4. CASE /\ Data(s, c, extra) # <<>> /\ c \in s.trans_conn /\ c \notin gone
             /\ Taken(s, c, extra) = Len(Data(s, c, extra))
    BY <1>3, <2>1, <2>4, FlushedOutKeeps DEF FlushClient
  <2>5. CASE /\ Data(s, c, extra) # <<>> /\ c \in s.trans_conn /\ c \notin gone
             /\ Taken(s, c, extra) # Len(Data(s, c, extra))
    BY <1>3, <2>5, RestBufferedKeeps DEF FlushClient
  <2> QED BY <2>2, <2>3, <2>4, <2>5
<1> QED BY <1>2, <1>3

---------------------------------------------------------------------------
(* Writing to a client.                                                    *)

LEMMA WithOutputFacts ==
    ASSUME NEW r, NEW s, Kept(r, s), NEW c \in s.clients
    PROVE  LET w == WithOutput(s, c)
           IN /\ w = [s EXCEPT !.output = w.output, !.FreeOutputs = w.FreeOutputs]
              /\ w.output \in [Clients -> Buffers \cup {None}] /\ w.FreeOutputs \in Seq(Buffers)
              /\ w.output[c] \in Buffers /\ w.output[c].buf = Buf(s, c)
              /\ Len(w.output[c].buf) <= w.output[c].size
              /\ \A d \in Clients \ {c} : w.output[d] = s.output[d]
              /\ FreeEmptied(w)
<1> DEFINE w == WithOutput(s, c)
<1>1. /\ s \in States /\ c \in Clients /\ Sizes(s) /\ FreeEmptied(s)
      /\ s.output \in [Clients -> Buffers \cup {None}] /\ s.FreeOutputs \in Seq(Buffers)
  BY DEF Kept, States
<1>2. CASE s.output[c] # None
  <2>1. w = s
    BY <1>2 DEF WithOutput
  <2>2. s = [s EXCEPT !.output = s.output, !.FreeOutputs = s.FreeOutputs]
    BY <1>1 DEF States
  <2> QED BY <1>1, <1>2, <2>1, <2>2 DEF Sizes, Buf
<1>3. CASE s.output[c] = None /\ s.FreeOutputs # <<>>
  <2> DEFINE h == Head(s.FreeOutputs)
             q == Tail(s.FreeOutputs)
  <2>1. /\ h \in Buffers /\ q \in Seq(Buffers) /\ Len(q) = Len(s.FreeOutputs) - 1
        /\ \A i \in 1 .. Len(q) : q[i] = s.FreeOutputs[i + 1]
    BY <1>1, <1>3, HeadTailProperties
  <2>2. /\ Len(s.FreeOutputs) \in Nat \ {0} /\ DOMAIN s.FreeOutputs = 1 .. Len(s.FreeOutputs)
        /\ h = s.FreeOutputs[1]
    BY <1>1, <1>3, LenProperties, EmptySeq
  <2>3. h.buf = <<>> /\ Len(h.buf) <= h.size
    <3>1. 1 \in DOMAIN s.FreeOutputs
      BY <2>2
    <3>2. h.buf = <<>>
      BY <1>1, <2>2, <3>1 DEF FreeEmptied
    <3>3. h.size \in Nat
      BY <2>1, BuffersFacts
    <3> HIDE DEF h
    <3> QED BY <3>2, <3>3
  <2>4. \A i \in DOMAIN q : q[i].buf = <<>>
    <3>1. DOMAIN q = 1 .. Len(q)
      BY <2>1, LenProperties
    <3>2. \A i \in 1 .. Len(q) : i + 1 \in DOMAIN s.FreeOutputs
      BY <2>1, <2>2
    <3> HIDE DEF q
    <3> QED BY <1>1, <2>1, <3>1, <3>2 DEF FreeEmptied
  <2>5. w = [s EXCEPT !.output = [s.output EXCEPT ![c] = h], !.FreeOutputs = q]
    BY <1>1, <1>3 DEF WithOutput, States
  <2> HIDE DEF w, h, q
  <2>6. w.output = [s.output EXCEPT ![c] = h] /\ w.FreeOutputs = q
    BY <1>1, <2>5 DEF States
  <2>7. w.output[c] = h /\ Buf(s, c) = <<>>
    BY <1>1, <1>3, <2>6 DEF Buf
  <2>8. w.output \in [Clients -> Buffers \cup {None}]
    BY <1>1, <2>1, <2>6
  <2>9. w = [s EXCEPT !.output = w.output, !.FreeOutputs = w.FreeOutputs]
    BY <2>5, <2>6
  <2> QED BY <1>1, <2>1, <2>3, <2>4, <2>6, <2>7, <2>8, <2>9 DEF FreeEmptied, w
<1>4. CASE s.output[c] = None /\ s.FreeOutputs = <<>>
  <2> DEFINE h == [buf |-> <<>>, size |-> BUFSIZE]
  <2>1. h \in Buffers /\ h.buf = <<>> /\ Len(h.buf) <= h.size
    <3>1. <<>> \in Seq(Clients \X Nat) /\ BUFSIZE \in Nat
      BY EmptySeq, ConstantFacts
    <3> QED BY <3>1 DEF Buffers
  <2>2. w = [s EXCEPT !.output = [s.output EXCEPT ![c] = h], !.FreeOutputs = s.FreeOutputs]
    BY <1>1, <1>4 DEF WithOutput, States
  <2> HIDE DEF w, h
  <2>3. w.output = [s.output EXCEPT ![c] = h] /\ w.FreeOutputs = s.FreeOutputs
    BY <1>1, <2>2 DEF States
  <2>4. w.output[c] = h /\ Buf(s, c) = <<>>
    BY <1>1, <1>4, <2>3 DEF Buf
  <2>5. w.output \in [Clients -> Buffers \cup {None}]
    BY <1>1, <2>1, <2>3
  <2>6. w = [s EXCEPT !.output = w.output, !.FreeOutputs = w.FreeOutputs]
    BY <2>2, <2>3
  <2> QED BY <1>1, <2>1, <2>3, <2>4, <2>5, <2>6 DEF FreeEmptied, w
<1> QED BY <1>2, <1>3, <1>4

(* What writing and flushing leave alone.                                  *)
SameConnections(s, t) ==
    /\ t.clients = s.clients /\ t.fd = s.fd
    /\ t.ConnectionTranslation = s.ConnectionTranslation
    /\ t.AllClients = s.AllClients /\ t.ClientsWithInput = s.ClientsWithInput
    /\ t.trans_conn \subseteq s.trans_conn

Unit(s, c, n) == [i \in 1 .. n |-> <<c, s.written[c] + i>>]

(* With a buffer, and with the units counted that are about to be written. *)
LEMMA AboutToWrite ==
    ASSUME NEW r, NEW s, NEW left, Good(r, s, left), NEW c \in s.clients, NEW n \in Nat,
           s.written[c] + n <= MaxWritten[c],
           NEW pending, NEW new \in BOOLEAN,
           pending \in SUBSET s.OutputPending,
           \A f \in s.OutputPending : f # s.fd[c] =>
               f \in pending /\ (s.NewOutputPending => new)
    PROVE  LET t == [WithOutput(s, c) EXCEPT !.written[c] = @ + n, !.OutputPending = pending,
                                             !.NewOutputPending = new]
           IN /\ ToFlush(r, t, c, Unit(s, c, n), left) /\ SameConnections(s, t)
              /\ t.output[c] \in Buffers
<1> DEFINE w == WithOutput(s, c)
           u == Unit(s, c, n)
           t == [w EXCEPT !.written[c] = @ + n, !.OutputPending = pending,
                          !.NewOutputPending = new]
<1>1. /\ Kept(r, s) /\ s \in States /\ c \in Clients /\ Connections(s) /\ Sizes(s)
      /\ Remembered(s, left) /\ Fresh(r, s) /\ \A d \in Clients : StreamOf(r, s, d, <<>>)
      /\ r \in [Clients -> Seq(Units)] /\ s.written \in [Clients -> Nat] /\ s.clients \subseteq Clients
      /\ s.trans_conn \subseteq s.clients
  BY DEF Good, Kept, States, Connections
<1>2. /\ w = [s EXCEPT !.output = w.output, !.FreeOutputs = w.FreeOutputs]
      /\ w.output \in [Clients -> Buffers \cup {None}] /\ w.FreeOutputs \in Seq(Buffers)
      /\ w.output[c] \in Buffers /\ w.output[c].buf = Buf(s, c)
      /\ Len(w.output[c].buf) <= w.output[c].size
      /\ \A d \in Clients \ {c} : w.output[d] = s.output[d]
      /\ FreeEmptied(w)
  BY <1>1, WithOutputFacts
<1>3. /\ u \in Seq(Units) /\ Len(u) = n
      /\ All(c, s.written[c] + n) = All(c, s.written[c]) \o u
  BY <1>1, AllMore DEF Unit
<1> HIDE DEF w, u
<1>4. t = [s EXCEPT !.output = w.output, !.FreeOutputs = w.FreeOutputs,
                    !.written = [s.written EXCEPT ![c] = s.written[c] + n],
                    !.OutputPending = pending, !.NewOutputPending = new]
  <2>1. w.written = s.written
    BY <1>1, <1>2 DEF States
  <2>2. t = [w EXCEPT !.written = [s.written EXCEPT ![c] = s.written[c] + n],
                      !.OutputPending = pending, !.NewOutputPending = new]
    BY <2>1
  <2> QED BY <1>1, <1>2, <2>2 DEF States
<1> HIDE DEF t
<1>5. /\ t.output = w.output /\ t.FreeOutputs = w.FreeOutputs
      /\ t.written = [s.written EXCEPT ![c] = s.written[c] + n]
      /\ t.OutputPending = pending /\ t.NewOutputPending = new
      /\ t.clients = s.clients /\ t.fd = s.fd /\ t.trans_conn = s.trans_conn
      /\ t.ConnectionTranslation = s.ConnectionTranslation
      /\ t.AllClients = s.AllClients /\ t.ClientsWithInput = s.ClientsWithInput
      /\ t.ClientsWriteBlocked = s.ClientsWriteBlocked
      /\ t.AnyClientsWriteBlocked = s.AnyClientsWriteBlocked
      /\ t.noClientException = s.noClientException /\ t.socket = s.socket
      /\ t \in States
  <2>1. pending \in SUBSET Fds
    BY <1>1 DEF States
  <2>2. [s.written EXCEPT ![c] = s.written[c] + n] \in [Clients -> Nat]
    BY <1>1
  <2> QED BY <1>1, <1>2, <1>4, <2>1, <2>2 DEF States
<1>6. SameConnections(s, t) /\ t.output[c] \in Buffers
  BY <1>2, <1>5 DEF SameConnections
<1>7. Sizes(t) /\ FreeEmptied(t)
  <2>1. \A d \in Clients : t.written[d] <= MaxWritten[d]
    BY <1>1, <1>5 DEF Sizes
  <2>2. \A d \in Clients : t.output[d] # None => Len(t.output[d].buf) <= t.output[d].size
    <3> SUFFICES ASSUME NEW d \in Clients, t.output[d] # None
                 PROVE  Len(t.output[d].buf) <= t.output[d].size
      OBVIOUS
    <3>1. CASE d = c
      BY <1>2, <1>5, <3>1
    <3>2. CASE d # c
      <4>1. t.output[d] = s.output[d]
        BY <1>2, <1>5, <3>2
      <4> QED BY <1>1, <4>1 DEF Sizes
    <3> QED BY <3>1, <3>2
  <2> QED BY <1>1, <1>2, <1>5, <2>1, <2>2 DEF Sizes, FreeEmptied
<1>8. Connections(t)
  <2>1. \A d \in Clients \ t.clients : t.output[d] = None
    <3> SUFFICES ASSUME NEW d \in Clients, d \notin s.clients
                 PROVE  t.output[d] = None
      BY <1>5
    <3>1. t.output[d] = s.output[d]
      BY <1>2, <1>5
    <3> QED BY <1>1, <3>1 DEF Connections
  <2>2. t.OutputPending \subseteq s.OutputPending
    BY <1>5
  <2> QED BY <1>1, <1>5, <2>1, <2>2 DEF Connections
<1>9. Fresh(r, t)
  <2>1. s.fd[c] # 0
    BY <1>1, ConstantFacts DEF Connections
  <2> QED BY <1>1, <1>5, <2>1 DEF Fresh
<1>10. Buf(t, c) = Buf(s, c) /\ \A d \in Clients : d # c => Buf(t, d) = Buf(s, d)
  BY <1>2, <1>5, BuffersFacts DEF Buf
<1>11. Remembered(t, left \cup {t.fd[c]})
  BY <1>1, <1>5, <1>10 DEF Remembered
<1>12. \A d \in Clients \ {c} : StreamOf(r, t, d, <<>>)
  BY <1>1, <1>5, <1>10 DEF StreamOf, Delivered
<1>13. StreamOf(r, t, c, u)
  <2> DEFINE all == All(c, s.written[c])
             dl == Delivered(r, s, c)
             b == Buf(s, c)
  <2>1. /\ Delivered(r, t, c) = dl /\ Buf(t, c) = b /\ All(c, t.written[c]) = all \o u
        /\ t.trans_conn = s.trans_conn
    BY <1>1, <1>3, <1>5, <1>10 DEF Delivered
  <2>2. dl \in Seq(Units) /\ b \in Seq(Units) /\ all \in Seq(Units) /\ u \in Seq(Units)
    <3>1. r[c] \in Seq(Units) /\ s.socket[c] \in Seq(Units)
      BY <1>1, BufFacts
    <3> QED BY <1>1, <1>3, <3>1, BufFacts, AllFacts, UnitsJoined DEF Delivered
  <2>3. CASE c \in s.trans_conn
    <3>1. dl \o (b \o <<>>) = all
      BY <1>1, <2>3 DEF StreamOf
    <3> HIDE DEF dl, b, all
    <3>2. b \o <<>> = b
      BY <2>2, ConcatEmptySeq
    <3>3. (dl \o b) \o u = dl \o (b \o u)
      BY ONLY <2>2, UnitsAssociate
    <3>4. dl \o (b \o u) = all \o u
      BY ONLY <3>1, <3>2, <3>3
    <3> QED BY <2>1, <2>3, <3>4 DEF StreamOf
  <2>4. CASE c \notin s.trans_conn
    <3>1. PICK rest \in Seq(Units) : dl \o rest = all
      BY <1>1, <2>4 DEF StreamOf
    <3> HIDE DEF dl, b, all
    <3>2. (dl \o rest) \o u = dl \o (rest \o u) /\ rest \o u \in Seq(Units)
      <4>1. rest \in Seq(Units)
        BY <3>1
      <4>2. (dl \o rest) \o u = dl \o (rest \o u)
        BY ONLY <2>2, <4>1, UnitsAssociate
      <4>3. rest \o u \in Seq(Units)
        BY ONLY <2>2, <4>1, UnitsJoined
      <4> QED BY ONLY <4>2, <4>3
    <3>3. dl \o (rest \o u) = all \o u
      BY ONLY <3>1, <3>2
    <3> QED BY <2>1, <2>4, <3>2, <3>3 DEF StreamOf
  <2> QED BY <2>3, <2>4
<1>14. Kept(r, t)
  BY <1>1, <1>5, <1>7, <1>8, <1>9 DEF Kept
<1> QED BY <1>3, <1>5, <1>6, <1>11, <1>12, <1>13, <1>14 DEF ToFlush, t, u, w

LEMMA WriteToClientKeeps ==
    ASSUME NEW r, NEW s, NEW left, Good(r, s, left), NEW c \in s.clients, NEW n \in Nat,
           s.written[c] + n <= MaxWritten[c]
    PROVE  LET t == WriteToClient(s, c, n)
           IN Good(r, t, left) /\ SameConnections(s, t)
<1> DEFINE w == WithOutput(s, c)
           u == Unit(s, c, n)
           s1 == [w EXCEPT !.written[c] = @ + n]
           pending == s.OutputPending \ {s.fd[c]}
           new == s.NewOutputPending /\ pending # {}
           s2 == [w EXCEPT !.written[c] = @ + n, !.OutputPending = pending,
                           !.NewOutputPending = new]
           t1 == [w EXCEPT !.written[c] = @ + n, !.OutputPending = s.OutputPending,
                           !.NewOutputPending = s.NewOutputPending]
<1>1. s \in States /\ c \in Clients /\ Kept(r, s)
  BY DEF Good, Kept, States
<1>2. w = [s EXCEPT !.output = w.output, !.FreeOutputs = w.FreeOutputs]
  BY <1>1, WithOutputFacts
<1>3. s2 = [s1 EXCEPT !.OutputPending = pending, !.NewOutputPending = new]
      /\ t1 = s1 /\ s1.fd = s.fd /\ s1.OutputPending = s.OutputPending
      /\ s1.NewOutputPending = s.NewOutputPending
  <2> HIDE DEF w
  <2>1. /\ w.fd = s.fd /\ w.OutputPending = s.OutputPending
        /\ w.NewOutputPending = s.NewOutputPending
        /\ w = [w EXCEPT !.OutputPending = s.OutputPending, !.NewOutputPending = s.NewOutputPending]
    BY <1>1, <1>2 DEF States
  <2> QED BY <1>1, <1>2, <2>1 DEF States
<1>4. WriteToClient(s, c, n) =
        IF Full(s1.output[c], u) THEN FlushClient(s2, c, u)
        ELSE [s1 EXCEPT !.NewOutputPending = TRUE, !.OutputPending = @ \cup {s1.fd[c]},
                        !.output[c].buf = @ \o u]
  <2> DEFINE p1 == s1.OutputPending \ {s1.fd[c]}
  <2>1. WriteToClient(s, c, n) =
          IF Full(s1.output[c], u)
          THEN FlushClient([s1 EXCEPT !.OutputPending = p1,
                                      !.NewOutputPending = s1.NewOutputPending /\ p1 # {}], c, u)
          ELSE [s1 EXCEPT !.NewOutputPending = TRUE, !.OutputPending = @ \cup {s1.fd[c]},
                          !.output[c].buf = @ \o u]
    BY DEF WriteToClient, Unit
  <2> HIDE DEF s1, s2
  <2>2. p1 = pending /\ s1.NewOutputPending = s.NewOutputPending
    BY <1>3
  <2> HIDE DEF p1, pending
  <2>3. [s1 EXCEPT !.OutputPending = p1, !.NewOutputPending = s1.NewOutputPending /\ p1 # {}] = s2
    BY <1>3, <2>2
  <2> QED BY <2>1, <2>3
<1>5. /\ ToFlush(r, s2, c, u, left) /\ SameConnections(s, s2) /\ s2.output[c] \in Buffers
  <2>1. /\ pending \in SUBSET s.OutputPending /\ new \in BOOLEAN
        /\ \A f \in s.OutputPending : f # s.fd[c] =>
             f \in pending /\ (s.NewOutputPending => new)
    OBVIOUS
  <2> HIDE DEF pending, new
  <2> QED BY <2>1, AboutToWrite
<1>6. /\ ToFlush(r, t1, c, u, left) /\ SameConnections(s, t1) /\ t1.output[c] \in Buffers
  <2>1. s.NewOutputPending \in BOOLEAN
    BY <1>1 DEF States
  <2> QED BY <2>1, AboutToWrite
<1> HIDE DEF w, s1, s2, t1, u, pending, new
<1>7. CASE Full(s1.output[c], u)
  <2>1. s2.output[c] # None
    BY <1>5, BuffersFacts
  <2> DEFINE t == FlushClient(s2, c, u)
  <2>2. Flushes(s2, t, c) /\ Good(r, t, left)
    BY <1>5, <2>1, FlushClientKeeps
  <2> HIDE DEF t
  <2>3. SameConnections(s, t)
    BY <1>5, <2>2 DEF SameConnections, Flushes
  <2> QED BY <1>4, <1>7, <2>2, <2>3 DEF t
<1>8. CASE ~Full(s1.output[c], u)
  <2> DEFINE o == [s1.output[c] EXCEPT !.buf = s1.output[c].buf \o u]
             f == s.fd[c]
             t == [s1 EXCEPT !.NewOutputPending = TRUE,
                             !.OutputPending = s1.OutputPending \cup {f},
                             !.output = [s1.output EXCEPT ![c] = o]]
  <2>1. /\ r \in [Clients -> Seq(Units)] /\ s1 \in States /\ Sizes(s1) /\ FreeEmptied(s1)
        /\ Connections(s1) /\ Fresh(r, s1) /\ c \in s1.clients /\ u \in Seq(Units)
        /\ Remembered(s1, left \cup {f}) /\ s1.output[c] \in Buffers
        /\ \A d \in Clients \ {c} : StreamOf(r, s1, d, <<>>)
        /\ StreamOf(r, s1, c, u) /\ f \in Fds /\ s1.fd[c] = f
        /\ s1.ConnectionTranslation[f] = c
    <3>1. s1.fd = s.fd
      BY <1>3
    <3> QED BY <1>3, <1>6, <3>1 DEF ToFlush, Kept, Connections
  <2>2. /\ s1.output[c].buf \in Seq(Units) /\ s1.output[c].size \in Nat
        /\ Buf(s1, c) = s1.output[c].buf
    BY <2>1, BuffersFacts DEF Buf
  <2>3. o \in Buffers /\ o.buf = s1.output[c].buf \o u /\ Len(o.buf) <= o.size
    <3>1. s1.output[c].buf \o u \in Seq(Units)
          /\ Len(s1.output[c].buf \o u) = Len(s1.output[c].buf) + Len(u)
      BY <2>1, <2>2, ConcatProperties
    <3>2. /\ o \in Buffers /\ o.buf = s1.output[c].buf \o u /\ o.size = s1.output[c].size
      BY <2>1, <3>1 DEF Buffers, Units
    <3>3. Len(s1.output[c].buf) \in Nat /\ Len(u) \in Nat
      BY <2>1, <2>2, LenProperties
    <3> HIDE DEF o
    <3> QED BY <1>8, <2>2, <3>1, <3>2, <3>3 DEF Full
  <2>4. WriteToClient(s, c, n) = t
    BY <1>4, <1>8, <2>1 DEF States
  <2> HIDE DEF t, o, f
  <2>5. /\ t.output = [s1.output EXCEPT ![c] = o] /\ t.NewOutputPending = TRUE
        /\ t.OutputPending = s1.OutputPending \cup {f}
        /\ t.clients = s1.clients /\ t.fd = s1.fd /\ t.trans_conn = s1.trans_conn
        /\ t.ConnectionTranslation = s1.ConnectionTranslation
        /\ t.AllClients = s1.AllClients /\ t.ClientsWithInput = s1.ClientsWithInput
        /\ t.FreeOutputs = s1.FreeOutputs
        /\ t.ClientsWriteBlocked = s1.ClientsWriteBlocked
        /\ t.AnyClientsWriteBlocked = s1.AnyClientsWriteBlocked
        /\ t.socket = s1.socket /\ t.written = s1.written
        /\ t \in States
    BY <2>1, <2>3 DEF States, t
  <2>6. /\ t.output[c] = o /\ \A d \in Clients \ {c} : t.output[d] = s1.output[d]
    BY <1>1, <2>1, <2>5 DEF States
  <2>7. Buf(t, c) = s1.output[c].buf \o u /\ \A d \in Clients \ {c} : Buf(t, d) = Buf(s1, d)
    BY <2>3, <2>6, BuffersFacts DEF Buf
  <2>8. Sizes(t)
    BY <2>1, <2>3, <2>5, <2>6 DEF Sizes
  <2>9. Connections(t)
    <3>1. \A d \in Clients \ t.clients : t.output[d] = None
      BY <2>1, <2>5, <2>6 DEF Connections
    <3>2. c # None
      BY <1>1, ConstantFacts
    <3> QED BY <2>1, <2>5, <3>1, <3>2 DEF Connections
  <2>10. Fresh(r, t) /\ FreeEmptied(t)
    BY <2>1, <2>5 DEF Fresh, FreeEmptied
  <2>11. Remembered(t, left)
    <3> SUFFICES ASSUME NEW d \in t.trans_conn, Buf(t, d) # <<>>
                 PROVE  \/ t.NewOutputPending /\ t.fd[d] \in t.OutputPending
                        \/ t.AnyClientsWriteBlocked /\ t.fd[d] \in t.ClientsWriteBlocked
                        \/ t.fd[d] \in left
      BY DEF Remembered
    <3>1. CASE d = c
      BY <2>1, <2>5, <3>1
    <3>2. CASE d # c
      <4>1. d \in Clients
        BY <2>1, <2>5 DEF States
      <4> QED BY <2>1, <2>5, <2>7, <3>2, <4>1 DEF Remembered
    <3> QED BY <3>1, <3>2
  <2>12. ASSUME NEW d \in Clients PROVE StreamOf(r, t, d, <<>>)
    <3>1. CASE d = c
      <4>1. (s1.output[c].buf \o u) \o <<>> = s1.output[c].buf \o u
        <5>1. s1.output[c].buf \o u \in Seq(Units)
          BY <2>1, <2>2, UnitsJoined
        <5> QED BY <5>1, ConcatEmptySeq
      <4>2. StreamOf(r, s1, c, u)
        BY <2>1
      <4>3. Buf(t, c) \o <<>> = Buf(s1, c) \o u
        BY <2>2, <2>7, <4>1
      <4>4. Delivered(r, t, c) = Delivered(r, s1, c)
        BY <2>5 DEF Delivered
      <4>5. StreamOf(r, t, c, <<>>)
        BY ONLY <2>5, <4>2, <4>3, <4>4 DEF StreamOf
      <4> QED BY <3>1, <4>5
    <3>2. CASE d # c
      <4>1. StreamOf(r, s1, d, <<>>)
        BY <2>1, <3>2
      <4> QED BY <2>5, <2>7, <3>2, <4>1 DEF StreamOf, Delivered
    <3> QED BY <3>1, <3>2
  <2>13. SameConnections(s, t)
    BY <1>3, <1>6, <2>5 DEF SameConnections
  <2> QED BY <2>1, <2>4, <2>5, <2>8, <2>9, <2>10, <2>11, <2>12, <2>13 DEF Good, Kept
<1> QED BY <1>7, <1>8

---------------------------------------------------------------------------
(* The masks alone.                                                        *)

SameData(s, t) ==
    /\ t \in States /\ t.clients = s.clients /\ t.fd = s.fd /\ t.trans_conn = s.trans_conn
    /\ t.ConnectionTranslation = s.ConnectionTranslation
    /\ t.output = s.output /\ t.FreeOutputs = s.FreeOutputs
    /\ t.socket = s.socket /\ t.written = s.written

Masks(s) == s.AllClients \cup s.ClientsWithInput \cup s.ClientsWriteBlocked \cup s.OutputPending

LEMMA MasksChange ==
    ASSUME NEW r, NEW s, NEW left, Good(r, s, left), NEW t, SameData(s, t), NEW now,
           \A f \in Masks(t) : s.ConnectionTranslation[f] # None,
           Remembered(t, now)
    PROVE  Good(r, t, now)
<1>1. /\ r \in [Clients -> Seq(Units)] /\ Sizes(s) /\ FreeEmptied(s) /\ Connections(s)
      /\ Fresh(r, s) /\ \A c \in Clients : StreamOf(r, s, c, <<>>)
  BY DEF Good, Kept
<1>2. Sizes(t) /\ FreeEmptied(t) /\ Fresh(r, t)
  BY <1>1 DEF SameData, Sizes, FreeEmptied, Fresh
<1>3. Connections(t)
  BY <1>1 DEF SameData, Connections, Masks
<1>4. \A c \in Clients : StreamOf(r, t, c, <<>>)
  BY <1>1 DEF SameData, StreamOf, Delivered, Buf
<1> QED BY <1>1, <1>2, <1>3, <1>4 DEF SameData, Good, Kept

LEMMA MasksHaveClients ==
    ASSUME NEW r, NEW s, NEW left, Good(r, s, left)
    PROVE  /\ s \in States /\ Connections(s) /\ Remembered(s, left)
           /\ \A f \in Masks(s) : s.ConnectionTranslation[f] # None
           /\ \A c \in s.clients : s.fd[c] \in Fds /\ s.ConnectionTranslation[s.fd[c]] # None
<1>1. s \in States /\ Connections(s) /\ Remembered(s, left)
  BY DEF Good, Kept
<1>2. None \notin s.clients
  BY <1>1, ConstantFacts DEF States
<1> QED BY <1>1, <1>2 DEF Connections, Masks

---------------------------------------------------------------------------
(* The loops over a mask.                                                  *)

NatLess == {ss \in Nat \X Nat : ss[1] < ss[2]}

LEMMA LeastExists ==
    ASSUME NEW T, T \subseteq Nat, T # {}
    PROVE  \E x \in T : \A y \in T : x <= y
<1>1. IsWellFoundedOn(NatLess, Nat)
  BY NatLessThanWellFounded DEF OpToRel, NatLess
<1>2. PICK x \in T : \A y \in T : ~ (<<y, x>> \in NatLess)
  BY <1>1, WFMin
<1>3. ASSUME NEW y \in T PROVE x <= y
  <2>1. y \in Nat /\ x \in Nat
    OBVIOUS
  <2>2. y < x => <<y, x>> \in NatLess
    BY <2>1 DEF NatLess
  <2> QED BY <1>2, <2>1, <2>2
<1> QED BY <1>3

(* What holds of 0 and goes from a number to the next holds of N.          *)
LEMMA StepByStep ==
    ASSUME NEW N \in Nat, NEW T, T \subseteq 0 .. N, 0 \in T,
           \A m \in 1 .. N : m - 1 \in T => m \in T
    PROVE  N \in T
<1> SUFFICES ASSUME N \notin T PROVE FALSE
  OBVIOUS
<1>1. (0 .. N) \ T \subseteq Nat /\ (0 .. N) \ T # {}
  OBVIOUS
<1>2. PICK x \in (0 .. N) \ T : \A y \in (0 .. N) \ T : x <= y
  BY <1>1, LeastExists
<1>3. x \in 1 .. N /\ x - 1 \in 0 .. N /\ ~(x <= x - 1)
  BY <1>2
<1>4. x - 1 \in T
  BY <1>2, <1>3
<1> QED BY <1>2, <1>3, <1>4

(* FlushAllOutput: one descriptor.                                         *)
LEMMA FlushFdKeeps ==
    ASSUME NEW r, NEW s, NEW left, NEW f \in Fds, Good(r, s, left \cup {f})
    PROVE  LET t == FlushFd(s, f) IN Good(r, t, left) /\ SameConnections(s, t)
<1> DEFINE c == s.ConnectionTranslation[f]
<1>1. /\ Kept(r, s) /\ s \in States /\ Connections(s) /\ Remembered(s, left \cup {f})
      /\ \A d \in Clients : StreamOf(r, s, d, <<>>)
      /\ s.clients \subseteq Clients /\ s.trans_conn \subseteq s.clients
  BY DEF Good, Kept, States, Connections
<1>2. SameConnections(s, s)
  BY DEF SameConnections
<1>3. CASE c = None
  <2>1. FlushFd(s, f) = s
    BY <1>3 DEF FlushFd
  <2>2. None \notin s.clients
    BY <1>1, ConstantFacts
  <2>3. \A d \in s.trans_conn : s.fd[d] # f
    BY <1>1, <1>3, <2>2 DEF Connections
  <2>4. Remembered(s, left)
    BY <1>1, <2>3 DEF Remembered
  <2> QED BY <1>1, <1>2, <2>1, <2>4 DEF Good
<1>4. CASE c # None /\ f \in s.ClientsWithInput
  <2>1. c \in s.clients /\ s.fd[c] = f
    BY <1>1, <1>4 DEF Connections
  <2> DEFINE t == [s EXCEPT !.OutputPending = s.OutputPending \cup {f}, !.NewOutputPending = TRUE]
  <2>2. FlushFd(s, f) = t
    BY <1>4, <2>1 DEF FlushFd
  <2> HIDE DEF t
  <2>3. /\ SameData(s, t) /\ t.OutputPending = s.OutputPending \cup {f} /\ t.NewOutputPending = TRUE
        /\ t.AllClients = s.AllClients /\ t.ClientsWithInput = s.ClientsWithInput
        /\ t.ClientsWriteBlocked = s.ClientsWriteBlocked
        /\ t.AnyClientsWriteBlocked = s.AnyClientsWriteBlocked
    BY <1>1 DEF States, SameData, t
  <2>4. Remembered(t, left)
    <3>1. \A d \in s.trans_conn : Buf(t, d) = Buf(s, d)
      BY <2>3 DEF Buf, SameData
    <3> QED BY <1>1, <2>3, <3>1 DEF Remembered, SameData
  <2>5. \A g \in Masks(t) : s.ConnectionTranslation[g] # None
    BY <1>4, <2>3, MasksHaveClients DEF Masks
  <2>6. Good(r, t, left)
    BY <2>3, <2>4, <2>5, MasksChange
  <2>7. SameConnections(s, t)
    BY <2>3 DEF SameData, SameConnections
  <2> QED BY <2>2, <2>6, <2>7
<1>5. CASE c # None /\ f \notin s.ClientsWithInput
  <2>1. c \in s.clients /\ s.fd[c] = f
    BY <1>1, <1>5 DEF Connections
  <2> DEFINE t == FlushClient(s, c, <<>>)
  <2>2. FlushFd(s, f) = t
    BY <1>5, <2>1 DEF FlushFd
  <2>3. <<>> \in Seq(Units)
    BY EmptySeq
  <2>4. ToFlush(r, s, c, <<>>, left)
    <3> HIDE DEF c
    <3> QED BY <1>1, <2>1, <2>3 DEF ToFlush
  <2>5. Flushes(s, t, c) /\ Good(r, t, left)
    <3> HIDE DEF c
    <3> QED BY <2>4, FlushClientKeeps
  <2> HIDE DEF t
  <2>6. SameConnections(s, t)
    BY <2>5 DEF Flushes, SameConnections
  <2> QED BY <2>2, <2>5, <2>6
<1> QED BY <1>3, <1>4, <1>5

LEMMA SameConnectionsAfter ==
    ASSUME NEW s, NEW t, NEW u, SameConnections(s, t), SameConnections(t, u)
    PROVE  SameConnections(s, u)
  BY DEF SameConnections

FlushLoop(g, m, mask, s) ==
    g = [f \in 0 .. m |-> IF f = 0 THEN s
                          ELSE IF f \in mask THEN FlushFd(g[f - 1], f) ELSE g[f - 1]]

(* The descriptors up to m have been done.                                 *)
FlushedTo(r, s, mask, t, m) ==
    Good(r, t, {f \in mask : f > m}) /\ SameConnections(s, t)

LEMMA FlushLoopKeeps ==
    ASSUME NEW r, NEW s, NEW mask, mask \subseteq Fds, Good(r, s, mask)
    PROVE  LET t == ForEach(FlushFd, mask, s)
           IN Good(r, t, {}) /\ SameConnections(s, t)
<1> DEFINE N == Cardinality(Fds)
           Done(m) == /\ \E g : FlushLoop(g, m, mask, s)
                      /\ \A g : FlushLoop(g, m, mask, s) => FlushedTo(r, s, mask, g[m], m)
           T == {m \in 0 .. N : Done(m)}
<1>1. N \in Nat /\ Fds = 1 .. N /\ \A f \in mask : f \in Nat /\ f > 0 /\ f <= N
  <2>1. N \in Nat /\ Fds = 1 .. N
    BY ConstantFacts
  <2> HIDE DEF N
  <2> QED BY <2>1
<1> HIDE DEF N
<1>2. Done(0)
  <2>1. FlushLoop([f \in 0 .. 0 |-> s], 0, mask, s)
    BY DEF FlushLoop
  <2>2. ASSUME NEW g, FlushLoop(g, 0, mask, s) PROVE FlushedTo(r, s, mask, g[0], 0)
    <3>1. g[0] = s
      BY <2>2 DEF FlushLoop
    <3>2. {f \in mask : f > 0} = mask
      BY <1>1
    <3> QED BY <3>1, <3>2 DEF FlushedTo, SameConnections
  <2> QED BY <2>1, <2>2
<1>3. ASSUME NEW m \in 1 .. N, Done(m - 1) PROVE Done(m)
  <2>1. \E g : FlushLoop(g, m, mask, s)
    <3>1. PICK g : FlushLoop(g, m - 1, mask, s)
      BY <1>3
    <3> DEFINE h == [f \in 0 .. m |-> IF f = 0 THEN s
                                      ELSE IF f \in mask THEN FlushFd(g[f - 1], f) ELSE g[f - 1]]
    <3>2. \A f \in 0 .. m - 1 : h[f] = g[f]
      BY <1>1, <1>3, <3>1 DEF FlushLoop
    <3>3. \A f \in 0 .. m : f # 0 => f - 1 \in 0 .. m - 1
      BY <1>1, <1>3
    <3>4. FlushLoop(h, m, mask, s)
      BY <3>2, <3>3 DEF FlushLoop
    <3> QED BY <3>4
  <2>2. ASSUME NEW g, FlushLoop(g, m, mask, s) PROVE FlushedTo(r, s, mask, g[m], m)
    <3> DEFINE h == [f \in 0 .. m - 1 |-> g[f]]
    <3>1. FlushLoop(h, m - 1, mask, s) /\ h[m - 1] = g[m - 1]
      <4>1. \A f \in 0 .. m - 1 : f \in 0 .. m /\ (f # 0 => f - 1 \in 0 .. m - 1)
        BY <1>1, <1>3
      <4>2. m - 1 \in 0 .. m - 1
        BY <1>1, <1>3
      <4> QED BY <2>2, <4>1, <4>2 DEF FlushLoop
    <3>2. FlushedTo(r, s, mask, g[m - 1], m - 1)
      BY <1>3, <3>1
    <3>3. g[m] = IF m \in mask THEN FlushFd(g[m - 1], m) ELSE g[m - 1]
      BY <1>1, <1>3, <2>2 DEF FlushLoop
    <3> DEFINE left == {f \in mask : f > m}
               before == g[m - 1]
    <3>4. CASE m \in mask
      <4>1. {f \in mask : f > m - 1} = left \cup {m}
        <5>1. \A f \in mask : f > m - 1 <=> f > m \/ f = m
          BY <1>1
        <5> QED BY <3>4, <5>1
      <4> HIDE DEF left, before
      <4>2. Good(r, before, left \cup {m}) /\ SameConnections(s, before) /\ m \in Fds
        BY <3>2, <3>4, <4>1 DEF FlushedTo, before
      <4>3. Good(r, FlushFd(before, m), left) /\ SameConnections(before, FlushFd(before, m))
        BY <4>2, FlushFdKeeps
      <4>4. SameConnections(s, FlushFd(before, m))
        BY <4>2, <4>3, SameConnectionsAfter
      <4> QED BY <3>3, <3>4, <4>3, <4>4 DEF FlushedTo, left, before
    <3>5. CASE m \notin mask
      <4>1. {f \in mask : f > m - 1} = left
        <5>1. \A f \in mask : f > m - 1 <=> f > m
          BY <1>1, <3>5
        <5> QED BY <5>1
      <4> QED BY <3>2, <3>3, <3>5, <4>1 DEF FlushedTo
    <3> QED BY <3>4, <3>5
  <2> QED BY <2>1, <2>2
<1> HIDE DEF Done
<1>4. N \in T
  <2>1. T \subseteq 0 .. N /\ 0 \in T /\ \A m \in 1 .. N : m - 1 \in T => m \in T
    BY <1>1, <1>2, <1>3
  <2> HIDE DEF T
  <2> QED BY <1>1, <2>1, StepByStep
<1> DEFINE after == CHOOSE g : FlushLoop(g, N, mask, s)
<1>5. ForEach(FlushFd, mask, s) = after[N]
  BY DEF ForEach, N, FlushLoop
<1>6. FlushLoop(after, N, mask, s) /\ Done(N)
  BY <1>4 DEF Done
<1>7. FlushedTo(r, s, mask, after[N], N)
  <2> HIDE DEF after
  <2> QED BY <1>6 DEF Done
<1>8. {f \in mask : f > N} = {}
  <2>1. \A f \in mask : ~(f > N)
    BY <1>1
  <2> QED BY <2>1
<1> HIDE DEF after
<1> QED BY <1>5, <1>7, <1>8 DEF FlushedTo

LEMMA FlushAllOutputKeeps ==
    ASSUME NEW r, NEW s, Good(r, s, {})
    PROVE  LET t == FlushAllOutput(s) IN Good(r, t, {}) /\ SameConnections(s, t)
<1>1. s \in States /\ Remembered(s, {}) /\ \A f \in Masks(s) : s.ConnectionTranslation[f] # None
  BY MasksHaveClients
<1>2. CASE ~s.NewOutputPending
  BY <1>2 DEF FlushAllOutput, SameConnections
<1>3. CASE s.NewOutputPending
  <2> DEFINE u == [s EXCEPT !.NewOutputPending = FALSE, !.OutputPending = {}]
             mask == s.OutputPending
  <2>1. /\ SameData(s, u) /\ u.OutputPending = {} /\ u.AllClients = s.AllClients
        /\ u.ClientsWithInput = s.ClientsWithInput
        /\ u.ClientsWriteBlocked = s.ClientsWriteBlocked
        /\ u.AnyClientsWriteBlocked = s.AnyClientsWriteBlocked
    BY <1>1 DEF SameData, States
  <2> HIDE DEF u
  <2>2. Remembered(u, mask)
    <3>1. \A c \in s.trans_conn : Buf(u, c) = Buf(s, c)
      BY <2>1 DEF Buf, SameData
    <3> QED BY <1>1, <2>1, <3>1 DEF Remembered, SameData
  <2>3. \A f \in Masks(u) : s.ConnectionTranslation[f] # None
    BY <1>1, <2>1 DEF Masks
  <2>4. mask \subseteq Fds
    BY <1>1 DEF States
  <2>5. Good(r, u, mask)
    BY <2>1, <2>2, <2>3, MasksChange
  <2> DEFINE t == ForEach(FlushFd, mask, u)
  <2>6. FlushAllOutput(s) = t
    BY <1>3 DEF FlushAllOutput, u
  <2> HIDE DEF mask
  <2>7. Good(r, t, {}) /\ SameConnections(u, t)
    BY <2>4, <2>5, FlushLoopKeeps
  <2> HIDE DEF t
  <2>8. SameConnections(s, t)
    BY <2>1, <2>7 DEF SameConnections, SameData
  <2> QED BY <2>6, <2>7, <2>8
<1> QED BY <1>2, <1>3

---------------------------------------------------------------------------
(* A client is closed.                                                     *)

(* What closing c does to the connections.                                 *)
Closed(s, t, c) ==
    /\ t.clients = s.clients \ {c} /\ t.fd = s.fd /\ t.trans_conn \subseteq s.trans_conn
    /\ t.ConnectionTranslation = [s.ConnectionTranslation EXCEPT ![s.fd[c]] = None]
    /\ t.AllClients = s.AllClients \ {s.fd[c]}

LEMMA ForgottenKeeps ==
    ASSUME NEW r, NEW s, NEW left, Good(r, s, left), NEW c \in s.clients
    PROVE  LET t == [FreedOutput(ClosedMasks(s, s.fd[c]), c)
                       EXCEPT !.trans_conn = @ \ {c}, !.clients = @ \ {c}]
           IN Good(r, t, left) /\ Closed(s, t, c)
<1> DEFINE f == s.fd[c]
           m == ClosedMasks(s, f)
           w == FreedOutput(m, c)
           t == [w EXCEPT !.trans_conn = @ \ {c}, !.clients = @ \ {c}]
           free == IF s.FreeOutputs = <<>> /\ s.output[c] # None
                   THEN <<Emptied(s.output[c])>> ELSE s.FreeOutputs
<1>1. /\ r \in [Clients -> Seq(Units)] /\ s \in States /\ Sizes(s) /\ FreeEmptied(s)
      /\ Connections(s) /\ Fresh(r, s) /\ Remembered(s, left)
      /\ \A d \in Clients : StreamOf(r, s, d, <<>>)
      /\ c \in Clients /\ f \in Fds /\ f # 0 /\ s.trans_conn \subseteq s.clients
      /\ s.ConnectionTranslation[f] = c /\ c # None
      /\ s.output \in [Clients -> Buffers \cup {None}] /\ s.FreeOutputs \in Seq(Buffers)
  BY ConstantFacts DEF Good, Kept, States, Connections
<1>2. free \in Seq(Buffers) /\ \A i \in DOMAIN free : free[i].buf = <<>>
  <2>1. CASE s.FreeOutputs = <<>> /\ s.output[c] # None
    <3> DEFINE o == Emptied(s.output[c])
    <3>1. s.output[c] \in Buffers
      BY <1>1, <2>1
    <3>2. o \in Buffers /\ o.buf = <<>>
      <4>1. <<>> \in Seq(Clients \X Nat)
        BY EmptySeq
      <4> QED BY <3>1, <4>1 DEF Emptied, Buffers
    <3> HIDE DEF o
    <3>3. <<o>> \in Seq(Buffers) /\ \A i \in DOMAIN <<o>> : <<o>>[i].buf = <<>>
      BY <3>2
    <3> QED BY <2>1, <3>3 DEF o
  <2>2. CASE ~(s.FreeOutputs = <<>> /\ s.output[c] # None)
    BY <1>1, <2>2 DEF FreeEmptied
  <2> QED BY <2>1, <2>2
<1> HIDE DEF free
<1>3. m = [s EXCEPT !.ConnectionTranslation = [s.ConnectionTranslation EXCEPT ![f] = None],
                    !.AllClients = s.AllClients \ {f},
                    !.ClientsWithInput = s.ClientsWithInput \ {f},
                    !.ClientsWriteBlocked = s.ClientsWriteBlocked \ {f},
                    !.AnyClientsWriteBlocked =
                       s.AnyClientsWriteBlocked /\ s.ClientsWriteBlocked # {f},
                    !.OutputPending = s.OutputPending \ {f}]
  BY <1>1 DEF ClosedMasks, States
<1>4. w = [m EXCEPT !.output = [s.output EXCEPT ![c] = None], !.FreeOutputs = free]
  <2>1. m.output = s.output /\ m.FreeOutputs = s.FreeOutputs
    BY <1>1, <1>3 DEF States
  <2> HIDE DEF m
  <2> QED BY <2>1 DEF FreedOutput, free
<1>5. /\ t.clients = s.clients \ {c} /\ t.fd = s.fd /\ t.trans_conn = s.trans_conn \ {c}
      /\ t.ConnectionTranslation = [s.ConnectionTranslation EXCEPT ![f] = None]
      /\ t.AllClients = s.AllClients \ {f} /\ t.ClientsWithInput = s.ClientsWithInput \ {f}
      /\ t.ClientsWriteBlocked = s.ClientsWriteBlocked \ {f}
      /\ t.AnyClientsWriteBlocked =
           (s.AnyClientsWriteBlocked /\ s.ClientsWriteBlocked # {f})
      /\ t.OutputPending = s.OutputPending \ {f}
      /\ t.NewOutputPending = s.NewOutputPending
      /\ t.output = [s.output EXCEPT ![c] = None] /\ t.FreeOutputs = free
      /\ t.socket = s.socket /\ t.written = s.written
      /\ t \in States
  <2> HIDE DEF m, w
  <2>1. t = [w EXCEPT !.trans_conn = w.trans_conn \ {c}, !.clients = w.clients \ {c}]
    OBVIOUS
  <2> HIDE DEF t
  <2>2. w.trans_conn = s.trans_conn /\ w.clients = s.clients
    BY <1>1, <1>3, <1>4 DEF States
  <2>3. t = [s EXCEPT !.ConnectionTranslation = [s.ConnectionTranslation EXCEPT ![f] = None],
                    !.AllClients = s.AllClients \ {f},
                    !.ClientsWithInput = s.ClientsWithInput \ {f},
                    !.ClientsWriteBlocked = s.ClientsWriteBlocked \ {f},
                    !.AnyClientsWriteBlocked =
                       (s.AnyClientsWriteBlocked /\ s.ClientsWriteBlocked # {f}),
                    !.OutputPending = s.OutputPending \ {f},
                    !.output = [s.output EXCEPT ![c] = None], !.FreeOutputs = free,
                    !.trans_conn = s.trans_conn \ {c}, !.clients = s.clients \ {c}]
    BY <1>1, <1>3, <1>4, <2>1, <2>2 DEF States
  <2>4. /\ [s.ConnectionTranslation EXCEPT ![f] = None] \in [Fds -> Clients \cup {None}]
        /\ [s.output EXCEPT ![c] = None] \in [Clients -> Buffers \cup {None}]
    BY <1>1 DEF States
  <2> QED BY <1>1, <1>2, <2>3, <2>4 DEF States
<1> HIDE DEF t, f
<1>6. Closed(s, t, c)
  BY <1>5 DEF Closed, f
<1>7. /\ t.output[c] = None /\ t.ConnectionTranslation[f] = None
      /\ \A d \in Clients \ {c} : t.output[d] = s.output[d] /\ Buf(t, d) = Buf(s, d)
      /\ \A g \in Fds \ {f} : t.ConnectionTranslation[g] = s.ConnectionTranslation[g]
  BY <1>1, <1>5 DEF States, Buf
<1>8. \A d \in s.clients \ {c} : s.fd[d] # f
  BY <1>1 DEF Connections
<1>9. Sizes(t) /\ FreeEmptied(t)
  BY <1>1, <1>2, <1>5, <1>7 DEF Sizes, FreeEmptied
<1>10. Connections(t)
  <2>1. t.trans_conn \subseteq t.clients
    BY <1>1, <1>5
  <2>2. \A d \in t.clients : t.fd[d] \in Fds /\ t.ConnectionTranslation[t.fd[d]] = d
    BY <1>1, <1>5, <1>7, <1>8 DEF Connections
  <2>3. ASSUME NEW g \in Fds, t.ConnectionTranslation[g] # None
        PROVE  t.ConnectionTranslation[g] \in t.clients /\ t.fd[t.ConnectionTranslation[g]] = g
    <3>1. g # f
      BY <1>7, <2>3
    <3>2. t.ConnectionTranslation[g] = s.ConnectionTranslation[g]
      BY <1>7, <3>1
    <3>3. s.ConnectionTranslation[g] \in s.clients /\ s.fd[s.ConnectionTranslation[g]] = g
      BY <1>1, <2>3, <3>2 DEF Connections
    <3> QED BY <1>5, <3>1, <3>2, <3>3 DEF f
  <2>4. \A g \in t.AllClients \cup t.ClientsWithInput \cup t.ClientsWriteBlocked
                   \cup t.OutputPending : t.ConnectionTranslation[g] # None
    <3>1. \A g \in s.AllClients \cup s.ClientsWithInput \cup s.ClientsWriteBlocked
                   \cup s.OutputPending : g \in Fds /\ s.ConnectionTranslation[g] # None
      BY <1>1 DEF Connections, States
    <3> QED BY <1>5, <1>7, <3>1
  <2>5. \A d \in Clients \ t.clients : t.output[d] = None
    BY <1>1, <1>5, <1>7 DEF Connections
  <2> QED BY <2>1, <2>2, <2>3, <2>4, <2>5 DEF Connections
<1>11. Fresh(r, t)
  BY <1>1, <1>5 DEF Fresh
<1>12. Remembered(t, left)
  <2> SUFFICES ASSUME NEW d \in t.trans_conn, Buf(t, d) # <<>>
               PROVE  \/ t.NewOutputPending /\ t.fd[d] \in t.OutputPending
                      \/ t.AnyClientsWriteBlocked /\ t.fd[d] \in t.ClientsWriteBlocked
                      \/ t.fd[d] \in left
    BY DEF Remembered
  <2>1. d \in s.trans_conn /\ d # c /\ d \in Clients /\ s.fd[d] # f
    BY <1>1, <1>5, <1>8 DEF States
  <2>2. Buf(s, d) # <<>>
    BY <1>7, <2>1
  <2>3. \/ s.NewOutputPending /\ s.fd[d] \in s.OutputPending
        \/ s.AnyClientsWriteBlocked /\ s.fd[d] \in s.ClientsWriteBlocked
        \/ s.fd[d] \in left
    BY <1>1, <2>1, <2>2 DEF Remembered
  <2> QED BY <1>5, <2>1, <2>3
<1>13. ASSUME NEW d \in Clients PROVE StreamOf(r, t, d, <<>>)
  <2>1. StreamOf(r, s, d, <<>>)
    BY <1>1
  <2>2. CASE d = c
    <3>1. Delivered(r, t, c) = Delivered(r, s, c) /\ c \notin t.trans_conn /\ t.written = s.written
      BY <1>5 DEF Delivered
    <3>2. Buf(s, c) \o <<>> \in Seq(Units)
      BY <1>1, BufFacts, ConcatEmptySeq
    <3> QED BY <2>1, <2>2, <3>1, <3>2 DEF StreamOf
  <2>3. CASE d # c
    BY <1>5, <1>7, <2>1, <2>3 DEF StreamOf, Delivered
  <2> QED BY <2>2, <2>3
<1>14. Good(r, t, left)
  BY <1>1, <1>5, <1>9, <1>10, <1>11, <1>12, <1>13 DEF Good, Kept
<1> QED BY <1>6, <1>14 DEF t, f

LEMMA CloseDownConnectionKeeps ==
    ASSUME NEW r, NEW s, NEW left, Good(r, s, left), NEW c \in s.clients
    PROVE  LET t == CloseDownConnection(s, c) IN Good(r, t, left) /\ Closed(s, t, c)
<1> DEFINE u == IF s.output[c] # None /\ s.output[c].buf # <<>>
                THEN FlushClient(s, c, <<>>) ELSE s
           t == CloseDownConnection(s, c)
<1>1. t = [FreedOutput(ClosedMasks(u, u.fd[c]), c)
             EXCEPT !.trans_conn = @ \ {c}, !.clients = @ \ {c}]
  BY DEF CloseDownConnection
<1>2. Good(r, u, left) /\ SameConnections(s, u)
  <2>1. ToFlush(r, s, c, <<>>, left)
    <3>1. <<>> \in Seq(Units)
      BY EmptySeq
    <3>2. Remembered(s, left \cup {s.fd[c]})
      BY DEF Good, Remembered
    <3>3. s.clients \subseteq Clients
      BY DEF Good, Kept, States
    <3> QED BY <3>1, <3>2, <3>3 DEF Good, ToFlush
  <2> DEFINE v == FlushClient(s, c, <<>>)
  <2>2. Flushes(s, v, c) /\ Good(r, v, left)
    BY <2>1, FlushClientKeeps
  <2> HIDE DEF v
  <2>3. SameConnections(s, v) /\ SameConnections(s, s)
    BY <2>2 DEF Flushes, SameConnections
  <2> QED BY <2>2, <2>3 DEF v
<1> HIDE DEF u, t
<1>3. c \in u.clients
  BY <1>2 DEF SameConnections
<1>4. Good(r, t, left) /\ Closed(u, t, c)
  BY <1>1, <1>2, <1>3, ForgottenKeeps
<1>5. Closed(s, t, c)
  BY <1>2, <1>4 DEF Closed, SameConnections
<1> QED BY <1>4, <1>5 DEF t

(* CloseDownClient tells the others.                                       *)
Tell(t, f, c, told) ==
    LET d == t.ConnectionTranslation[f]
    IN IF d \in (told \cap t.clients) \ {c} /\ t.written[d] < MaxWritten[d]
       THEN WriteToClient(t, d, 1) ELSE t

LEMMA TellKeeps ==
    ASSUME NEW r, NEW s, NEW left, NEW f \in Fds, NEW c, NEW told, Good(r, s, left)
    PROVE  LET t == Tell(s, f, c, told) IN Good(r, t, left) /\ SameConnections(s, t)
<1> DEFINE d == s.ConnectionTranslation[f]
<1>1. CASE d \in (told \cap s.clients) \ {c} /\ s.written[d] < MaxWritten[d]
  <2>1. s.written[d] + 1 <= MaxWritten[d]
    <3>1. s.written[d] \in Nat /\ MaxWritten[d] \in Nat
      BY <1>1, ConstantFacts DEF Good, Kept, States
    <3> QED BY <1>1, <3>1
  <2> HIDE DEF d
  <2> DEFINE t == WriteToClient(s, d, 1)
  <2>2. Good(r, t, left) /\ SameConnections(s, t)
    BY <1>1, <2>1, WriteToClientKeeps
  <2> HIDE DEF t
  <2> QED BY <1>1, <2>2 DEF Tell, t, d
<1>2. CASE ~(d \in (told \cap s.clients) \ {c} /\ s.written[d] < MaxWritten[d])
  BY <1>2 DEF Tell, SameConnections
<1> QED BY <1>1, <1>2

TellLoop(g, m, s, c, told) ==
    g = [f \in 0 .. m |-> IF f = 0 THEN s
                          ELSE IF f \in Fds THEN Tell(g[f - 1], f, c, told) ELSE g[f - 1]]

Told(r, s, left, t) == Good(r, t, left) /\ SameConnections(s, t)

LEMMA TellLoopKeeps ==
    ASSUME NEW r, NEW s, NEW left, NEW c, NEW told, Good(r, s, left), NEW N \in Nat
    PROVE  /\ \E g : TellLoop(g, N, s, c, told)
           /\ \A g : TellLoop(g, N, s, c, told) => Told(r, s, left, g[N])
<1> DEFINE Done(m) == /\ \E g : TellLoop(g, m, s, c, told)
                      /\ \A g : TellLoop(g, m, s, c, told) => Told(r, s, left, g[m])
           T == {m \in 0 .. N : Done(m)}
<1>1. Done(0)
  <2>1. TellLoop([f \in 0 .. 0 |-> s], 0, s, c, told)
    BY DEF TellLoop
  <2>2. ASSUME NEW g, TellLoop(g, 0, s, c, told) PROVE Told(r, s, left, g[0])
    <3>1. g[0] = s
      BY <2>2 DEF TellLoop
    <3> QED BY <3>1 DEF Told, SameConnections
  <2> QED BY <2>1, <2>2
<1>2. ASSUME NEW m \in 1 .. N, Done(m - 1) PROVE Done(m)
  <2>1. \E g : TellLoop(g, m, s, c, told)
    <3>1. PICK g : TellLoop(g, m - 1, s, c, told)
      BY <1>2
    <3> DEFINE h == [f \in 0 .. m |-> IF f = 0 THEN s
                       ELSE IF f \in Fds THEN Tell(g[f - 1], f, c, told) ELSE g[f - 1]]
    <3>2. \A f \in 0 .. m - 1 : h[f] = g[f]
      BY <1>2, <3>1 DEF TellLoop
    <3>3. \A f \in 0 .. m : f # 0 => f - 1 \in 0 .. m - 1
      BY <1>2
    <3>4. TellLoop(h, m, s, c, told)
      BY <3>2, <3>3 DEF TellLoop
    <3> QED BY <3>4
  <2>2. ASSUME NEW g, TellLoop(g, m, s, c, told) PROVE Told(r, s, left, g[m])
    <3> DEFINE h == [f \in 0 .. m - 1 |-> g[f]]
               before == g[m - 1]
    <3>1. TellLoop(h, m - 1, s, c, told) /\ h[m - 1] = before
      <4>1. \A f \in 0 .. m - 1 : f \in 0 .. m /\ (f # 0 => f - 1 \in 0 .. m - 1)
        BY <1>2
      <4>2. m - 1 \in 0 .. m - 1
        BY <1>2
      <4> QED BY <2>2, <4>1, <4>2 DEF TellLoop
    <3>2. Told(r, s, left, before)
      BY <1>2, <3>1
    <3>3. g[m] = IF m \in Fds THEN Tell(before, m, c, told) ELSE before
      BY <1>2, <2>2 DEF TellLoop
    <3> HIDE DEF before
    <3>4. CASE m \in Fds
      <4> DEFINE now == Tell(before, m, c, told)
      <4>1. Good(r, now, left) /\ SameConnections(before, now)
        BY <3>2, <3>4, TellKeeps DEF Told
      <4> HIDE DEF now
      <4>2. SameConnections(s, now)
        BY <3>2, <4>1, SameConnectionsAfter DEF Told
      <4> QED BY <3>3, <3>4, <4>1, <4>2 DEF Told, now
    <3>5. CASE m \notin Fds
      BY <3>2, <3>3, <3>5
    <3> QED BY <3>4, <3>5
  <2> QED BY <2>1, <2>2
<1> HIDE DEF Done
<1>3. N \in T
  <2>1. T \subseteq 0 .. N /\ 0 \in T /\ \A m \in 1 .. N : m - 1 \in T => m \in T
    BY <1>1, <1>2
  <2> HIDE DEF T
  <2> QED BY <2>1, StepByStep
<1> QED BY <1>3 DEF Done

LEMMA CloseDownClientKeeps ==
    ASSUME NEW r, NEW s, NEW left, Good(r, s, left), NEW c \in s.clients, NEW told
    PROVE  LET t == CloseDownClient(s, c, told) IN Good(r, t, left) /\ Closed(s, t, c)
<1> DEFINE N == Cardinality(Fds)
           after == CHOOSE g : TellLoop(g, N, s, c, told)
           u == after[N]
           t == CloseDownConnection(u, c)
<1>1. CloseDownClient(s, c, told) = t
  BY DEF CloseDownClient, ForEach, TellLoop, Tell
<1>2. N \in Nat
  BY ConstantFacts
<1> HIDE DEF N
<1>3. TellLoop(after, N, s, c, told) /\ \A g : TellLoop(g, N, s, c, told) => Told(r, s, left, g[N])
  BY <1>2, TellLoopKeeps
<1> HIDE DEF after
<1>4. Good(r, u, left) /\ SameConnections(s, u)
  BY <1>3 DEF Told
<1> HIDE DEF u
<1>5. c \in u.clients
  BY <1>4 DEF SameConnections
<1>6. Good(r, t, left) /\ Closed(u, t, c)
  BY <1>4, <1>5, CloseDownConnectionKeeps
<1> HIDE DEF t
<1>7. Closed(s, t, c)
  BY <1>4, <1>6 DEF Closed, SameConnections
<1> QED BY <1>1, <1>6, <1>7

(* CheckConnections: one descriptor.                                       *)
Check(t, f, told) ==
    IF f \in OpenFds(t) THEN t ELSE CloseDownClient(t, t.ConnectionTranslation[f], told)

(* The descriptors after m are still to be tried.                          *)
CheckedTo(r, s, t, m) ==
    Good(r, t, {}) /\ \A f \in s.AllClients : f > m => f \in t.AllClients

LEMMA CheckKeeps ==
    ASSUME NEW r, NEW s, NEW t, NEW m \in Fds, NEW told, CheckedTo(r, s, t, m - 1),
           m \in s.AllClients, \A f \in s.AllClients : f \in Fds
    PROVE  CheckedTo(r, s, Check(t, m, told), m)
<1> DEFINE c == t.ConnectionTranslation[m]
<1>1. m \in Nat /\ \A f \in s.AllClients : f > m => f > m - 1 /\ f # m
  <2>1. Fds \subseteq Nat
    BY ConstantFacts
  <2> QED BY <2>1
<1>2. CASE m \in OpenFds(t)
  BY <1>1, <1>2 DEF CheckedTo, Check
<1>3. CASE m \notin OpenFds(t)
  <2> DEFINE u == CloseDownClient(t, c, told)
  <2>1. m \in t.AllClients
    BY <1>1 DEF CheckedTo
  <2>2. c \in t.clients /\ t.fd[c] = m
    BY <2>1 DEF CheckedTo, Good, Kept, Connections
  <2> HIDE DEF c
  <2>3. Good(r, u, {}) /\ Closed(t, u, c)
    BY <2>2, CloseDownClientKeeps DEF CheckedTo
  <2> HIDE DEF u
  <2>4. CheckedTo(r, s, u, m)
    BY <1>1, <2>2, <2>3 DEF CheckedTo, Closed
  <2> QED BY <1>3, <2>4 DEF Check, u, c
<1> QED BY <1>2, <1>3

CheckLoop(g, m, s, told) ==
    g = [f \in 0 .. m |-> IF f = 0 THEN s
                          ELSE IF f \in s.AllClients THEN Check(g[f - 1], f, told) ELSE g[f - 1]]

LEMMA CheckLoopKeeps ==
    ASSUME NEW r, NEW s, NEW told, Good(r, s, {}), NEW N \in Nat, Fds = 1 .. N
    PROVE  /\ \E g : CheckLoop(g, N, s, told)
           /\ \A g : CheckLoop(g, N, s, told) => CheckedTo(r, s, g[N], N)
<1> DEFINE Done(m) == /\ \E g : CheckLoop(g, m, s, told)
                      /\ \A g : CheckLoop(g, m, s, told) => CheckedTo(r, s, g[m], m)
           T == {m \in 0 .. N : Done(m)}
<1>1. \A f \in s.AllClients : f \in Fds /\ f \in 1 .. N
  BY DEF Good, Kept, States
<1>2. Done(0)
  <2>1. CheckLoop([f \in 0 .. 0 |-> s], 0, s, told)
    BY DEF CheckLoop
  <2>2. ASSUME NEW g, CheckLoop(g, 0, s, told) PROVE CheckedTo(r, s, g[0], 0)
    <3>1. g[0] = s
      BY <2>2 DEF CheckLoop
    <3> QED BY <3>1 DEF CheckedTo
  <2> QED BY <2>1, <2>2
<1>3. ASSUME NEW m \in 1 .. N, Done(m - 1) PROVE Done(m)
  <2>1. \E g : CheckLoop(g, m, s, told)
    <3>1. PICK g : CheckLoop(g, m - 1, s, told)
      BY <1>3
    <3> DEFINE h == [f \in 0 .. m |-> IF f = 0 THEN s
                       ELSE IF f \in s.AllClients THEN Check(g[f - 1], f, told) ELSE g[f - 1]]
    <3>2. \A f \in 0 .. m - 1 : h[f] = g[f]
      BY <1>3, <3>1 DEF CheckLoop
    <3>3. \A f \in 0 .. m : f # 0 => f - 1 \in 0 .. m - 1
      BY <1>3
    <3>4. CheckLoop(h, m, s, told)
      BY <3>2, <3>3 DEF CheckLoop
    <3> QED BY <3>4
  <2>2. ASSUME NEW g, CheckLoop(g, m, s, told) PROVE CheckedTo(r, s, g[m], m)
    <3> DEFINE h == [f \in 0 .. m - 1 |-> g[f]]
               before == g[m - 1]
    <3>1. CheckLoop(h, m - 1, s, told) /\ h[m - 1] = before
      <4>1. \A f \in 0 .. m - 1 : f \in 0 .. m /\ (f # 0 => f - 1 \in 0 .. m - 1)
        BY <1>3
      <4>2. m - 1 \in 0 .. m - 1
        BY <1>3
      <4> QED BY <2>2, <4>1, <4>2 DEF CheckLoop
    <3>2. CheckedTo(r, s, before, m - 1)
      BY <1>3, <3>1
    <3>3. g[m] = IF m \in s.AllClients THEN Check(before, m, told) ELSE before
      BY <1>3, <2>2 DEF CheckLoop
    <3> HIDE DEF before
    <3>4. CASE m \in s.AllClients
      BY <1>1, <3>2, <3>3, <3>4, CheckKeeps
    <3>5. CASE m \notin s.AllClients
      <4>1. \A f \in s.AllClients : f > m => f > m - 1
        BY <1>1
      <4> QED BY <3>2, <3>3, <3>5, <4>1 DEF CheckedTo
    <3> QED BY <3>4, <3>5
  <2> QED BY <2>1, <2>2
<1> HIDE DEF Done
<1>4. N \in T
  <2>1. T \subseteq 0 .. N /\ 0 \in T /\ \A m \in 1 .. N : m - 1 \in T => m \in T
    BY <1>2, <1>3
  <2> HIDE DEF T
  <2> QED BY <2>1, StepByStep
<1> QED BY <1>4 DEF Done

LEMMA CheckConnectionsKeeps ==
    ASSUME NEW r, NEW s, Good(r, s, {}), NEW told
    PROVE  Good(r, CheckConnections(s, told), {})
<1> DEFINE N == Cardinality(Fds)
           after == CHOOSE g : CheckLoop(g, N, s, told)
<1>1. CheckConnections(s, told) = after[N]
  BY DEF CheckConnections, ForEach, CheckLoop, Check
<1>2. N \in Nat /\ Fds = 1 .. N
  BY ConstantFacts
<1> HIDE DEF N
<1>3. CheckLoop(after, N, s, told) /\ \A g : CheckLoop(g, N, s, told) => CheckedTo(r, s, g[N], N)
  BY <1>2, CheckLoopKeeps
<1> HIDE DEF after
<1>4. Good(r, after[N], {})
  BY <1>3 DEF CheckedTo
<1> QED BY <1>1, <1>4

---------------------------------------------------------------------------
(* A new connection.                                                       *)

Kill(t, f, told) ==
    LET c == t.ConnectionTranslation[f]
    IN IF c \in t.clients \cap t.noClientException THEN CloseDownClient(t, c, told) ELSE t

KillLoop(g, m, s, told) ==
    g = [f \in 0 .. m |-> IF f = 0 THEN s
                          ELSE IF f \in Fds THEN Kill(g[f - 1], f, told) ELSE g[f - 1]]

Killed(r, s, t) == Good(r, t, {}) /\ t.fd = s.fd

LEMMA KillKeeps ==
    ASSUME NEW r, NEW s, NEW f, NEW told, Good(r, s, {})
    PROVE  Killed(r, s, Kill(s, f, told))
<1> DEFINE c == s.ConnectionTranslation[f]
           t == CloseDownClient(s, c, told)
<1>1. CASE c \in s.clients \cap s.noClientException
  <2> HIDE DEF c
  <2>1. Good(r, t, {}) /\ Closed(s, t, c)
    BY <1>1, CloseDownClientKeeps
  <2> HIDE DEF t
  <2> QED BY <1>1, <2>1 DEF Kill, Killed, Closed, t, c
<1>2. CASE c \notin s.clients \cap s.noClientException
  BY <1>2 DEF Kill, Killed
<1> QED BY <1>1, <1>2

LEMMA KillLoopKeeps ==
    ASSUME NEW r, NEW s, NEW told, Good(r, s, {}), NEW N \in Nat
    PROVE  /\ \E g : KillLoop(g, N, s, told)
           /\ \A g : KillLoop(g, N, s, told) => Killed(r, s, g[N])
<1> DEFINE Done(m) == /\ \E g : KillLoop(g, m, s, told)
                      /\ \A g : KillLoop(g, m, s, told) => Killed(r, s, g[m])
           T == {m \in 0 .. N : Done(m)}
<1>1. Done(0)
  <2>1. KillLoop([f \in 0 .. 0 |-> s], 0, s, told)
    BY DEF KillLoop
  <2>2. ASSUME NEW g, KillLoop(g, 0, s, told) PROVE Killed(r, s, g[0])
    <3>1. g[0] = s
      BY <2>2 DEF KillLoop
    <3> QED BY <3>1 DEF Killed
  <2> QED BY <2>1, <2>2
<1>2. ASSUME NEW m \in 1 .. N, Done(m - 1) PROVE Done(m)
  <2>1. \E g : KillLoop(g, m, s, told)
    <3>1. PICK g : KillLoop(g, m - 1, s, told)
      BY <1>2
    <3> DEFINE h == [f \in 0 .. m |-> IF f = 0 THEN s
                       ELSE IF f \in Fds THEN Kill(g[f - 1], f, told) ELSE g[f - 1]]
    <3>2. \A f \in 0 .. m - 1 : h[f] = g[f]
      BY <1>2, <3>1 DEF KillLoop
    <3>3. \A f \in 0 .. m : f # 0 => f - 1 \in 0 .. m - 1
      BY <1>2
    <3>4. KillLoop(h, m, s, told)
      BY <3>2, <3>3 DEF KillLoop
    <3> QED BY <3>4
  <2>2. ASSUME NEW g, KillLoop(g, m, s, told) PROVE Killed(r, s, g[m])
    <3> DEFINE h == [f \in 0 .. m - 1 |-> g[f]]
               before == g[m - 1]
    <3>1. KillLoop(h, m - 1, s, told) /\ h[m - 1] = before
      <4>1. \A f \in 0 .. m - 1 : f \in 0 .. m /\ (f # 0 => f - 1 \in 0 .. m - 1)
        BY <1>2
      <4>2. m - 1 \in 0 .. m - 1
        BY <1>2
      <4> QED BY <2>2, <4>1, <4>2 DEF KillLoop
    <3>2. Killed(r, s, before)
      BY <1>2, <3>1
    <3>3. g[m] = IF m \in Fds THEN Kill(before, m, told) ELSE before
      BY <1>2, <2>2 DEF KillLoop
    <3> HIDE DEF before
    <3>4. CASE m \in Fds
      <4> DEFINE now == Kill(before, m, told)
      <4>1. Killed(r, before, now)
        BY <3>2, KillKeeps DEF Killed
      <4> HIDE DEF now
      <4> QED BY <3>2, <3>3, <3>4, <4>1 DEF Killed, now
    <3>5. CASE m \notin Fds
      BY <3>2, <3>3, <3>5
    <3> QED BY <3>4, <3>5
  <2> QED BY <2>1, <2>2
<1> HIDE DEF Done
<1>3. N \in T
  <2>1. T \subseteq 0 .. N /\ 0 \in T /\ \A m \in 1 .. N : m - 1 \in T => m \in T
    BY <1>1, <1>2
  <2> HIDE DEF T
  <2> QED BY <2>1, StepByStep
<1> QED BY <1>3 DEF Done

LEMMA KillStragglersKeeps ==
    ASSUME NEW r, NEW s, Good(r, s, {}), NEW told
    PROVE  Killed(r, s, KillStragglers(s, told))
<1> DEFINE N == Cardinality(Fds)
           after == CHOOSE g : KillLoop(g, N, s, told)
<1>1. KillStragglers(s, told) = after[N]
  BY DEF KillStragglers, ForEach, KillLoop, Kill
<1>2. N \in Nat
  BY ConstantFacts
<1> HIDE DEF N
<1>3. KillLoop(after, N, s, told) /\ \A g : KillLoop(g, N, s, told) => Killed(r, s, g[N])
  BY <1>2, KillLoopKeeps
<1> HIDE DEF after
<1> QED BY <1>1, <1>3

LEMMA EvictedKeeps ==
    ASSUME NEW r, NEW s, Good(r, s, {}), NEW f \in Fds, NEW told
    PROVE  LET t == Evicted(s, f, told)
           IN Killed(r, s, t) /\ t.ConnectionTranslation[f] = None
<1> DEFINE c == s.ConnectionTranslation[f]
           t == CloseDownClient(s, c, told)
<1>1. CASE c \in s.clients
  <2>1. s.fd[c] = f /\ s.ConnectionTranslation \in [Fds -> Clients \cup {None}]
    BY <1>1, ConstantFacts DEF Good, Kept, Connections, States
  <2> HIDE DEF c
  <2>2. Good(r, t, {}) /\ Closed(s, t, c)
    BY <1>1, CloseDownClientKeeps
  <2> HIDE DEF t
  <2>3. t.ConnectionTranslation[f] = None /\ t.fd = s.fd
    BY <2>1, <2>2 DEF Closed
  <2> QED BY <1>1, <2>2, <2>3 DEF Evicted, Killed, t, c
<1>2. CASE c \notin s.clients
  <2>1. c = None
    BY <1>2 DEF Good, Kept, Connections
  <2> QED BY <1>2, <2>1 DEF Evicted, Killed
<1> QED BY <1>1, <1>2

LEMMA AllocNewConnectionKeeps ==
    ASSUME NEW r, NEW s, Good(r, s, {}), NEW c \in Clients, s.fd[c] = 0, NEW f \in Fds,
           s.ConnectionTranslation[f] = None
    PROVE  Good(r, AllocNewConnection(s, c, f), {})
<1> DEFINE t == AllocNewConnection(s, c, f)
<1>1. /\ r \in [Clients -> Seq(Units)] /\ s \in States /\ Sizes(s) /\ FreeEmptied(s)
      /\ Connections(s) /\ Fresh(r, s) /\ Remembered(s, {})
      /\ \A d \in Clients : StreamOf(r, s, d, <<>>)
      /\ c # None /\ f # 0 /\ f \in Nat /\ 0 \notin Fds
      /\ s.trans_conn \subseteq s.clients
  BY ConstantFacts DEF Good, Kept, Connections
<1>2. c \notin s.clients /\ s.output[c] = None
  BY <1>1 DEF Connections
<1>3. /\ t.clients = s.clients \cup {c} /\ t.fd = [s.fd EXCEPT ![c] = f]
      /\ t.trans_conn = s.trans_conn \cup {c}
      /\ t.ConnectionTranslation = [s.ConnectionTranslation EXCEPT ![f] = c]
      /\ t.AllClients = s.AllClients \cup {f} /\ t.ClientsWithInput = s.ClientsWithInput
      /\ t.ClientsWriteBlocked = s.ClientsWriteBlocked
      /\ t.AnyClientsWriteBlocked = s.AnyClientsWriteBlocked
      /\ t.OutputPending = s.OutputPending /\ t.NewOutputPending = s.NewOutputPending
      /\ t.output = s.output /\ t.FreeOutputs = s.FreeOutputs
      /\ t.socket = s.socket /\ t.written = s.written
      /\ t \in States
  BY <1>1 DEF AllocNewConnection, States
<1> HIDE DEF t
<1>4. /\ t.fd[c] = f /\ \A d \in Clients \ {c} : t.fd[d] = s.fd[d]
      /\ t.ConnectionTranslation[f] = c
      /\ \A g \in Fds \ {f} : t.ConnectionTranslation[g] = s.ConnectionTranslation[g]
  BY <1>1, <1>3 DEF States
<1>5. \A d \in s.clients : d \in Clients /\ d # c /\ s.fd[d] # f /\ s.fd[d] \in Fds
  <2>1. \A d \in s.clients : d \in Clients /\ d # None
    BY <1>1, ConstantFacts DEF States
  <2> QED BY <1>1, <1>2, <2>1 DEF Connections
<1>6. Sizes(t) /\ FreeEmptied(t)
  BY <1>1, <1>3 DEF Sizes, FreeEmptied
<1>7. Connections(t)
  <2>1. t.trans_conn \subseteq t.clients
    BY <1>1, <1>3
  <2>2. \A d \in t.clients : t.fd[d] \in Fds /\ t.ConnectionTranslation[t.fd[d]] = d
    <3>1. ASSUME NEW d \in s.clients
          PROVE  t.fd[d] \in Fds /\ t.ConnectionTranslation[t.fd[d]] = d
      <4>1. t.fd[d] = s.fd[d] /\ s.fd[d] \in Fds /\ s.fd[d] # f
        BY <1>4, <1>5
      <4>2. s.ConnectionTranslation[s.fd[d]] = d
        BY <1>1 DEF Connections
      <4> QED BY <1>4, <4>1, <4>2
    <3> QED BY <1>3, <1>4, <3>1
  <2>3. ASSUME NEW g \in Fds, t.ConnectionTranslation[g] # None
        PROVE  t.ConnectionTranslation[g] \in t.clients /\ t.fd[t.ConnectionTranslation[g]] = g
    <3>1. CASE g = f
      BY <1>3, <1>4, <3>1
    <3>2. CASE g # f
      <4>1. t.ConnectionTranslation[g] = s.ConnectionTranslation[g]
        BY <1>4, <3>2
      <4>2. s.ConnectionTranslation[g] \in s.clients /\ s.fd[s.ConnectionTranslation[g]] = g
        BY <1>1, <2>3, <4>1 DEF Connections
      <4> QED BY <1>3, <1>4, <1>5, <4>1, <4>2
    <3> QED BY <3>1, <3>2
  <2>4. \A g \in t.AllClients \cup t.ClientsWithInput \cup t.ClientsWriteBlocked
                   \cup t.OutputPending : t.ConnectionTranslation[g] # None
    <3>1. \A g \in s.AllClients \cup s.ClientsWithInput \cup s.ClientsWriteBlocked
                   \cup s.OutputPending : g \in Fds /\ s.ConnectionTranslation[g] # None
      BY <1>1 DEF Connections, States
    <3> QED BY <1>1, <1>3, <1>4, <3>1
  <2>5. \A d \in Clients \ t.clients : t.output[d] = None
    BY <1>1, <1>3 DEF Connections
  <2> QED BY <2>1, <2>2, <2>3, <2>4, <2>5 DEF Connections
<1>8. Fresh(r, t)
  BY <1>1, <1>3, <1>4 DEF Fresh
<1>9. Remembered(t, {})
  <2> SUFFICES ASSUME NEW d \in t.trans_conn, Buf(t, d) # <<>>
               PROVE  \/ t.NewOutputPending /\ t.fd[d] \in t.OutputPending
                      \/ t.AnyClientsWriteBlocked /\ t.fd[d] \in t.ClientsWriteBlocked
    BY DEF Remembered
  <2>1. Buf(t, c) = <<>>
    BY <1>2, <1>3 DEF Buf
  <2>2. d \in s.trans_conn /\ d \in s.clients
    BY <1>1, <1>3, <2>1
  <2>3. Buf(s, d) # <<>> /\ t.fd[d] = s.fd[d]
    BY <1>3, <1>4, <1>5, <2>2 DEF Buf
  <2> QED BY <1>1, <1>3, <2>2, <2>3 DEF Remembered
<1>10. ASSUME NEW d \in Clients PROVE StreamOf(r, t, d, <<>>)
  <2>1. CASE d = c
    <3>1. r[c] = <<>> /\ t.socket[c] = <<>> /\ t.written[c] = 0 /\ Buf(t, c) = <<>>
      BY <1>1, <1>2, <1>3 DEF Fresh, Buf
    <3>2. <<>> \o (<<>> \o <<>>) = <<>> /\ <<>> \o <<>> = <<>>
      BY EmptySeq, ConcatEmptySeq
    <3>3. All(c, 0) = <<>>
      BY AllFacts
    <3>4. Delivered(r, t, c) = <<>>
      BY <3>1, <3>2 DEF Delivered
    <3>5. c \in t.trans_conn
      BY <1>3
    <3> QED BY <2>1, <3>1, <3>2, <3>3, <3>4, <3>5 DEF StreamOf
  <2>2. CASE d # c
    <3>1. /\ Delivered(r, t, d) = Delivered(r, s, d) /\ Buf(t, d) = Buf(s, d)
          /\ t.written = s.written /\ (d \in t.trans_conn <=> d \in s.trans_conn)
      BY <1>3, <2>2 DEF Delivered, Buf
    <3>2. StreamOf(r, s, d, <<>>)
      BY <1>1
    <3> QED BY <3>1, <3>2 DEF StreamOf
  <2> QED BY <2>1, <2>2
<1> QED BY <1>1, <1>3, <1>6, <1>7, <1>8, <1>9, <1>10 DEF Good, Kept, t

LEMMA EstablishNewConnectionKeeps ==
    ASSUME NEW r, NEW s, Good(r, s, {}), NEW c \in Clients, s.fd[c] = 0, NEW told
    PROVE  Good(r, EstablishNewConnection(s, c, told), {})
<1> DEFINE u == KillStragglers(s, told)
           free == Fds \ OpenFds(u)
           f == CHOOSE g \in free : \A h \in free : g <= h
           v == Evicted(u, f, told)
<1>1. Good(r, u, {}) /\ u.fd[c] = 0
  BY KillStragglersKeeps DEF Killed
<1>2. EstablishNewConnection(s, c, told) =
        IF free = {} THEN u ELSE AllocNewConnection(v, c, f)
  BY DEF EstablishNewConnection
<1> HIDE DEF u
<1>3. CASE free = {}
  BY <1>1, <1>2, <1>3
<1>4. CASE free # {}
  <2>1. f \in Fds
    <3>1. Fds \subseteq Nat
      BY ConstantFacts
    <3>2. free \subseteq Nat
      BY <3>1
    <3> HIDE DEF free
    <3>3. \E g \in free : \A h \in free : g <= h
      BY <1>4, <3>2, LeastExists
    <3>4. f \in free
      BY <3>3
    <3> QED BY <3>4 DEF free
  <2> HIDE DEF f
  <2>2. Killed(r, u, v) /\ v.ConnectionTranslation[f] = None
    BY <1>1, <2>1, EvictedKeeps
  <2> HIDE DEF v
  <2>3. Good(r, v, {}) /\ v.fd[c] = 0
    BY <1>1, <2>2 DEF Killed
  <2>4. Good(r, AllocNewConnection(v, c, f), {})
    BY <2>1, <2>2, <2>3, AllocNewConnectionKeeps
  <2> QED BY <1>2, <1>4, <2>4
<1> QED BY <1>3, <1>4

---------------------------------------------------------------------------
(* select() returns, and the client programs.                              *)

LEMMA UnblockedKeeps ==
    ASSUME NEW r, NEW s, Good(r, s, {})
    PROVE  Good(r, Unblocked(s), {})
<1> DEFINE writable == s.ClientsWriteBlocked \cap Writable(s)
           blocked == s.ClientsWriteBlocked \ writable
           t == [s EXCEPT !.NewOutputPending = TRUE,
                          !.OutputPending = s.OutputPending \cup writable,
                          !.ClientsWriteBlocked = blocked,
                          !.AnyClientsWriteBlocked = (blocked # {})]
<1>1. /\ s \in States /\ Remembered(s, {})
      /\ \A f \in Masks(s) : s.ConnectionTranslation[f] # None
  BY MasksHaveClients
<1>2. CASE ~s.AnyClientsWriteBlocked \/ writable = {}
  BY <1>2 DEF Unblocked
<1>3. CASE ~(~s.AnyClientsWriteBlocked \/ writable = {})
  <2>1. Unblocked(s) = t
    BY <1>3 DEF Unblocked
  <2>2. writable \subseteq s.ClientsWriteBlocked /\ blocked \subseteq s.ClientsWriteBlocked
        /\ s.ClientsWriteBlocked = writable \cup blocked
    OBVIOUS
  <2> HIDE DEF writable, blocked
  <2>3. /\ SameData(s, t) /\ t.NewOutputPending = TRUE
        /\ t.OutputPending = s.OutputPending \cup writable
        /\ t.ClientsWriteBlocked = blocked /\ t.AnyClientsWriteBlocked = (blocked # {})
        /\ t.AllClients = s.AllClients /\ t.ClientsWithInput = s.ClientsWithInput
    BY <1>1, <2>2 DEF SameData, States
  <2> HIDE DEF t
  <2>4. Remembered(t, {})
    <3>1. \A c \in s.trans_conn : Buf(t, c) = Buf(s, c)
      BY <2>3 DEF Buf, SameData
    <3> QED BY <1>1, <2>2, <2>3, <3>1 DEF Remembered, SameData
  <2>5. \A f \in Masks(t) : s.ConnectionTranslation[f] # None
    BY <1>1, <2>2, <2>3 DEF Masks
  <2> QED BY <2>1, <2>3, <2>4, <2>5, MasksChange
<1> QED BY <1>2, <1>3

(* The masks of the input side.                                            *)
LEMMA InputMasksChange ==
    ASSUME NEW r, NEW s, Good(r, s, {}), NEW all, NEW input,
           all \subseteq Fds, input \subseteq Fds,
           \A f \in all \cup input : s.ConnectionTranslation[f] # None
    PROVE  Good(r, [s EXCEPT !.AllClients = all, !.ClientsWithInput = input], {})
<1> DEFINE t == [s EXCEPT !.AllClients = all, !.ClientsWithInput = input]
<1>1. /\ s \in States /\ Remembered(s, {})
      /\ \A f \in Masks(s) : s.ConnectionTranslation[f] # None
  BY MasksHaveClients
<1>2. /\ SameData(s, t) /\ t.AllClients = all /\ t.ClientsWithInput = input
      /\ t.OutputPending = s.OutputPending /\ t.NewOutputPending = s.NewOutputPending
      /\ t.ClientsWriteBlocked = s.ClientsWriteBlocked
      /\ t.AnyClientsWriteBlocked = s.AnyClientsWriteBlocked
  BY <1>1 DEF SameData, States
<1> HIDE DEF t
<1>3. Remembered(t, {})
  <2>1. \A c \in s.trans_conn : Buf(t, c) = Buf(s, c)
    BY <1>2 DEF Buf, SameData
  <2> QED BY <1>1, <1>2, <2>1 DEF Remembered, SameData
<1>4. \A f \in Masks(t) : s.ConnectionTranslation[f] # None
  BY <1>1, <1>2 DEF Masks
<1>5. Good(r, t, {})
  BY <1>2, <1>3, <1>4, MasksChange
<1> QED BY <1>5 DEF t

LEMMA ReadKeeps ==
    ASSUME NEW r, NEW s, Good(r, s, {}), NEW c \in Clients, s.socket[c] # <<>>
    PROVE  Good([r EXCEPT ![c] = Append(@, Head(s.socket[c]))],
                [s EXCEPT !.socket[c] = Tail(@)], {})
<1> DEFINE k == s.socket[c]
           q == [r EXCEPT ![c] = Append(r[c], Head(k))]
           t == [s EXCEPT !.socket = [s.socket EXCEPT ![c] = Tail(k)]]
<1>1. /\ r \in [Clients -> Seq(Units)] /\ s \in States /\ Sizes(s) /\ FreeEmptied(s)
      /\ Connections(s) /\ Fresh(r, s) /\ Remembered(s, {})
      /\ \A d \in Clients : StreamOf(r, s, d, <<>>)
      /\ s.socket \in [Clients -> Seq(Units)]
  BY DEF Good, Kept, States
<1>2. k \in Seq(Units) /\ k # <<>> /\ r[c] \in Seq(Units)
  BY <1>1
<1> HIDE DEF k
<1>3. /\ Head(k) \in Units /\ Tail(k) \in Seq(Units) /\ Len(Tail(k)) <= Len(k)
      /\ Append(r[c], Head(k)) \in Seq(Units)
      /\ Append(r[c], Head(k)) \o Tail(k) = r[c] \o k
  <2> DEFINE rc == r[c]
             h == Head(k)
             l == Tail(k)
  <2>1. h \in Units /\ l \in Seq(Units) /\ Len(l) = Len(k) - 1 /\ rc \in Seq(Units)
        /\ Len(k) \in Nat
    BY <1>2, HeadTailProperties, LenProperties
  <2>2. k = <<h>> \o l
    BY <1>2 DEF k
  <2> HIDE DEF rc, h, l
  <2>3. <<h>> \in Seq(Units)
    BY <2>1
  <2>4. Append(rc, h) = rc \o <<h>> /\ Append(rc, h) \in Seq(Units)
    BY <2>1, AppendIsConcat, AppendProperties
  <2>5. (rc \o <<h>>) \o l = rc \o (<<h>> \o l)
    <3> DEFINE e == <<h>>
    <3>1. e \in Seq(Units)
      BY <2>3
    <3> HIDE DEF e
    <3>2. (rc \o e) \o l = rc \o (e \o l)
      BY ONLY <2>1, <3>1, UnitsAssociate
    <3> QED BY <3>2 DEF e
  <2>6. Len(l) <= Len(k)
    BY <2>1
  <2>7. Append(rc, h) \o l = rc \o k
    BY <2>2, <2>4, <2>5
  <2> QED BY <2>1, <2>4, <2>6, <2>7 DEF rc, h, l
<1>4. /\ t.clients = s.clients /\ t.fd = s.fd /\ t.trans_conn = s.trans_conn
      /\ t.ConnectionTranslation = s.ConnectionTranslation
      /\ t.AllClients = s.AllClients /\ t.ClientsWithInput = s.ClientsWithInput
      /\ t.ClientsWriteBlocked = s.ClientsWriteBlocked
      /\ t.AnyClientsWriteBlocked = s.AnyClientsWriteBlocked
      /\ t.OutputPending = s.OutputPending /\ t.NewOutputPending = s.NewOutputPending
      /\ t.output = s.output /\ t.FreeOutputs = s.FreeOutputs /\ t.written = s.written
      /\ t.socket = [s.socket EXCEPT ![c] = Tail(k)]
      /\ t \in States
  BY <1>1, <1>3 DEF States
<1>5. q \in [Clients -> Seq(Units)] /\ q[c] = Append(r[c], Head(k))
      /\ \A d \in Clients \ {c} : q[d] = r[d]
  BY <1>1, <1>3
<1>6. t = [s EXCEPT !.socket[c] = Tail(@)] /\ q = [r EXCEPT ![c] = Append(@, Head(s.socket[c]))]
  BY <1>1 DEF States, k
<1> HIDE DEF t, q
<1>7. t.socket[c] = Tail(k) /\ \A d \in Clients \ {c} : t.socket[d] = s.socket[d]
  BY <1>1, <1>4
<1>8. Sizes(t) /\ FreeEmptied(t)
  <2>1. Len(t.socket[c]) <= SocketSize
    <3>1. Len(k) <= SocketSize
      BY <1>1 DEF Sizes, k
    <3>2. Len(k) \in Nat /\ Len(Tail(k)) \in Nat /\ SocketSize \in Nat
      BY <1>2, <1>3, LenProperties, ConstantFacts
    <3> QED BY <1>3, <1>7, <3>1, <3>2
  <2> QED BY <1>1, <1>4, <1>7, <2>1 DEF Sizes, FreeEmptied
<1>9. Connections(t) /\ Remembered(t, {})
  BY <1>1, <1>4 DEF Connections, Remembered, Buf
<1>10. Fresh(q, t)
  <2>1. s.fd[c] # 0
    BY <1>1, <1>2 DEF Fresh, k
  <2> QED BY <1>1, <1>4, <1>5, <1>7, <2>1 DEF Fresh
<1>11. ASSUME NEW d \in Clients PROVE StreamOf(q, t, d, <<>>)
  <2>1. Delivered(q, t, d) = Delivered(r, s, d)
    <3>1. CASE d = c
      BY <1>3, <1>5, <1>7, <3>1 DEF Delivered, k
    <3>2. CASE d # c
      BY <1>5, <1>7, <3>2 DEF Delivered
    <3> QED BY <3>1, <3>2
  <2>2. Buf(t, d) = Buf(s, d) /\ t.written = s.written /\ t.trans_conn = s.trans_conn
    BY <1>4 DEF Buf
  <2>3. StreamOf(r, s, d, <<>>)
    BY <1>1
  <2> QED BY <2>1, <2>2, <2>3 DEF StreamOf
<1>12. Good(q, t, {})
  BY <1>4, <1>5, <1>8, <1>9, <1>10, <1>11 DEF Good, Kept
<1> QED BY <1>6, <1>12

---------------------------------------------------------------------------
(* The invariant.                                                          *)

LEMMA InitInv == Init => IInv
<1> SUFFICES ASSUME Init PROVE IInv
  OBVIOUS
<1> DEFINE none == [c \in Clients |-> <<>>]
<1>1. <<>> \in Seq(Units) /\ <<>> \in Seq(Buffers) /\ <<>> \o (<<>> \o <<>>) = <<>>
      /\ <<>> \o <<>> = <<>> /\ Len(<<>>) = 0
  BY EmptySeq, ConcatEmptySeq
<1>2. /\ os.clients = {} /\ os.fd = [c \in Clients |-> 0] /\ os.trans_conn = {}
      /\ os.ConnectionTranslation = [f \in Fds |-> None]
      /\ os.AllClients = {} /\ os.ClientsWithInput = {}
      /\ os.output = [c \in Clients |-> None] /\ os.FreeOutputs = <<>>
      /\ os.OutputPending = {} /\ os.ClientsWriteBlocked = {}
      /\ os.socket = none /\ os.written = [c \in Clients |-> 0]
      /\ received = none
  BY DEF Init
<1>3. os \in States
  <2>1. none \in [Clients -> Seq(Units)]
    BY <1>1
  <2> HIDE DEF none
  <2>2. os.socket \in [Clients -> Seq(Units)] /\ os.FreeOutputs \in Seq(Buffers)
    BY <1>1, <1>2, <2>1
  <2>3. /\ [c \in Clients |-> 0] \in [Clients -> Fds \cup {0}]
        /\ [c \in Clients |-> 0] \in [Clients -> Nat]
        /\ [f \in Fds |-> None] \in [Fds -> Clients \cup {None}]
        /\ [c \in Clients |-> None] \in [Clients -> Buffers \cup {None}]
    OBVIOUS
  <2> QED BY <1>1, <2>1, <2>3 DEF Init, States, none
<1>4. Sizes(os)
  <2>1. \A c \in Clients : SocketSize \in Nat /\ MaxWritten[c] \in Nat
    BY ConstantFacts
  <2>2. \A c \in Clients : Len(os.socket[c]) = 0 /\ os.written[c] = 0 /\ os.output[c] = None
    BY <1>1, <1>2
  <2> QED BY <2>1, <2>2 DEF Sizes
<1>5. FreeEmptied(os) /\ Connections(os) /\ Fresh(received, os) /\ Remembered(os, {})
  BY <1>2 DEF FreeEmptied, Connections, Fresh, Remembered
<1>6. ASSUME NEW c \in Clients PROVE StreamOf(received, os, c, <<>>)
  <2>1. All(c, 0) = <<>>
    BY AllFacts
  <2>2. received[c] = <<>> /\ os.socket[c] = <<>> /\ os.written[c] = 0 /\ c \notin os.trans_conn
    BY <1>2
  <2> QED BY <1>1, <2>1, <2>2 DEF StreamOf, Delivered
<1>7. received \in [Clients -> Seq(Units)]
  BY <1>1, <1>2
<1> QED BY <1>3, <1>4, <1>5, <1>6, <1>7 DEF Init, IInv, Good, Kept

LEMMA ServerInv == IInv /\ Server => IInv'
<1> SUFFICES ASSUME IInv, Server PROVE IInv'
  OBVIOUS
<1>1. Good(received, os, {})
  BY DEF IInv
<1>2. CASE EnterWait
  <2>1. Good(received, FlushAllOutput(os), {})
    BY <1>1, FlushAllOutputKeeps
  <2> QED BY <1>2, <2>1 DEF EnterWait, IInv
<1>3. CASE Select
  <2>1. Good(received, Unblocked(os), {})
    BY <1>1, UnblockedKeeps
  <2> QED BY <1>3, <2>1 DEF Select, IInv
<1>4. ASSUME NEW told \in SUBSET Clients, SelectBadFd(told) PROVE IInv'
  <2>1. Good(received, CheckConnections(os, told), {})
    BY <1>1, CheckConnectionsKeeps
  <2> QED BY <1>4, <2>1 DEF SelectBadFd, IInv
<1>5. ASSUME NEW told \in SUBSET Clients, NEW c \in Clients, Establish(c, told) PROVE IInv'
  <2> DEFINE t == EstablishNewConnection(os, c, told)
  <2>1. Good(received, t, {})
    BY <1>1, <1>5, EstablishNewConnectionKeeps DEF Establish
  <2> HIDE DEF t
  <2>2. Good(received, FlushAllOutput(t), {})
    BY <2>1, FlushAllOutputKeeps
  <2> QED BY <1>5, <2>2 DEF Establish, IInv, t
<1> QED BY <1>2, <1>3, <1>4, <1>5 DEF Server

LEMMA ClientInv ==
    ASSUME IInv, NEW c \in Clients,
           \/ \E n \in 1 .. MaxWritten[c] : Write(c, n)
           \/ \E told \in SUBSET Clients : ReadFailed(c, told) \/ KillClient(c, told)
           \/ Input(c) \/ LastRequest(c) \/ IgnoreClient(c) \/ AttendClient(c)
           \/ ClientReads(c) \/ HangUp(c)
    PROVE  IInv'
<1>1. Good(received, os, {})
  BY DEF IInv
<1>2. /\ os \in States /\ \A f \in Masks(os) : os.ConnectionTranslation[f] # None
      /\ \A d \in os.clients : os.fd[d] \in Fds /\ os.ConnectionTranslation[os.fd[d]] # None
      /\ os.AllClients \subseteq Fds /\ os.ClientsWithInput \subseteq Fds
      /\ os.trans_conn \subseteq os.clients
  <2>1. os \in States /\ Connections(os)
    BY <1>1, MasksHaveClients
  <2> QED BY <1>1, <2>1, MasksHaveClients DEF States, Connections
<1>3. \A f \in os.AllClients \cup os.ClientsWithInput : os.ConnectionTranslation[f] # None
  BY <1>2 DEF Masks
<1>4. ASSUME NEW n \in 1 .. MaxWritten[c], Write(c, n) PROVE IInv'
  <2>1. n \in Nat
    BY ConstantFacts
  <2>2. Good(received, WriteToClient(os, c, n), {})
    BY <1>1, <1>4, <2>1, WriteToClientKeeps DEF Write
  <2> QED BY <1>4, <2>2 DEF Write, IInv
<1>5. ASSUME NEW told \in SUBSET Clients, ReadFailed(c, told) \/ KillClient(c, told) PROVE IInv'
  <2>1. c \in os.clients
    BY <1>5 DEF ReadFailed, ReadFails, KillClient
  <2>2. Good(received, CloseDownClient(os, c, told), {})
    BY <1>1, <2>1, CloseDownClientKeeps
  <2> QED BY <1>5, <2>2 DEF ReadFailed, KillClient, IInv
<1>6. CASE Input(c) \/ LastRequest(c) \/ IgnoreClient(c) \/ AttendClient(c)
  <2>1. c \in os.clients
    BY <1>2, <1>6 DEF Input, LastRequest, IgnoreClient, AttendClient
  <2>2. \E all, input \in SUBSET (os.AllClients \cup os.ClientsWithInput \cup {os.fd[c]}) :
          os' = [os EXCEPT !.AllClients = all, !.ClientsWithInput = input]
    <3>1. os = [os EXCEPT !.AllClients = os.AllClients]
          /\ os = [os EXCEPT !.ClientsWithInput = os.ClientsWithInput]
      BY <1>2 DEF States
    <3>2. CASE Input(c)
      <4>1. os' = [os EXCEPT !.AllClients = os.AllClients,
                             !.ClientsWithInput = os.ClientsWithInput \cup {os.fd[c]}]
        BY <3>1, <3>2 DEF Input
      <4> QED BY <4>1
    <3>3. CASE LastRequest(c)
      <4>1. os' = [os EXCEPT !.AllClients = os.AllClients,
                             !.ClientsWithInput = os.ClientsWithInput \ {os.fd[c]}]
        BY <3>1, <3>3 DEF LastRequest
      <4> QED BY <4>1
    <3>4. CASE IgnoreClient(c)
      <4>1. os' = [os EXCEPT !.AllClients = os.AllClients \ {os.fd[c]},
                             !.ClientsWithInput = os.ClientsWithInput \ {os.fd[c]}]
        BY <3>4 DEF IgnoreClient
      <4> QED BY <4>1
    <3>5. CASE AttendClient(c)
      <4>1. os' = [os EXCEPT !.AllClients = os.AllClients \cup {os.fd[c]},
                             !.ClientsWithInput = os.ClientsWithInput]
        BY <1>2, <3>5 DEF AttendClient, States
      <4> QED BY <4>1
    <3> QED BY <1>6, <3>2, <3>3, <3>4, <3>5
  <2>3. PICK all, input \in SUBSET (os.AllClients \cup os.ClientsWithInput \cup {os.fd[c]}) :
          os' = [os EXCEPT !.AllClients = all, !.ClientsWithInput = input]
    BY <2>2
  <2>4. /\ all \subseteq Fds /\ input \subseteq Fds
        /\ \A f \in all \cup input : os.ConnectionTranslation[f] # None
    BY <1>2, <1>3, <2>1
  <2>5. Good(received, [os EXCEPT !.AllClients = all, !.ClientsWithInput = input], {})
    BY <1>1, <2>4, InputMasksChange
  <2>6. UNCHANGED <<received, gone, queued, pc>>
    BY <1>6 DEF Input, LastRequest, IgnoreClient, AttendClient
  <2> QED BY <2>3, <2>5, <2>6 DEF IInv
<1>7. CASE ClientReads(c)
  <2>1. Good([received EXCEPT ![c] = Append(@, Head(os.socket[c]))],
             [os EXCEPT !.socket[c] = Tail(@)], {})
    BY <1>1, <1>7, ReadKeeps DEF ClientReads
  <2> QED BY <1>7, <2>1 DEF ClientReads, IInv
<1>8. CASE HangUp(c)
  BY <1>8 DEF HangUp, IInv
<1> QED BY <1>4, <1>5, <1>6, <1>7, <1>8

LEMMA NextInv == IInv /\ [Next]_vars => IInv'
<1> SUFFICES ASSUME IInv, [Next]_vars PROVE IInv'
  OBVIOUS
<1>1. CASE UNCHANGED vars
  BY <1>1 DEF vars, IInv
<1>2. CASE Server
  BY <1>2, ServerInv
<1>3. CASE Flush
  <2>1. Good(received, FlushAllOutput(os), {})
    BY FlushAllOutputKeeps DEF IInv
  <2> QED BY <1>3, <2>1 DEF Flush, IInv
<1>4. CASE \E c \in Clients :
             \/ \E n \in 1 .. MaxWritten[c] : Write(c, n)
             \/ \E told \in SUBSET Clients : ReadFailed(c, told) \/ KillClient(c, told)
             \/ Input(c) \/ LastRequest(c) \/ IgnoreClient(c) \/ AttendClient(c)
             \/ ClientReads(c) \/ HangUp(c)
  BY <1>4, ClientInv
<1> QED BY <1>1, <1>2, <1>3, <1>4 DEF Next

LEMMA Invariance == Spec => []IInv
  BY InitInv, NextInv, PTL DEF Spec

---------------------------------------------------------------------------
(* The properties.                                                         *)

LEMMA PrefixOfConcat ==
    ASSUME NEW x \in Seq(Units), NEW y \in Seq(Units)
    PROVE  IsPrefix(x, x \o y)
<1>1. Len(x) \in Nat /\ Len(y) \in Nat /\ Len(x \o y) = Len(x) + Len(y)
  BY LenProperties, ConcatProperties
<1>2. SubSeq(x, 1, Len(x)) = SubSeq(x \o y, 1, Len(x))
  <2>1. CASE Len(x) = 0
    BY <1>1, <2>1, SubSeqEmpty
  <2>2. CASE Len(x) # 0
    <3>1. 1 \in 1 .. Len(x) /\ Len(x) \in 1 .. Len(x)
      BY <1>1, <2>2
    <3> QED BY <3>1, SubSeqOfConcat1
  <2> QED BY <2>1, <2>2
<1>3. Len(x) <= Len(x \o y)
  BY <1>1
<1> QED BY <1>2, <1>3 DEF IsPrefix

(* For any clients, descriptors, sizes of buffers and of sockets: what the *)
(* program at the other end reads is what WriteToClient was given, in that *)
(* order, whoever flushed it and whatever had to wait; of a connection     *)
(* that failed, a beginning of it.                                         *)
THEOREM StreamsIntact == Spec => []StreamIntact
<1>1. IInv => StreamIntact
  <2> SUFFICES ASSUME IInv, NEW c \in Clients
               PROVE  IF c \in os.trans_conn
                      THEN Delivered(received, os, c) \o Buf(os, c) = All(c, os.written[c])
                      ELSE IsPrefix(Delivered(received, os, c), All(c, os.written[c]))
    BY DEF StreamIntact, Delivered, Buf, All
  <2>1. /\ StreamOf(received, os, c, <<>>) /\ Buf(os, c) \in Seq(Units)
        /\ received[c] \in Seq(Units) /\ os.socket[c] \in Seq(Units)
    BY BufFacts DEF IInv, Good, Kept
  <2>2. Delivered(received, os, c) \in Seq(Units)
    BY <2>1, UnitsJoined DEF Delivered
  <2>3. CASE c \in os.trans_conn
    <3>1. Buf(os, c) \o <<>> = Buf(os, c)
      BY <2>1, ConcatEmptySeq
    <3> QED BY <2>1, <2>3, <3>1 DEF StreamOf
  <2>4. CASE c \notin os.trans_conn
    <3>1. PICK rest \in Seq(Units) :
            Delivered(received, os, c) \o rest = All(c, os.written[c])
      BY <2>1, <2>4 DEF StreamOf
    <3>2. IsPrefix(Delivered(received, os, c), Delivered(received, os, c) \o rest)
      BY <2>2, PrefixOfConcat
    <3> QED BY <2>4, <3>1, <3>2
  <2> QED BY <2>3, <2>4
<1> QED BY <1>1, Invariance, PTL

(* Buffered output always has somebody to look for it, and a descriptor    *)
(* has one client, also after a failed write closed it and another         *)
(* connection got its number.                                              *)
THEOREM OutputSafe == Spec => []OutputBuffersInv
<1>1. IInv => TypeOK
  <2> SUFFICES ASSUME IInv PROVE TypeOK
    OBVIOUS
  <2>1. os \in States /\ Sizes(os) /\ Connections(os)
    BY DEF IInv, Good, Kept
  <2>2. \A c \in Clients : os.output[c] # None => os.output[c] \in Buffers
    BY <2>1 DEF States
  <2> QED BY <2>1, <2>2 DEF IInv, TypeOK, States, Sizes, Connections
<1>2. IInv => OutputRemembered
  <2> SUFFICES ASSUME IInv, NEW c \in os.trans_conn,
                      os.output[c] # None, os.output[c].buf # <<>>
               PROVE  \/ os.NewOutputPending /\ os.fd[c] \in os.OutputPending
                      \/ os.AnyClientsWriteBlocked /\ os.fd[c] \in os.ClientsWriteBlocked
    BY DEF OutputRemembered
  <2>1. Remembered(os, {}) /\ Buf(os, c) # <<>>
    BY DEF IInv, Good, Buf
  <2> QED BY <2>1 DEF Remembered
<1>3. IInv => OneClientPerFd
  <2> SUFFICES ASSUME IInv PROVE OneClientPerFd
    OBVIOUS
  <2>1. os \in States /\ Connections(os)
    BY DEF IInv, Good, Kept
  <2>2. \A f \in os.AllClients \cup os.ClientsWithInput \cup os.ClientsWriteBlocked
                   \cup os.OutputPending : f \in Fds /\ os.ConnectionTranslation[f] # None
    BY <2>1 DEF States, Connections
  <2> QED BY <2>1, <2>2 DEF OneClientPerFd, Connections
<1>4. IInv => OutputBuffersInv
  BY <1>1, <1>2, <1>3 DEF OutputBuffersInv
<1> QED BY <1>4, Invariance, PTL

=============================================================================

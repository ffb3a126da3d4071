------------------------ MODULE RequestBuffers_proofs ------------------------
(***************************************************************************)
(* Proofs about the input buffers, for any clients, requests and sizes:    *)
(* requests are executed whole and in order, a buffer has one owner, and   *)
(* the input bit is exact.                                                 *)
(***************************************************************************)
EXTENDS RequestBuffers, SequenceTheorems, FiniteSetTheorems, WellFoundedInduction, TLAPS

(* Numbers, and what is defined by recursion over them.                    *)

NatLess == {ss \in Nat \X Nat : ss[1] < ss[2]}

LEMMA LeastExists ==
    ASSUME NEW T, T \subseteq Nat, T # {}
    PROVE  \E x \in T : \A y \in T : x <= y
<1>1. IsWellFoundedOn(NatLess, Nat)
  BY NatLessThanWellFounded DEF OpToRel, NatLess
<1>2. PICK x \in T : \A y \in T : ~ (<<y, x>> \in NatLess)
  BY <1>1, WFMin
<1>3. ASSUME NEW y \in T PROVE x <= y
  <2>1. y \in Nat /\ x \in Nat
    OBVIOUS
  <2>2. y < x => <<y, x>> \in NatLess
    BY <2>1 DEF NatLess
  <2> QED BY <1>2, <2>1, <2>2
<1> QED BY <1>3

Iterates(X, F, a, n) ==
    \E g \in [0 .. n -> X] : g[0] = a /\ \A i \in 1 .. n : g[i] = F[<<i, g[i - 1]>>]

(* A function can be iterated: the existence of what is defined by          *)
(* recursion over numbers.                                                  *)
LEMMA Recursion ==
    ASSUME NEW X, NEW F \in [Nat \X X -> X], NEW a \in X, NEW n \in Nat
    PROVE  Iterates(X, F, a, n)
<1> DEFINE Good(m) == \E g \in [0 .. m -> X] :
                        g[0] = a /\ \A i \in 1 .. m : g[i] = F[<<i, g[i - 1]>>]
           T == {m \in Nat : ~Good(m)}
<1> SUFFICES ASSUME T # {}
             PROVE  FALSE
  BY DEF Iterates
<1>1. PICK m \in T : \A k \in T : m <= k
  BY LeastExists
<1>2. m # 0
  <2> DEFINE z == [i \in 0 .. 0 |-> a]
  <2>1. z \in [0 .. 0 -> X] /\ z[0] = a
    OBVIOUS
  <2>2. \A i \in 1 .. 0 : FALSE
    OBVIOUS
  <2>3. Good(0)
    <3> HIDE DEF z
    <3> QED BY <2>1, <2>2
  <2> QED BY <1>1, <2>3
<1>3. PICK g \in [0 .. m - 1 -> X] :
         g[0] = a /\ \A i \in 1 .. m - 1 : g[i] = F[<<i, g[i - 1]>>]
  <2>1. m - 1 \in Nat /\ ~(m <= m - 1)
    BY <1>1, <1>2
  <2>2. m - 1 \notin T
    BY <1>1, <2>1
  <2>3. Good(m - 1)
    BY <2>1, <2>2
  <2> QED BY <2>3
<1> DEFINE h == [i \in 0 .. m |-> IF i = m THEN F[<<m, g[m - 1]>>] ELSE g[i]]
<1>4. g[m - 1] \in X /\ m - 1 \in 0 .. m
  BY <1>1, <1>2
<1>5. F[<<m, g[m - 1]>>] \in X
  BY <1>1, <1>4
<1>6. h \in [0 .. m -> X]
  <2>1. \A i \in 0 .. m : i # m => i \in 0 .. m - 1
    BY <1>1
  <2> QED BY <1>5, <2>1
<1>7. h[0] = a
  BY <1>1, <1>2, <1>3
<1>8. ASSUME NEW i \in 1 .. m
      PROVE  h[i] = F[<<i, h[i - 1]>>]
  <2>1. h[i - 1] = g[i - 1]
    BY <1>1
  <2>2. CASE i = m
    BY <2>1, <2>2
  <2>3. CASE i # m
    <3>1. i \in 1 .. m - 1
      BY <1>1, <2>3
    <3>2. h[i] = g[i]
      BY <2>3
    <3> QED BY <1>3, <2>1, <3>1, <3>2
  <2> QED BY <2>2, <2>3
<1>9. Good(m)
  BY <1>6, <1>7, <1>8
<1> QED BY <1>1, <1>9

(* FlattenSeq is what its recursive function computes.                     *)
Flattens(S, ss) ==
    \E g \in [1 .. Len(ss) -> Seq(S)] :
        /\ FlattenSeq(ss) = g[Len(ss)] /\ g[1] = ss[1]
        /\ \A i \in 2 .. Len(ss) : g[i] = g[i - 1] \o ss[i]

LEMMA FlattenSeqFunction ==
    ASSUME NEW S, NEW ss \in Seq(Seq(S)), ss # <<>>
    PROVE  Flattens(S, ss)
<1> DEFINE n == Len(ss)
           F == [p \in Nat \X Seq(S) |->
                   IF p[1] + 1 \in 1 .. n THEN p[2] \o ss[p[1] + 1] ELSE p[2]]
<1>1. n \in Nat \ {0} /\ \A i \in 1 .. n : ss[i] \in Seq(S)
  BY EmptySeq, LenProperties
<1>2. F \in [Nat \X Seq(S) -> Seq(S)]
  <2>1. ASSUME NEW p \in Nat \X Seq(S), p[1] + 1 \in 1 .. n
        PROVE  p[2] \o ss[p[1] + 1] \in Seq(S)
    BY <1>1, <2>1, ConcatProperties
  <2> QED BY <2>1
<1>3. PICK h \in [0 .. n - 1 -> Seq(S)] :
         h[0] = ss[1] /\ \A i \in 1 .. n - 1 : h[i] = F[<<i, h[i - 1]>>]
  <2>1. n - 1 \in Nat /\ ss[1] \in Seq(S)
    BY <1>1
  <2> DEFINE X == Seq(S)
             a == ss[1]
             k == n - 1
  <2>2. F \in [Nat \X X -> X] /\ a \in X /\ k \in Nat
    BY <1>2, <2>1
  <2> HIDE DEF F, n, X, a, k
  <2>3. Iterates(X, F, a, k)
    BY <2>2, Recursion
  <2> QED BY <2>3 DEF X, a, k, Iterates
<1> DEFINE g == [i \in 1 .. n |-> h[i - 1]]
<1>4. \A i \in 2 .. n : g[i] = g[i - 1] \o ss[i]
  <2> SUFFICES ASSUME NEW i \in 2 .. n
               PROVE  g[i] = g[i - 1] \o ss[i]
    OBVIOUS
  <2>1. i - 1 \in 1 .. n - 1 /\ i - 1 - 1 \in 0 .. n - 1 /\ i \in 1 .. n /\ i - 1 \in 1 .. n
    BY <1>1
  <2>2. h[i - 1] = F[<<i - 1, h[i - 1 - 1]>>]
    <3> HIDE DEF F, n
    <3> QED BY <1>3, <2>1
  <2>3. <<i - 1, h[i - 1 - 1]>> \in Nat \X Seq(S)
    <3>1. i - 1 \in Nat
      OBVIOUS
    <3>2. h[i - 1 - 1] \in Seq(S)
      <4> HIDE DEF n
      <4> QED BY <1>3, <2>1
    <3> QED BY <3>1, <3>2
  <2>5. i - 1 + 1 = i
    BY <2>1
  <2>4. F[<<i - 1, h[i - 1 - 1]>>] = h[i - 1 - 1] \o ss[i]
    <3> DEFINE p == <<i - 1, h[i - 1 - 1]>>
    <3>1. F[p] = IF p[1] + 1 \in 1 .. n THEN p[2] \o ss[p[1] + 1] ELSE p[2]
      <4> HIDE DEF p, n
      <4> QED BY <2>3 DEF p
    <3>2. p[1] = i - 1 /\ p[2] = h[i - 1 - 1]
      OBVIOUS
    <3> HIDE DEF p, F, n
    <3>3. F[p] = h[i - 1 - 1] \o ss[i]
      BY <2>1, <2>5, <3>1, <3>2
    <3> QED BY <3>3 DEF p
  <2>6. g[i] = h[i - 1] /\ g[i - 1] = h[i - 1 - 1]
    BY <2>1
  <2> HIDE DEF g, F, n
  <2> QED BY <2>2, <2>4, <2>6
<1> DEFINE R(f) == f = [i \in 1 .. n |-> IF i = 1 THEN ss[i] ELSE f[i - 1] \o ss[i]]
           f == CHOOSE f : R(f)
<1>5. R(g)
  <2>1. g[1] = ss[1]
    BY <1>1, <1>3
  <2>2. \A i \in 1 .. n : i # 1 => i \in 2 .. n
    BY <1>1
  <2>3. \A i \in 1 .. n : g[i] = IF i = 1 THEN ss[i] ELSE g[i - 1] \o ss[i]
    BY <1>4, <2>1, <2>2
  <2> HIDE DEF n
  <2> QED BY <2>3
<1>6. R(f)
  BY <1>5
<1>7. FlattenSeq(ss) = f[n]
  BY <1>1 DEF FlattenSeq
<1>8. f[1] = ss[1] /\ \A i \in 2 .. n : f[i] = f[i - 1] \o ss[i]
  <2> HIDE DEF f
  <2>1. \A i \in 1 .. n : f[i] = IF i = 1 THEN ss[i] ELSE f[i - 1] \o ss[i]
    <3> HIDE DEF n
    <3> QED BY <1>6
  <2>2. 1 \in 1 .. n /\ \A i \in 2 .. n : i \in 1 .. n /\ i # 1
    BY <1>1
  <2> HIDE DEF n
  <2> QED BY <2>1, <2>2
<1>9. f = g
  <2> DEFINE T == {i \in 1 .. n : f[i] # g[i]}
  <2>1. CASE T = {}
    <3>1. f = [i \in 1 .. n |-> f[i]]
      <4> HIDE DEF f
      <4> QED BY <1>6
    <3> HIDE DEF f, n
    <3> QED BY <1>1, <2>1, <3>1
  <2>2. CASE T # {}
    <3>1. PICK i \in T : \A j \in T : i <= j
      <4>1. T \subseteq Nat
        BY <1>1
      <4> HIDE DEF T
      <4> QED BY <2>2, <4>1, LeastExists
    <3>2. i # 1
      <4>1. g[1] = h[0] /\ 1 - 1 = 0
        BY <1>1
      <4>2. f[1] = ss[1]
        BY <1>8
      <4> HIDE DEF f, g
      <4> QED BY <3>1, <4>1, <4>2, <1>3
    <3>3. i - 1 \in 1 .. n /\ i \in 2 .. n
      BY <3>2, <1>1
    <3>4. f[i - 1] = g[i - 1]
      <4>1. ~(i <= i - 1)
        BY <3>3, <1>1
      <4> HIDE DEF f, g
      <4> QED BY <3>1, <3>3, <4>1
    <3> HIDE DEF f, g
    <3> QED BY <1>4, <1>8, <3>1, <3>3, <3>4
  <2> QED BY <2>1, <2>2
<1>10. g \in [1 .. n -> Seq(S)]
  BY <1>1, <1>3
<1> HIDE DEF g, f
<1> QED BY <1>7, <1>8, <1>9, <1>10 DEF Flattens

(* One sequence more.                                                      *)
LEMMA FlattenSeqStep ==
    ASSUME NEW S, NEW ss \in Seq(Seq(S)), NEW tt \in Seq(Seq(S)),
           Len(tt) = Len(ss) + 1, \A i \in 1 .. Len(ss) : tt[i] = ss[i]
    PROVE  /\ FlattenSeq(ss) \in Seq(S)
           /\ FlattenSeq(tt) = FlattenSeq(ss) \o tt[Len(tt)]
<1> DEFINE n == Len(ss)
<1>1. n \in Nat /\ Len(tt) \in Nat /\ (ss # <<>> => n # 0) /\ tt # <<>>
  BY EmptySeq, LenProperties
<1>2. PICK g \in [1 .. Len(tt) -> Seq(S)] :
        /\ FlattenSeq(tt) = g[Len(tt)] /\ g[1] = tt[1]
        /\ \A i \in 2 .. Len(tt) : g[i] = g[i - 1] \o tt[i]
  <2>1. Flattens(S, tt)
    BY <1>1, FlattenSeqFunction
  <2> QED BY <2>1 DEF Flattens
<1>3. CASE ss = <<>>
  <2>1. n = 0
    BY <1>3
  <2>2. FlattenSeq(ss) = <<>>
    BY <1>3 DEF FlattenSeq
  <2>3. tt[1] \in Seq(S) /\ <<>> \in Seq(S)
    BY <2>1, ElementOfSeq, EmptySeq
  <2>4. <<>> \o tt[1] = tt[1]
    BY <2>3, ConcatEmptySeq
  <2> QED BY <1>2, <2>1, <2>2, <2>3, <2>4
<1>4. CASE ss # <<>>
  <2>1. PICK h \in [1 .. n -> Seq(S)] :
          /\ FlattenSeq(ss) = h[n] /\ h[1] = ss[1]
          /\ \A i \in 2 .. n : h[i] = h[i - 1] \o ss[i]
    <3>1. Flattens(S, ss)
      BY <1>4, FlattenSeqFunction
    <3> QED BY <3>1 DEF Flattens
  <2> DEFINE T == {i \in 1 .. n : h[i] # g[i]}
  <2>2. T = {}
    <3> SUFFICES ASSUME T # {}
                 PROVE  FALSE
      OBVIOUS
    <3>1. PICK i \in T : \A j \in T : i <= j
      <4>1. T \subseteq Nat
        BY <1>1
      <4> HIDE DEF T
      <4> QED BY <4>1, LeastExists
    <3>2. i # 1
      BY <1>2, <2>1
    <3>3. i - 1 \in 1 .. n /\ i \in 2 .. n /\ i \in 2 .. Len(tt)
      BY <3>2, <1>1
    <3>4. h[i - 1] = g[i - 1]
      <4>1. ~(i <= i - 1)
        BY <3>3, <1>1
      <4> QED BY <3>1, <3>3, <4>1
    <3>5. h[i] = h[i - 1] \o ss[i] /\ g[i] = g[i - 1] \o tt[i] /\ tt[i] = ss[i]
      BY <1>2, <2>1, <3>1, <3>3
    <3> QED BY <3>1, <3>4, <3>5
  <2>3. n \in 1 .. n /\ Len(tt) \in 2 .. Len(tt) /\ Len(tt) - 1 = n
    BY <1>1, <1>4
  <2>4. h[n] = g[n]
    BY <2>2, <2>3
  <2> QED BY <1>2, <2>1, <2>3, <2>4
<1> QED BY <1>3, <1>4
---------------------------------------------------------------------------
(* The invariant.                                                          *)

(* The words of c's connection before its request k; the word that the     *)
(* server makes up comes first.                                            *)
Sent(c, k) == FlattenSeq([i \in 1 .. k |-> RequestWords(c, i)])
Before(c, k) == IF k = 0 THEN 0 ELSE 1 + SetupPrefix + SetupStrings + Len(Sent(c, k - 1))
Length(c, k) == IF k = 0 THEN 1 + SetupPrefix + SetupStrings ELSE Requests[c][k].len
Big(c, k) == k > 0 /\ Requests[c][k].big

(* Word p of c's connection, whatever its length field says in the first.  *)
LongRequest(c) == Word(c, 0, 1, 1 + SetupPrefix + SetupStrings)
IsWord(c, w, p) == IF p = 1 THEN w \in {FakeRequest(c), LongRequest(c)}
                   ELSE w = Stream[c][p - 1]

(* From the n-th word on the buffer holds what follows a words of c's      *)
(* connection, up to the g that were read from the socket.                 *)
Unread(c, o, n, a, g) ==
    /\ Gotnow(o) - n = g + 1 - a
    /\ \A i \in 1 .. Gotnow(o) - n : IsWord(c, At(o, n + i), a + i)

Fits(o) == /\ o.bufptr + o.lenLastReq <= o.bufcnt
           /\ o.bufcnt <= Size(o) /\ Size(o) <= MAXBUFSIZE
Spent(o) == Gotnow(o) = o.lenLastReq

Words == {w \in [client : Clients, req : Nat, at : Nat, len : Nat] :
            w.req <= Len(Requests[w.client])}
ConnectionInputs == [buffer : Seq(Words \cup {None}), bufptr : Nat, bufcnt : Nat,
                     lenLastReq : Nat]

TypeInv ==
    /\ sent \in [Clients -> Nat] /\ got \in [Clients -> Nat]
    /\ \A c \in Clients : sent[c] <= Len(Stream[c]) /\ got[c] <= sent[c]
    /\ hungUp \subseteq Clients
    /\ connected \in [Clients -> {"no", "yes", "closed"}]
    /\ input \in [Clients -> Buffers \cup {None}]
    /\ buf \in [Buffers -> ConnectionInputs] /\ \A b \in Buffers : Fits(buf[b])
    /\ AvailableInput \in Clients \cup {None}
    /\ FreeInputs \in Seq(Buffers)
    /\ ClientsWithInput \subseteq Clients /\ big_requests \subseteq Clients
    /\ current \in [client : Clients, req_len : Nat] \cup {None}
    /\ executed \in [Clients -> Nat]
    /\ \A c \in Clients : executed[c] <= Len(Requests[c]) + 1

FreeSpent == \A i \in DOMAIN FreeInputs : Spent(buf[FreeInputs[i]])

SentInv ==
    \A c \in Clients : \A i \in 1 .. sent[c] :
        Big(c, Stream[c][i].req) => c \in big_requests

Whole(c, k) == k <= Len(Requests[c]) /\ got[c] + 1 >= Before(c, k + 1)

Waiting(c) ==
    /\ IF input[c] = None THEN got[c] + 1 = Before(c, executed[c])
       ELSE Unread(c, buf[input[c]], buf[input[c]].lenLastReq, Before(c, executed[c]), got[c])
    /\ c \in ClientsWithInput <=> Whole(c, executed[c])

(* The request that is executed begins the buffer; of a Big Request the    *)
(* second word is gone.                                                    *)
Begins(c, o, k) ==
    \A i \in 1 .. o.lenLastReq :
        IsWord(c, At(o, i), Before(c, k) + i + IF Big(c, k) /\ i > 1 THEN 1 ELSE 0)

Executed(c) ==
    LET o == buf[input[c]]
        k == executed[c]
    IN /\ input[c] # None /\ k <= Len(Requests[c])
       /\ current.req_len = o.lenLastReq
       /\ Begins(c, o, k)
       /\ IF Current(c) = FakeRequest(c)
          THEN k = 0 /\ o.lenLastReq = 1 + SetupPrefix /\ Unread(c, o, o.lenLastReq, o.lenLastReq, got[c])
          ELSE /\ o.lenLastReq + (IF Big(c, k) THEN 1 ELSE 0) = Length(c, k)
               /\ Unread(c, o, o.lenLastReq, Before(c, k + 1), got[c])
               /\ c \in ClientsWithInput <=> Whole(c, k + 1)

ClientInv(c) ==
    /\ connected[c] = "no" => got[c] = 0 /\ executed[c] = 0 /\ input[c] = None
                              /\ c \notin ClientsWithInput
    /\ connected[c] = "closed" => input[c] = None /\ c \notin ClientsWithInput
    /\ Executing(c) => connected[c] = "yes" /\ Executed(c)
    /\ connected[c] = "yes" /\ ~Executing(c) => Waiting(c)

IInv == TypeInv /\ BuffersNotShared /\ FreeSpent /\ SentInv /\ \A c \in Clients : ClientInv(c)

---------------------------------------------------------------------------
(* The words of a connection.                                              *)

LEMMA RequestFacts ==
    ASSUME NEW c \in Clients, NEW k \in 1 .. Len(Requests[c])
    PROVE  /\ Len(Requests[c]) \in Nat /\ k \in Nat /\ k \in DOMAIN Requests[c]
           /\ Requests[c][k] \in [kind : Kinds, big : BOOLEAN, len : Nat]
           /\ Requests[c][k].kind \in Kinds /\ Requests[c][k].big \in BOOLEAN
           /\ Requests[c][k].len \in Nat
           /\ Requests[c][k].len >= IF Requests[c][k].big THEN 3 ELSE 1
<1>1. Requests[c] \in Seq([kind : Kinds, big : BOOLEAN, len : Nat])
  BY RequestBuffersAssumption
<1>2. Requests[c][k] \in [kind : Kinds, big : BOOLEAN, len : Nat]
  BY <1>1, ElementOfSeq
<1>3. Len(Requests[c]) \in Nat /\ DOMAIN Requests[c] = 1 .. Len(Requests[c])
  BY <1>1, LenProperties
<1> QED BY <1>2, <1>3, RequestBuffersAssumption

LEMMA RequestsLength == \A c \in Clients : Len(Requests[c]) \in Nat
  BY RequestBuffersAssumption, LenProperties

(* Word i of request k as it was sent.                                     *)
Field(c, k, i) ==
    IF k > 0 /\ i = (IF Requests[c][k].big THEN 2 ELSE 1) THEN Requests[c][k].len ELSE 0
RequestWord(c, k, i) == Word(c, k, i, Field(c, k, i))

LEMMA RequestWordType ==
    ASSUME NEW c \in Clients, NEW k \in 0 .. Len(Requests[c]), NEW i \in Nat
    PROVE  /\ RequestWord(c, k, i) \in Words
           /\ RequestWord(c, k, i).client = c /\ RequestWord(c, k, i).req = k
           /\ RequestWord(c, k, i).at = i /\ RequestWord(c, k, i).len = Field(c, k, i)
<1>1. Len(Requests[c]) \in Nat
  BY RequestsLength
<1>2. Field(c, k, i) \in Nat
  <2>1. CASE k = 0
    BY <2>1 DEF Field
  <2>2. CASE k \in 1 .. Len(Requests[c])
    BY <2>2, RequestFacts DEF Field
  <2> QED BY <1>1, <2>1, <2>2
<1> QED BY <1>1, <1>2 DEF RequestWord, Word, Words

LEMMA RequestWordsFacts ==
    ASSUME NEW c \in Clients, NEW k \in 1 .. Len(Requests[c])
    PROVE  /\ RequestWords(c, k) \in Seq(Words)
           /\ Len(RequestWords(c, k)) = Requests[c][k].len
           /\ \A i \in 1 .. Requests[c][k].len : RequestWords(c, k)[i] = RequestWord(c, k, i)
<1> DEFINE n == Requests[c][k].len
<1>1. n \in Nat /\ k \in 0 .. Len(Requests[c]) /\ k > 0
  BY RequestFacts
<1>2. RequestWords(c, k) = [i \in 1 .. n |-> RequestWord(c, k, i)]
  BY <1>1 DEF RequestWords, RequestWord, Field
<1>3. \A i \in 1 .. n : RequestWord(c, k, i) \in Words
  BY <1>1, RequestWordType
<1>4. [i \in 1 .. n |-> RequestWord(c, k, i)] \in [1 .. n -> Words]
  BY <1>3
<1> HIDE DEF n
<1>5. RequestWords(c, k) \in Seq(Words) /\ Len(RequestWords(c, k)) = n
  BY <1>1, <1>2, <1>4
<1> QED BY <1>2, <1>5 DEF n

LEMMA SentStep ==
    ASSUME NEW c \in Clients, NEW k \in 1 .. Len(Requests[c])
    PROVE  /\ Sent(c, k - 1) \in Seq(Words) /\ Sent(c, k) \in Seq(Words)
           /\ Sent(c, k) = Sent(c, k - 1) \o RequestWords(c, k)
<1> DEFINE ws(j) == [i \in 1 .. j |-> RequestWords(c, i)]
<1>1. Len(Requests[c]) \in Nat /\ k \in Nat /\ k - 1 \in Nat
  BY RequestsLength
<1>2. ASSUME NEW j \in Nat, j <= k
      PROVE  ws(j) \in Seq(Seq(Words)) /\ Len(ws(j)) = j
  <2>1. \A i \in 1 .. j : RequestWords(c, i) \in Seq(Words)
    BY <1>1, <1>2, RequestWordsFacts
  <2>2. ws(j) \in [1 .. j -> Seq(Words)]
    BY <2>1
  <2> HIDE DEF ws
  <2> QED BY <2>2
<1>3. ws(k)[k] = RequestWords(c, k) /\ \A i \in 1 .. k - 1 : ws(k)[i] = ws(k - 1)[i]
  BY <1>1
<1> DEFINE ss == ws(k - 1)
           tt == ws(k)
<1>4. ss \in Seq(Seq(Words)) /\ tt \in Seq(Seq(Words)) /\ Len(ss) = k - 1 /\ Len(tt) = k
  BY <1>1, <1>2
<1>5. Sent(c, k - 1) = FlattenSeq(ss) /\ Sent(c, k) = FlattenSeq(tt)
  BY DEF Sent
<1>6. tt[k] = RequestWords(c, k) /\ \A i \in 1 .. k - 1 : tt[i] = ss[i]
  BY <1>3
<1> HIDE DEF ss, tt, ws
<1>7. FlattenSeq(ss) \in Seq(Words) /\ FlattenSeq(tt) = FlattenSeq(ss) \o tt[Len(tt)]
  <2>1. Len(tt) = Len(ss) + 1 /\ \A i \in 1 .. Len(ss) : tt[i] = ss[i]
    BY <1>1, <1>4, <1>6
  <2> QED BY ONLY <1>4, <2>1, FlattenSeqStep
<1>8. RequestWords(c, k) \in Seq(Words)
  BY RequestWordsFacts
<1> QED BY <1>4, <1>5, <1>6, <1>7, <1>8, ConcatProperties

LEMMA NothingSent ==
    ASSUME NEW c \in Clients
    PROVE  Sent(c, 0) = <<>>
<1> DEFINE e == [i \in 1 .. 0 |-> RequestWords(c, i)]
<1>1. e = <<>>
  <2>1. e \in [1 .. 0 -> {}]
    OBVIOUS
  <2>2. e \in Seq({})
    BY <2>1
  <2>3. Len(e) = 0
    BY <2>1, <2>2, LenProperties
  <2> HIDE DEF e
  <2> QED BY <2>2, <2>3, EmptySeq
<1>2. Sent(c, 0) = FlattenSeq(e)
  BY DEF Sent
<1>3. Len(e) = 0
  BY <1>1
<1> HIDE DEF e
<1> QED BY <1>1, <1>2, <1>3 DEF FlattenSeq

LEMMA SentType ==
    ASSUME NEW c \in Clients, NEW k \in 0 .. Len(Requests[c])
    PROVE  Sent(c, k) \in Seq(Words) /\ Len(Sent(c, k)) \in Nat
<1>1. CASE k = 0
  <2>1. Sent(c, 0) = <<>>
    BY NothingSent
  <2>2. <<>> \in Seq(Words) /\ Len(<<>>) \in Nat
    OBVIOUS
  <2>3. Sent(c, k) = <<>>
    BY <1>1, <2>1
  <2> QED BY <2>2, <2>3
<1>2. CASE k \in 1 .. Len(Requests[c])
  BY <1>2, SentStep, LenProperties
<1> QED BY <1>1, <1>2, RequestsLength

(* What was sent before a request is the beginning of all that is sent.    *)
LEMMA SentPrefix ==
    ASSUME NEW c \in Clients, NEW k \in 0 .. Len(Requests[c]), NEW j \in k .. Len(Requests[c])
    PROVE  /\ Len(Sent(c, k)) <= Len(Sent(c, j))
           /\ \A i \in 1 .. Len(Sent(c, k)) : Sent(c, j)[i] = Sent(c, k)[i]
<1> DEFINE n == Len(Requests[c])
           Good(m) == /\ Len(Sent(c, k)) <= Len(Sent(c, m))
                      /\ \A i \in 1 .. Len(Sent(c, k)) : Sent(c, m)[i] = Sent(c, k)[i]
           T == {m \in k .. n : ~Good(m)}
<1>1. n \in Nat
  BY RequestsLength
<1> SUFFICES ASSUME T # {}
             PROVE  FALSE
  BY <1>1
<1>2. T \subseteq Nat
  BY <1>1
<1>3. PICK m \in T : \A i \in T : m <= i
  <2> HIDE DEF T
  <2> QED BY <1>2, LeastExists
<1>4. Sent(c, k) \in Seq(Words) /\ Len(Sent(c, k)) \in Nat
  BY SentType
<1>5. m # k
  BY <1>3, <1>4
<1>6. m \in 1 .. n /\ m - 1 \in k .. n /\ ~(m <= m - 1) /\ m - 1 \in 0 .. n
  BY <1>1, <1>3, <1>5
<1>7. Good(m - 1)
  <2> HIDE DEF Good
  <2> QED BY <1>3, <1>6
<1>8. Sent(c, m) = Sent(c, m - 1) \o RequestWords(c, m)
  BY <1>6, SentStep
<1>9. Sent(c, m - 1) \in Seq(Words) /\ RequestWords(c, m) \in Seq(Words)
  BY <1>6, SentType, RequestWordsFacts
<1>10. Len(Sent(c, m - 1)) \in Nat /\ Len(RequestWords(c, m)) \in Nat
  BY <1>9, LenProperties
<1>11. /\ Len(Sent(c, m)) = Len(Sent(c, m - 1)) + Len(RequestWords(c, m))
       /\ \A i \in 1 .. Len(Sent(c, m - 1)) : Sent(c, m)[i] = Sent(c, m - 1)[i]
  <2>1. \A i \in 1 .. Len(Sent(c, m - 1)) : i \in 1 .. Len(Sent(c, m - 1)) + Len(RequestWords(c, m))
    BY <1>10
  <2> QED BY <1>8, <1>9, <1>10, <2>1, ConcatProperties
<1>12. Good(m)
  <2>1. \A i \in 1 .. Len(Sent(c, k)) : i \in 1 .. Len(Sent(c, m - 1))
    BY <1>4, <1>7, <1>10
  <2> QED BY <1>4, <1>7, <1>10, <1>11, <2>1
<1> QED BY <1>3, <1>12

LEMMA BeforeStep ==
    ASSUME NEW c \in Clients, NEW k \in 0 .. Len(Requests[c])
    PROVE  /\ Before(c, k) \in Nat /\ Before(c, k + 1) \in Nat
           /\ Before(c, k + 1) = Before(c, k) + Length(c, k)
           /\ Length(c, k) \in Nat \ {0} /\ (Big(c, k) => Length(c, k) >= 3)
           /\ (k = 0 => Length(c, k) = 1 + SetupPrefix + SetupStrings)
<1>1. Len(Requests[c]) \in Nat /\ SetupPrefix \in Nat \ {0} /\ SetupStrings \in Nat \ {0}
  BY RequestsLength, RequestBuffersAssumption
<1>2. CASE k = 0
  <2>1. Sent(c, 0) = <<>>
    BY NothingSent
  <2>2. Before(c, 1) = 1 + SetupPrefix + SetupStrings + Len(Sent(c, 0))
    BY DEF Before
  <2> QED BY <1>1, <1>2, <2>1, <2>2 DEF Before, Length, Big
<1>3. CASE k \in 1 .. Len(Requests[c])
  <2>1. Sent(c, k) = Sent(c, k - 1) \o RequestWords(c, k)
    BY <1>3, SentStep
  <2>2. Sent(c, k - 1) \in Seq(Words) /\ RequestWords(c, k) \in Seq(Words)
    BY <1>3, SentStep, RequestWordsFacts
  <2>3. Len(RequestWords(c, k)) = Requests[c][k].len
    BY <1>3, RequestWordsFacts
  <2>4. Len(Sent(c, k)) = Len(Sent(c, k - 1)) + Requests[c][k].len
    <3>1. Len(Sent(c, k - 1) \o RequestWords(c, k))
            = Len(Sent(c, k - 1)) + Len(RequestWords(c, k))
      BY <2>2, ConcatProperties
    <3> QED BY <2>1, <2>3, <3>1
  <2>5. Len(Sent(c, k - 1)) \in Nat
    BY <2>2, LenProperties
  <2>6. Before(c, k) = 1 + SetupPrefix + SetupStrings + Len(Sent(c, k - 1))
    BY <1>3 DEF Before
  <2>7. Before(c, k + 1) = 1 + SetupPrefix + SetupStrings + Len(Sent(c, k))
    <3>1. k + 1 # 0 /\ k + 1 - 1 = k
      BY <1>3
    <3> QED BY <3>1 DEF Before
  <2>8. Length(c, k) = Requests[c][k].len
    BY <1>3 DEF Length
  <2>9. Requests[c][k].len \in Nat /\ Requests[c][k].len >= IF Requests[c][k].big THEN 3 ELSE 1
    BY <1>3, RequestFacts
  <2>10. Before(c, k + 1) = Before(c, k) + Length(c, k) /\ Length(c, k) \in Nat \ {0}
    BY <2>4, <2>5, <2>6, <2>7, <2>8, <2>9, <1>1
  <2>11. Before(c, k) \in Nat /\ Before(c, k + 1) \in Nat
    BY <2>5, <2>6, <2>10, <1>1
  <2>12. Big(c, k) => Length(c, k) >= 3
    BY <2>8, <2>9 DEF Big
  <2> QED BY <1>3, <2>10, <2>11, <2>12
<1> QED BY <1>1, <1>2, <1>3

LEMMA BeforeGrows ==
    ASSUME NEW c \in Clients, NEW k \in 0 .. Len(Requests[c]) + 1,
           NEW j \in k .. Len(Requests[c]) + 1
    PROVE  Before(c, k) \in Nat /\ Before(c, j) \in Nat /\ Before(c, k) <= Before(c, j)
<1>1. Len(Requests[c]) \in Nat /\ SetupPrefix \in Nat /\ SetupStrings \in Nat
  BY RequestsLength, RequestBuffersAssumption
<1>2. \A m \in 1 .. Len(Requests[c]) + 1 : Len(Sent(c, m - 1)) \in Nat
  <2>1. \A m \in 1 .. Len(Requests[c]) + 1 : m - 1 \in 0 .. Len(Requests[c])
    BY <1>1
  <2> QED BY <2>1, SentType
<1>3. CASE k = 0
  BY <1>1, <1>2, <1>3 DEF Before
<1>4. CASE k # 0
  <2>1. k - 1 \in 0 .. Len(Requests[c]) /\ j - 1 \in k - 1 .. Len(Requests[c])
    BY <1>1, <1>4
  <2>2. Len(Sent(c, k - 1)) <= Len(Sent(c, j - 1))
    BY <2>1, SentPrefix
  <2> QED BY <1>1, <1>2, <1>4, <2>1, <2>2 DEF Before
<1> QED BY <1>3, <1>4

(* What comes from the socket.                                             *)
LEMMA StreamFacts ==
    ASSUME NEW c \in Clients
    PROVE  /\ Stream[c] \in Seq(Words)
           /\ Len(Stream[c]) = Before(c, Len(Requests[c]) + 1) - 1
           /\ \A k \in 0 .. Len(Requests[c]) : \A i \in 1 .. Length(c, k) :
                k > 0 \/ i > 1 => Stream[c][Before(c, k) + i - 1] = RequestWord(c, k, i)
<1> DEFINE n == Len(Requests[c])
           setup == [i \in 1 .. SetupPrefix + SetupStrings |-> Word(c, 0, i + 1, 0)]
<1>1. n \in Nat /\ n \in 0 .. n /\ SetupPrefix \in Nat \ {0} /\ SetupStrings \in Nat \ {0}
  BY RequestsLength, RequestBuffersAssumption
<1>2. DOMAIN Requests[c] = 1 .. n
  BY RequestBuffersAssumption, LenProperties
<1>3. Stream[c] = setup \o Sent(c, n)
  BY <1>2 DEF Stream, Sent
<1>4. Sent(c, n) \in Seq(Words) /\ Len(Sent(c, n)) \in Nat
  BY <1>1, SentType
<1>5. \A i \in 1 .. SetupPrefix + SetupStrings :
         Word(c, 0, i + 1, 0) = RequestWord(c, 0, i + 1) /\ RequestWord(c, 0, i + 1) \in Words
  <2>1. \A i \in 1 .. SetupPrefix + SetupStrings : i + 1 \in Nat
    BY <1>1
  <2> QED BY <1>1, <2>1, RequestWordType DEF RequestWord, Field
<1>6. setup \in Seq(Words) /\ Len(setup) = SetupPrefix + SetupStrings
  <2>1. setup \in [1 .. SetupPrefix + SetupStrings -> Words]
    BY <1>5
  <2> HIDE DEF setup
  <2> QED BY <1>1, <2>1
<1>7. Before(c, n + 1) = 1 + SetupPrefix + SetupStrings + Len(Sent(c, n))
  <2>1. n + 1 # 0 /\ n + 1 - 1 = n
    BY <1>1
  <2> QED BY <2>1 DEF Before
<1>8. \A i \in 1 .. SetupPrefix + SetupStrings : setup[i] = RequestWord(c, 0, i + 1)
  BY <1>5
<1> HIDE DEF n, setup
<1>9. /\ Stream[c] \in Seq(Words)
      /\ Len(Stream[c]) = Len(setup) + Len(Sent(c, n))
      /\ \A i \in 1 .. Len(setup) + Len(Sent(c, n)) :
           Stream[c][i] = IF i <= Len(setup) THEN setup[i] ELSE Sent(c, n)[i - Len(setup)]
  BY <1>3, <1>4, <1>6, ConcatProperties
<1>10. ASSUME NEW i \in 1 .. Length(c, 0), i > 1
       PROVE  Stream[c][Before(c, 0) + i - 1] = RequestWord(c, 0, i)
  <2>1. i - 1 \in 1 .. SetupPrefix + SetupStrings /\ Before(c, 0) + i - 1 = i - 1 /\ i - 1 + 1 = i
    BY <1>1, <1>10 DEF Length, Before
  <2>2. i - 1 \in 1 .. Len(setup) + Len(Sent(c, n)) /\ i - 1 <= Len(setup)
    BY <1>1, <1>4, <1>6, <2>1
  <2> QED BY <1>8, <1>9, <2>1, <2>2
<1>11. ASSUME NEW k \in 1 .. n, NEW i \in 1 .. Length(c, k)
       PROVE  Stream[c][Before(c, k) + i - 1] = RequestWord(c, k, i)
  <2>1. Length(c, k) = Requests[c][k].len /\ Length(c, k) \in Nat
    BY <1>11, RequestFacts DEF Length, n
  <2>2. Sent(c, k - 1) \in Seq(Words) /\ RequestWords(c, k) \in Seq(Words)
    BY SentStep, RequestWordsFacts DEF n
  <2>3. Len(Sent(c, k - 1)) \in Nat /\ Len(RequestWords(c, k)) = Length(c, k)
    BY <2>1, <2>2, LenProperties, RequestWordsFacts DEF n
  <2> DEFINE p == Len(Sent(c, k - 1)) + i
  <2>4. p \in 1 .. Len(Sent(c, k - 1)) + Len(RequestWords(c, k)) /\ ~(p <= Len(Sent(c, k - 1)))
        /\ p - Len(Sent(c, k - 1)) = i
    BY <2>1, <2>3
  <2>5. Sent(c, k) = Sent(c, k - 1) \o RequestWords(c, k)
    BY SentStep DEF n
  <2>6. Sent(c, k)[p] = RequestWords(c, k)[i] /\ p \in 1 .. Len(Sent(c, k))
    <3> HIDE DEF p
    <3> QED BY <2>2, <2>4, <2>5, ConcatProperties
  <2>7. k \in 0 .. n /\ n \in k .. n
    BY <1>1
  <2>8. Len(Sent(c, k)) <= Len(Sent(c, n)) /\ Sent(c, n)[p] = Sent(c, k)[p]
    BY <2>6, <2>7, SentPrefix DEF n
  <2>9. Len(Sent(c, k)) \in Nat
    BY <2>7, SentType DEF n
  <2>10. Before(c, k) = 1 + SetupPrefix + SetupStrings + Len(Sent(c, k - 1))
    BY <1>1 DEF Before
  <2> DEFINE q == Before(c, k) + i - 1
  <2>11. q = Len(setup) + p
    BY <1>1, <1>6, <2>3, <2>10
  <2>12. q \in 1 .. Len(setup) + Len(Sent(c, n)) /\ ~(q <= Len(setup)) /\ q - Len(setup) = p
    <3> HIDE DEF p, q
    <3> QED BY <1>1, <1>4, <1>6, <2>6, <2>8, <2>9, <2>11
  <2>13. Stream[c][q] = Sent(c, n)[p]
    <3> HIDE DEF p, q
    <3> QED BY <1>9, <2>12
  <2> QED BY <2>1, <2>6, <2>8, <2>13, RequestWordsFacts DEF n
<1>12. Len(Stream[c]) = Before(c, n + 1) - 1
  BY <1>1, <1>4, <1>6, <1>7, <1>9
<1>13. ASSUME NEW k \in 0 .. n, NEW i \in 1 .. Length(c, k), k > 0 \/ i > 1
       PROVE  Stream[c][Before(c, k) + i - 1] = RequestWord(c, k, i)
  <2>1. k = 0 \/ k \in 1 .. n
    BY <1>1
  <2> QED BY <1>10, <1>11, <1>13, <2>1
<1> QED BY <1>9, <1>12, <1>13 DEF n

(* Every word belongs to a request.                                        *)
LEMMA EveryWord ==
    ASSUME NEW c \in Clients, NEW p \in 1 .. Before(c, Len(Requests[c]) + 1)
    PROVE  \E k \in 0 .. Len(Requests[c]) : \E i \in 1 .. Length(c, k) : p = Before(c, k) + i
<1> DEFINE n == Len(Requests[c])
           T == {m \in 0 .. n : p <= Before(c, m + 1)}
<1>1. n \in Nat /\ T \subseteq Nat
  BY RequestsLength
<1>2. n \in T
  <2>1. n + 1 \in 0 .. n + 1 /\ n + 1 \in n + 1 .. n + 1
    BY <1>1
  <2>2. Before(c, n + 1) \in Nat
    BY <2>1, BeforeGrows
  <2> QED BY <1>1, <2>2
<1>3. PICK k \in T : \A i \in T : k <= i
  <2> HIDE DEF T
  <2> QED BY <1>1, <1>2, LeastExists
<1>4. /\ Before(c, k) \in Nat /\ Before(c, k + 1) = Before(c, k) + Length(c, k)
      /\ Length(c, k) \in Nat
  BY <1>3, BeforeStep
<1>5. Before(c, k) < p
  <2>1. CASE k = 0
    BY <2>1 DEF Before
  <2>2. CASE k # 0
    <3>1. k - 1 \in 0 .. n /\ ~(k <= k - 1) /\ k - 1 + 1 = k
      BY <1>1, <1>3, <2>2
    <3>2. ~(p <= Before(c, k))
      BY <1>3, <3>1
    <3> QED BY <1>4, <3>2
  <2> QED BY <2>1, <2>2
<1>6. p - Before(c, k) \in 1 .. Length(c, k) /\ p = Before(c, k) + (p - Before(c, k))
  BY <1>3, <1>4, <1>5
<1> QED BY <1>3, <1>6

LEMMA WordFacts ==
    ASSUME NEW c \in Clients, NEW k \in 0 .. Len(Requests[c]), NEW i \in 1 .. Length(c, k),
           NEW w, IsWord(c, w, Before(c, k) + i)
    PROVE  /\ w \in Words /\ w # None /\ w.client = c /\ w.req = k /\ w.at = i
           /\ IF k = 0 /\ i = 1 THEN w \in {FakeRequest(c), LongRequest(c)}
              ELSE w = RequestWord(c, k, i) /\ w.len = Field(c, k, i)
<1>1. Before(c, k) \in Nat /\ Length(c, k) \in Nat /\ Len(Requests[c]) \in Nat
  BY BeforeStep, RequestsLength
<1>2. \A v \in Words : v # None
  BY RequestBuffersAssumption DEF Words
<1>3. CASE k = 0 /\ i = 1
  <2>1. Before(c, k) + i = 1
    BY <1>3 DEF Before
  <2>2. w \in {FakeRequest(c), LongRequest(c)}
    BY <2>1 DEF IsWord
  <2>3. SetupPrefix \in Nat /\ SetupStrings \in Nat
    BY RequestBuffersAssumption
  <2>4. w \in Words /\ w.client = c /\ w.req = 0 /\ w.at = 1
    BY <1>1, <2>2, <2>3 DEF FakeRequest, LongRequest, Word, Words
  <2> QED BY <1>2, <1>3, <2>2, <2>4
<1>4. CASE k > 0 \/ i > 1
  <2>1. Before(c, k) + i # 1
    <3>1. CASE i > 1
      BY <1>1, <3>1
    <3>2. CASE k > 0
      <4>1. SetupPrefix \in Nat /\ SetupStrings \in Nat
        BY RequestBuffersAssumption
      <4>2. k - 1 \in 0 .. Len(Requests[c])
        BY <1>1, <3>2
      <4>3. Before(c, k) >= 1
        BY <1>1, <3>2, <4>1, <4>2, SentType DEF Before
      <4> QED BY <1>1, <4>3
    <3> QED BY <1>4, <3>1, <3>2
  <2>2. w = Stream[c][Before(c, k) + i - 1]
    <3>1. ASSUME NEW q, q # 1, IsWord(c, w, q)
          PROVE  w = Stream[c][q - 1]
      BY <3>1 DEF IsWord
    <3> QED BY <1>1, <2>1, <3>1
  <2>3. Stream[c][Before(c, k) + i - 1] = RequestWord(c, k, i)
    BY <1>4, StreamFacts
  <2>4. w = RequestWord(c, k, i)
    BY <2>2, <2>3
  <2>5. ~(k = 0 /\ i = 1)
    BY <1>4
  <2>6. i \in Nat
    BY <1>1
  <2>7. /\ w \in Words /\ w.client = c /\ w.req = k /\ w.at = i /\ w.len = Field(c, k, i)
    BY <2>4, <2>6, RequestWordType
  <2> QED BY <1>2, <2>4, <2>5, <2>7
<1> QED BY <1>1, <1>3, <1>4

(* The words of the requests up to k, the one made up by the server apart. *)
LEMMA EndIsBefore ==
    ASSUME NEW c \in Clients, NEW k \in 0 .. Len(Requests[c])
    PROVE  End(c, k) = Before(c, k + 1) - 1
<1> DEFINE n == Len(Requests[c])
           m == Before(c, k + 1) - 1
<1>1. n \in Nat /\ DOMAIN Stream[c] = 1 .. Before(c, n + 1) - 1
  BY RequestsLength, StreamFacts, LenProperties
<1>2. Before(c, k + 1) \in Nat /\ Before(c, n + 1) \in Nat /\ Before(c, k + 1) <= Before(c, n + 1)
      /\ Before(c, k + 1) >= 1
  <2>1. k + 1 \in 0 .. n + 1 /\ n + 1 \in k + 1 .. n + 1
    BY <1>1
  <2>2. Before(c, k + 1) >= 1
    BY BeforeStep
  <2> QED BY <2>1, <2>2, BeforeGrows
<1>3. ASSUME NEW i \in 1 .. Before(c, n + 1) - 1
      PROVE  Stream[c][i].req <= k <=> i <= m
  <2>1. i + 1 \in 1 .. Before(c, n + 1)
    BY <1>2
  <2>2. PICK j \in 0 .. n : \E h \in 1 .. Length(c, j) : i + 1 = Before(c, j) + h
    BY <2>1, EveryWord
  <2>3. PICK h \in 1 .. Length(c, j) : i + 1 = Before(c, j) + h
    BY <2>2
  <2>4. /\ Before(c, j) \in Nat /\ Before(c, j + 1) \in Nat
        /\ Before(c, j + 1) = Before(c, j) + Length(c, j) /\ Length(c, j) \in Nat
    BY BeforeStep
  <2>5. j > 0 \/ h > 1
    <3>1. j = 0 => Before(c, j) = 0
      BY DEF Before
    <3> QED BY <1>1, <2>3, <2>4, <3>1
  <2>6. Stream[c][Before(c, j) + h - 1] = RequestWord(c, j, h)
    BY <2>5, StreamFacts
  <2>7. Before(c, j) + h - 1 = i /\ h \in Nat
    BY <2>3, <2>4
  <2>8. Stream[c][i].req = j
    BY <2>6, <2>7, RequestWordType
  <2>9. CASE j <= k
    <3>1. j + 1 \in 0 .. n + 1 /\ k + 1 \in j + 1 .. n + 1
      BY <1>1, <2>9
    <3>2. Before(c, j + 1) <= Before(c, k + 1)
      BY <3>1, BeforeGrows
    <3> QED BY <1>2, <2>3, <2>4, <2>8, <2>9, <3>2
  <2>10. CASE j > k
    <3>1. k + 1 \in 0 .. n + 1 /\ j \in k + 1 .. n + 1
      BY <1>1, <2>10
    <3>2. Before(c, k + 1) <= Before(c, j)
      BY <3>1, BeforeGrows
    <3> QED BY <1>1, <1>2, <2>3, <2>4, <2>8, <2>10, <3>2
  <2> QED BY <1>1, <2>9, <2>10
<1>4. {i \in DOMAIN Stream[c] : Stream[c][i].req <= k} = 1 .. m
  BY <1>1, <1>2, <1>3
<1>5. m \in Int /\ Cardinality(1 .. m) = m
  <2>1. 1 \in Int /\ m \in Int /\ m >= 0
    BY <1>2
  <2> HIDE DEF m
  <2>2. Cardinality(1 .. m) = IF 1 > m THEN 0 ELSE m - 1 + 1
    BY <2>1, FS_Interval
  <2> QED BY <2>1, <2>2
<1> QED BY <1>4, <1>5 DEF End

---------------------------------------------------------------------------
(* A buffer.                                                               *)

LEMMA BufferFacts ==
    ASSUME NEW o \in ConnectionInputs, Fits(o)
    PROVE  /\ o.bufptr \in Nat /\ o.bufcnt \in Nat /\ o.lenLastReq \in Nat
           /\ o.buffer \in Seq(Words \cup {None}) /\ Size(o) \in Nat /\ Size(o) <= MAXBUFSIZE
           /\ DOMAIN o.buffer = 1 .. Size(o)
           /\ \A i \in 1 .. Size(o) : o.buffer[i] \in Words \cup {None}
           /\ Gotnow(o) \in Nat /\ o.lenLastReq <= Gotnow(o) /\ o.bufcnt = o.bufptr + Gotnow(o)
           /\ o.bufptr + Gotnow(o) <= Size(o)
<1>1. o.bufptr \in Nat /\ o.bufcnt \in Nat /\ o.lenLastReq \in Nat
      /\ o.buffer \in Seq(Words \cup {None})
  BY DEF ConnectionInputs
<1>2. Size(o) \in Nat /\ DOMAIN o.buffer = 1 .. Size(o)
  BY <1>1, LenProperties DEF Size
<1>3. \A i \in 1 .. Size(o) : o.buffer[i] \in Words \cup {None}
  BY <1>1, ElementOfSeq DEF Size
<1>4. o.bufptr + o.lenLastReq <= o.bufcnt /\ o.bufcnt <= Size(o) /\ Size(o) <= MAXBUFSIZE
  BY DEF Fits
<1> QED BY <1>1, <1>2, <1>3, <1>4 DEF Gotnow

LEMMA AtFacts ==
    ASSUME NEW o \in ConnectionInputs, Fits(o), NEW i \in Nat
    PROVE  /\ At(o, i) \in Words \cup {None}
           /\ i \in 1 .. Gotnow(o) =>
                o.bufptr + i \in 1 .. Size(o) /\ At(o, i) = o.buffer[o.bufptr + i]
<1>1. /\ o.bufptr \in Nat /\ Size(o) \in Nat /\ Gotnow(o) \in Nat
      /\ DOMAIN o.buffer = 1 .. Size(o) /\ o.bufptr + Gotnow(o) <= Size(o)
      /\ \A j \in 1 .. Size(o) : o.buffer[j] \in Words \cup {None}
  BY BufferFacts
<1> QED BY <1>1 DEF At

(* o1 holds what o holds.                                                  *)
Keeps(o1, o) ==
    /\ o1 \in ConnectionInputs /\ Fits(o1) /\ o1.lenLastReq = 0
    /\ Gotnow(o1) = Gotnow(o)
    /\ \A i \in 1 .. Gotnow(o) : At(o1, i) = At(o, i)

LEMMA MovedKeeps ==
    ASSUME NEW o \in ConnectionInputs, Fits(o), o.lenLastReq = 0,
           NEW n \in Nat, Size(o) <= n, n <= MAXBUFSIZE
    PROVE  Keeps(Moved(o, n), o)
<1> DEFINE o1 == Moved(o, n)
           word(i) == IF i <= Gotnow(o) THEN At(o, i)
                      ELSE IF i <= Size(o) THEN o.buffer[i] ELSE None
           bf == [i \in 1 .. n |-> word(i)]
<1>1. /\ Size(o) \in Nat /\ Gotnow(o) \in Nat /\ Gotnow(o) <= Size(o)
      /\ \A i \in 1 .. Size(o) : o.buffer[i] \in Words \cup {None}
  BY BufferFacts
<1>2. o1 = [o EXCEPT !.buffer = bf, !.bufptr = 0, !.bufcnt = Gotnow(o)]
  BY DEF Moved
<1>3. \A i \in 1 .. n : word(i) \in Words \cup {None}
  BY <1>1, AtFacts
<1>4. bf \in Seq(Words \cup {None}) /\ Len(bf) = n /\ DOMAIN bf = 1 .. n
  <2>1. bf \in [1 .. n -> Words \cup {None}]
    BY <1>3
  <2> HIDE DEF bf
  <2> QED BY <2>1
<1>5. \A i \in 1 .. Gotnow(o) : i \in 1 .. n /\ bf[i] = At(o, i)
  BY <1>1
<1> HIDE DEF bf, o1
<1>6. /\ o1 \in ConnectionInputs /\ o1.buffer = bf /\ o1.bufptr = 0 /\ o1.bufcnt = Gotnow(o)
      /\ o1.lenLastReq = 0
  BY <1>1, <1>2, <1>4 DEF ConnectionInputs
<1>7. Fits(o1) /\ Gotnow(o1) = Gotnow(o)
  BY <1>1, <1>4, <1>6 DEF Fits, Gotnow, Size
<1>8. ASSUME NEW i \in 1 .. Gotnow(o) PROVE At(o1, i) = At(o, i)
  BY <1>1, <1>4, <1>5, <1>6 DEF At
<1> QED BY <1>6, <1>7, <1>8 DEF Keeps, o1

LEMMA ResizedKeeps ==
    ASSUME NEW o \in ConnectionInputs, Fits(o), o.lenLastReq = 0,
           NEW n \in Nat, o.bufcnt <= n, n <= MAXBUFSIZE
    PROVE  Keeps(Resized(o, n), o) /\ Resized(o, n).bufptr = o.bufptr
           /\ Resized(o, n).bufcnt = o.bufcnt /\ Size(Resized(o, n)) = n
<1> DEFINE o1 == Resized(o, n)
           word(i) == IF i <= Size(o) THEN o.buffer[i] ELSE None
           bf == [i \in 1 .. n |-> word(i)]
<1>1. /\ Size(o) \in Nat /\ Gotnow(o) \in Nat /\ o.bufptr \in Nat /\ o.bufcnt \in Nat
      /\ o.bufcnt = o.bufptr + Gotnow(o) /\ o.bufptr + Gotnow(o) <= Size(o)
      /\ DOMAIN o.buffer = 1 .. Size(o)
      /\ \A i \in 1 .. Size(o) : o.buffer[i] \in Words \cup {None}
  BY BufferFacts
<1>2. o1 = [o EXCEPT !.buffer = bf]
  BY DEF Resized
<1>3. \A i \in 1 .. n : word(i) \in Words \cup {None}
  BY <1>1
<1>4. bf \in Seq(Words \cup {None}) /\ Len(bf) = n /\ DOMAIN bf = 1 .. n
  <2>1. bf \in [1 .. n -> Words \cup {None}]
    BY <1>3
  <2> HIDE DEF bf
  <2> QED BY <2>1
<1>5. \A i \in 1 .. Gotnow(o) : o.bufptr + i \in 1 .. n /\ bf[o.bufptr + i] = At(o, i)
  BY <1>1 DEF At
<1> HIDE DEF bf, o1
<1>6. /\ o1 \in ConnectionInputs /\ o1.buffer = bf /\ o1.bufptr = o.bufptr
      /\ o1.bufcnt = o.bufcnt /\ o1.lenLastReq = 0
  BY <1>1, <1>2, <1>4 DEF ConnectionInputs
<1>7. Fits(o1) /\ Gotnow(o1) = Gotnow(o) /\ Size(o1) = n
  BY <1>1, <1>4, <1>6 DEF Fits, Gotnow, Size
<1>8. ASSUME NEW i \in 1 .. Gotnow(o) PROVE At(o1, i) = At(o, i)
  BY <1>1, <1>4, <1>5, <1>6 DEF At
<1> QED BY <1>6, <1>7, <1>8 DEF Keeps, o1

LEMMA KeepsItself ==
    ASSUME NEW o \in ConnectionInputs, Fits(o), o.lenLastReq = 0
    PROVE  Keeps(o, o)
  BY DEF Keeps

LEMMA RoomyKeeps ==
    ASSUME NEW o \in ConnectionInputs, Fits(o), o.lenLastReq = 0,
           NEW needed \in Nat, needed <= MAXBUFSIZE
    PROVE  Keeps(Roomy(o, needed), o)
<1>1. Size(o) \in Nat /\ Size(o) <= MAXBUFSIZE
  BY BufferFacts
<1> DEFINE n == IF needed > Size(o) THEN needed ELSE Size(o)
<1>2. n \in Nat /\ Size(o) <= n /\ n <= MAXBUFSIZE
  BY <1>1
<1> HIDE DEF n
<1>3. Keeps(Moved(o, n), o)
  BY <1>2, MovedKeeps
<1> QED BY <1>3, KeepsItself DEF Roomy, n

LEMMA ShrunkKeeps ==
    ASSUME NEW o \in ConnectionInputs, Fits(o), o.lenLastReq = 0, NEW needed \in Nat
    PROVE  Keeps(Shrunk(o, needed), o)
<1>1. BUFSIZE \in Nat /\ BUFSIZE <= MAXBUFSIZE
  BY RequestBuffersAssumption
<1>2. o.bufcnt < BUFSIZE => o.bufcnt <= BUFSIZE
  BY <1>1, BufferFacts
<1>3. o.bufcnt < BUFSIZE => Keeps(Resized(o, BUFSIZE), o)
  BY <1>1, <1>2, ResizedKeeps
<1> QED BY <1>3, KeepsItself DEF Shrunk

LEMMA UnreadFacts ==
    ASSUME NEW c, NEW o, NEW n, NEW a, NEW g, Unread(c, o, n, a, g)
    PROVE  /\ Gotnow(o) - n = g + 1 - a
           /\ \A i \in 1 .. Gotnow(o) - n : IsWord(c, At(o, n + i), a + i)
  BY DEF Unread

LEMMA KeepsUnread ==
    ASSUME NEW c, NEW o \in ConnectionInputs, Fits(o), NEW o1, Keeps(o1, o),
           NEW a \in Nat, NEW g \in Nat, Unread(c, o, 0, a, g)
    PROVE  Unread(c, o1, 0, a, g)
<1>1. Gotnow(o) \in Nat
  BY BufferFacts
<1>2. Gotnow(o1) = Gotnow(o) /\ \A i \in 1 .. Gotnow(o) : At(o1, i) = At(o, i)
  BY DEF Keeps
<1>3. /\ Gotnow(o) - 0 = g + 1 - a
      /\ \A i \in 1 .. Gotnow(o) - 0 : IsWord(c, At(o, 0 + i), a + i)
  BY UnreadFacts
<1>4. \A i \in 1 .. Gotnow(o) : IsWord(c, At(o1, 0 + i), a + i)
  <2> SUFFICES ASSUME NEW i \in 1 .. Gotnow(o)
               PROVE  IsWord(c, At(o1, 0 + i), a + i)
    OBVIOUS
  <2>1. 0 + i = i /\ i \in 1 .. Gotnow(o) - 0
    BY <1>1
  <2>2. IsWord(c, At(o, 0 + i), a + i)
    BY <1>3, <2>1
  <2> QED BY <1>2, <2>1, <2>2
<1>5. Gotnow(o1) - 0 = Gotnow(o) /\ Gotnow(o) - 0 = Gotnow(o)
  BY <1>1, <1>2
<1> QED BY <1>3, <1>4, <1>5 DEF Unread

LEMMA FilledFacts ==
    ASSUME NEW c \in Clients, NEW o \in ConnectionInputs, Fits(o), o.lenLastReq = 0,
           sent[c] \in Nat, got[c] \in Nat, got[c] <= sent[c], sent[c] <= Len(Stream[c]),
           NEW a \in Nat, Unread(c, o, 0, a, got[c])
    PROVE  /\ Arriving(c, o) \in Nat /\ got[c] + Arriving(c, o) <= sent[c]
           /\ Filled(c, o) \in ConnectionInputs /\ Fits(Filled(c, o))
           /\ Filled(c, o).lenLastReq = 0
           /\ Gotnow(Filled(c, o)) = Gotnow(o) + Arriving(c, o)
           /\ \A i \in 1 .. Gotnow(o) : At(Filled(c, o), i) = At(o, i)
           /\ Unread(c, Filled(c, o), 0, a, got[c] + Arriving(c, o))
<1> DEFINE n == Arriving(c, o)
           o1 == Filled(c, o)
           word(i) == IF i \in o.bufcnt + 1 .. o.bufcnt + n
                      THEN Stream[c][got[c] + i - o.bufcnt] ELSE o.buffer[i]
           bf == [i \in 1 .. Size(o) |-> word(i)]
<1>0. /\ o.buffer \in Seq(Words \cup {None}) /\ DOMAIN o.buffer = 1 .. Size(o)
      /\ \A i \in 1 .. Size(o) : o.buffer[i] \in Words \cup {None}
  BY BufferFacts
<1>1. /\ o.bufptr \in Nat /\ o.bufcnt \in Nat /\ Size(o) \in Nat /\ Gotnow(o) \in Nat
      /\ o.bufcnt = o.bufptr + Gotnow(o) /\ o.bufcnt <= Size(o) /\ Size(o) <= MAXBUFSIZE
  BY BufferFacts
<1>2. n \in Nat /\ got[c] + n <= sent[c] /\ o.bufcnt + n <= Size(o)
  <2>1. n = IF sent[c] - got[c] <= Size(o) - o.bufcnt THEN sent[c] - got[c] ELSE Size(o) - o.bufcnt
    BY DEF Arriving
  <2> HIDE DEF n
  <2> QED BY ONLY <1>1, <2>1, sent[c] \in Nat, got[c] \in Nat, got[c] <= sent[c]
<1>3. Stream[c] \in Seq(Words) /\ Len(Stream[c]) \in Nat
  BY StreamFacts, LenProperties
<1> HIDE DEF n
<1>4. \A i \in 1 .. Size(o) : word(i) \in Words \cup {None}
  <2> SUFFICES ASSUME NEW i \in 1 .. Size(o)
               PROVE  word(i) \in Words \cup {None}
    OBVIOUS
  <2>1. CASE i \in o.bufcnt + 1 .. o.bufcnt + n
    <3>1. got[c] + i - o.bufcnt \in 1 .. Len(Stream[c])
      <4> DEFINE j == i - o.bufcnt
      <4>1. j \in 1 .. n
        BY ONLY <1>1, <1>2, <2>1
      <4>2. got[c] + i - o.bufcnt = got[c] + j
        BY ONLY <1>1, i \in 1 .. Size(o), got[c] \in Nat
      <4> HIDE DEF j
      <4>3. got[c] + j \in 1 .. Len(Stream[c])
        BY ONLY <1>2, <1>3, <4>1, sent[c] \in Nat, got[c] \in Nat, sent[c] <= Len(Stream[c])
      <4> QED BY <4>2, <4>3
    <3>2. Stream[c][got[c] + i - o.bufcnt] \in Words
      BY <1>3, <3>1, ElementOfSeq
    <3> QED BY <2>1, <3>2
  <2> QED BY <1>0, <2>1
<1>5. bf \in Seq(Words \cup {None}) /\ Len(bf) = Size(o) /\ DOMAIN bf = 1 .. Size(o)
  <2>1. bf \in [1 .. Size(o) -> Words \cup {None}]
    BY <1>4
  <2> HIDE DEF bf
  <2> QED BY <1>1, <2>1
<1>6. o1 = [o EXCEPT !.buffer = bf, !.bufcnt = o.bufcnt + n]
  BY <1>0 DEF Filled, n
<1>7. \A i \in 1 .. Size(o) : bf[i] = word(i)
  OBVIOUS
<1> HIDE DEF bf, o1
<1>8. /\ o1 \in ConnectionInputs /\ o1.buffer = bf /\ o1.bufptr = o.bufptr
      /\ o1.bufcnt = o.bufcnt + n /\ o1.lenLastReq = 0
  <2>1. o.bufcnt + n \in Nat
    BY ONLY <1>1, <1>2
  <2> QED BY ONLY <1>1, <1>5, <1>6, <2>1, o \in ConnectionInputs, o.lenLastReq = 0 DEF ConnectionInputs
<1>9. Fits(o1) /\ Gotnow(o1) = Gotnow(o) + n
  <2>1. Size(o1) = Size(o)
    BY ONLY <1>5, <1>8 DEF Size
  <2>2. Gotnow(o) = o.bufcnt - o.bufptr /\ Gotnow(o1) = o1.bufcnt - o1.bufptr
    BY DEF Gotnow
  <2>3. Gotnow(o1) = Gotnow(o) + n
    <3> DEFINE f == o.bufptr
               l == o.bufcnt
    <3>1. o1.bufcnt = l + n /\ o1.bufptr = f /\ f \in Nat /\ l \in Nat
      BY <1>1, <1>8
    <3>2. Gotnow(o) = l - f /\ Gotnow(o1) = o1.bufcnt - o1.bufptr
      BY <2>2
    <3> HIDE DEF f, l
    <3>3. l + n - f = l - f + n
      BY ONLY <1>2, <3>1
    <3>4. Gotnow(o1) = l + n - f
      BY ONLY <1>2, <3>1, <3>2
    <3> QED BY ONLY <3>2, <3>3, <3>4
  <2>4. o1.bufptr + o1.lenLastReq <= o1.bufcnt
    BY ONLY <1>1, <1>2, <1>8
  <2>5. o1.bufcnt <= Size(o1) /\ Size(o1) <= MAXBUFSIZE
    BY ONLY <1>1, <1>2, <1>8, <2>1
  <2> QED BY <2>3, <2>4, <2>5 DEF Fits
<1>10. ASSUME NEW i \in 1 .. Gotnow(o) + n
       PROVE  At(o1, i) = word(o.bufptr + i) /\ o.bufptr + i \in 1 .. Size(o)
  <2>1. o.bufptr + i \in 1 .. Size(o)
    BY ONLY <1>1, <1>2, i \in 1 .. Gotnow(o) + n
  <2>2. At(o1, i) = bf[o.bufptr + i]
    BY <1>5, <1>8, <2>1 DEF At
  <2> QED BY <1>7, <2>1, <2>2
<1>11. ASSUME NEW i \in 1 .. Gotnow(o)
       PROVE  At(o1, i) = At(o, i)
  <2>1. i \in 1 .. Gotnow(o) + n /\ ~(o.bufptr + i \in o.bufcnt + 1 .. o.bufcnt + n)
    BY <1>1, <1>2
  <2>2. At(o1, i) = o.buffer[o.bufptr + i]
    BY <1>10, <2>1
  <2> QED BY <2>2, AtFacts
<1>12. /\ Gotnow(o) = got[c] + 1 - a
       /\ \A i \in 1 .. Gotnow(o) : IsWord(c, At(o, i), a + i)
  <2>1. /\ Gotnow(o) - 0 = got[c] + 1 - a
        /\ \A i \in 1 .. Gotnow(o) - 0 : IsWord(c, At(o, 0 + i), a + i)
    BY UnreadFacts
  <2>2. Gotnow(o) - 0 = Gotnow(o) /\ \A i \in 1 .. Gotnow(o) : 0 + i = i
    BY <1>1
  <2> QED BY <2>1, <2>2
<1>13. ASSUME NEW i \in 1 .. Gotnow(o) + n
       PROVE  IsWord(c, At(o1, i), a + i)
  <2>1. CASE i \in 1 .. Gotnow(o)
    BY <1>11, <1>12, <2>1
  <2>2. CASE i > Gotnow(o)
    <3>1. o.bufptr + i \in o.bufcnt + 1 .. o.bufcnt + n
      BY ONLY <1>1, <1>2, <2>2, i \in 1 .. Gotnow(o) + n
    <3>2. At(o1, i) = Stream[c][got[c] + (o.bufptr + i) - o.bufcnt]
      BY <1>10, <3>1
    <3>3. got[c] + (o.bufptr + i) - o.bufcnt = a + i - 1
      BY ONLY <1>1, <1>2, <1>12, got[c] \in Nat, a \in Nat, i \in 1 .. Gotnow(o) + n
    <3>4. a + i # 1
      BY <1>1, <1>12, <2>2
    <3> QED BY <3>2, <3>3, <3>4 DEF IsWord
  <2> QED BY <1>1, <1>2, <2>1, <2>2
<1>14. Unread(c, o1, 0, a, got[c] + n)
  <2>0. Gotnow(o1) - 0 = Gotnow(o) + n
    BY ONLY <1>1, <1>2, <1>9
  <2>1. Gotnow(o1) - 0 = got[c] + n + 1 - a /\ Gotnow(o1) - 0 = Gotnow(o) + n
    <3>1. Gotnow(o) + n = got[c] + n + 1 - a
      BY ONLY <1>1, <1>2, <1>12, got[c] \in Nat, a \in Nat
    <3> QED BY <2>0, <3>1
  <2>2. \A i \in 1 .. Gotnow(o1) - 0 : 0 + i = i /\ IsWord(c, At(o1, i), a + i)
    BY <1>1, <1>2, <2>1, <1>13
  <2> QED BY <2>1, <2>2 DEF Unread
<1> QED BY <1>2, <1>8, <1>9, <1>11, <1>14 DEF n, o1

---------------------------------------------------------------------------
(* Reading.                                                                *)

(* What is found out about request k at the head of a buffer.              *)
Parsed(c, k, o, p) ==
    /\ p.needed \in Nat \ {0} /\ p.header \in BOOLEAN /\ p.move \in BOOLEAN
    /\ p.needed <= Length(c, k)
    /\ p.header => Gotnow(o) < p.needed
    /\ ~p.header =>
         /\ Gotnow(o) >= 1 /\ (p.move <=> Big(c, k))
         /\ IF At(o, 1) = FakeRequest(c) THEN k = 0 /\ p.needed = 1 + SetupPrefix
            ELSE p.needed = Length(c, k)

LEMMA FakeRequestFacts ==
    ASSUME NEW c \in Clients
    PROVE  /\ FakeRequest(c).len = 1 + SetupPrefix /\ FakeRequest(c).req = 0
           /\ LongRequest(c).len = 1 + SetupPrefix + SetupStrings /\ LongRequest(c).req = 0
           /\ LongRequest(c) # FakeRequest(c)
<1>1. SetupPrefix \in Nat \ {0} /\ SetupStrings \in Nat \ {0}
  BY RequestBuffersAssumption
<1>2. /\ FakeRequest(c).len = 1 + SetupPrefix /\ FakeRequest(c).req = 0
      /\ LongRequest(c).len = 1 + SetupPrefix + SetupStrings /\ LongRequest(c).req = 0
  BY DEF FakeRequest, LongRequest, Word
<1> QED BY <1>1, <1>2

LEMMA FirstWord ==
    ASSUME NEW c \in Clients, NEW k \in 0 .. Len(Requests[c]), NEW w,
           IsWord(c, w, Before(c, k) + 1)
    PROVE  /\ w \in Words /\ w # None /\ w.client = c /\ w.req = k /\ w.at = 1
           /\ IF k = 0 THEN w \in {FakeRequest(c), LongRequest(c)}
              ELSE w # FakeRequest(c) /\ w.len = IF Big(c, k) THEN 0 ELSE Length(c, k)
<1>1. 1 \in 1 .. Length(c, k)
  BY BeforeStep
<1>2. /\ w \in Words /\ w # None /\ w.client = c /\ w.req = k /\ w.at = 1
      /\ IF k = 0 /\ 1 = 1 THEN w \in {FakeRequest(c), LongRequest(c)}
         ELSE w = RequestWord(c, k, 1) /\ w.len = Field(c, k, 1)
  BY <1>1, WordFacts
<1>3. CASE k = 0
  BY <1>2, <1>3
<1>4. CASE k # 0
  <2>1. w.len = Field(c, k, 1) /\ k > 0
    BY <1>2, <1>4, RequestsLength
  <2>2. Field(c, k, 1) = IF Requests[c][k].big THEN 0 ELSE Requests[c][k].len
    BY <2>1 DEF Field
  <2>3. w # FakeRequest(c)
    BY <1>2, <1>4, FakeRequestFacts
  <2> QED BY <1>2, <1>4, <2>1, <2>2, <2>3 DEF Big, Length
<1> QED BY <1>3, <1>4

LEMMA SecondWord ==
    ASSUME NEW c \in Clients, NEW k \in 1 .. Len(Requests[c]), Big(c, k), NEW w,
           IsWord(c, w, Before(c, k) + 2)
    PROVE  w \in Words /\ w # None /\ w.len = Length(c, k)
<1>1. k \in 0 .. Len(Requests[c]) /\ k > 0 /\ k # 0
  BY RequestsLength
<1>2. 2 \in 1 .. Length(c, k)
  BY <1>1, BeforeStep
<1>3. /\ w \in Words /\ w # None
      /\ IF k = 0 /\ 2 = 1 THEN w \in {FakeRequest(c), LongRequest(c)}
         ELSE w = RequestWord(c, k, 2) /\ w.len = Field(c, k, 2)
  BY <1>1, <1>2, WordFacts
<1>4. w.len = Field(c, k, 2)
  BY <1>1, <1>3
<1> QED BY <1>1, <1>3, <1>4 DEF Big, Field, Length

LEMMA HeadParse ==
    ASSUME NEW c \in Clients, NEW k \in 0 .. Len(Requests[c]),
           NEW o \in ConnectionInputs, Fits(o), NEW g \in Nat,
           Unread(c, o, 0, Before(c, k), g),
           NEW big \in BOOLEAN, Gotnow(o) >= 1 /\ Big(c, k) => big
    PROVE  Parsed(c, k, o, Parse(o, big))
<1> DEFINE p == Parse(o, big)
           L == Length(c, k)
<1>1. Gotnow(o) \in Nat
  BY BufferFacts
<1>2. L \in Nat \ {0} /\ (Big(c, k) => L >= 3) /\ (k = 0 => L = 1 + SetupPrefix + SetupStrings)
  BY BeforeStep
<1>3. \A i \in 1 .. Gotnow(o) : IsWord(c, At(o, i), Before(c, k) + i)
  <2>1. \A i \in 1 .. Gotnow(o) - 0 : IsWord(c, At(o, 0 + i), Before(c, k) + i)
    BY UnreadFacts
  <2>2. Gotnow(o) - 0 = Gotnow(o) /\ \A i \in 1 .. Gotnow(o) : 0 + i = i
    BY <1>1
  <2> QED BY <2>1, <2>2
<1>4. SetupPrefix \in Nat \ {0} /\ SetupStrings \in Nat \ {0}
  BY RequestBuffersAssumption
<1> HIDE DEF L
<1>5. CASE Gotnow(o) < 1
  <2>1. p = [needed |-> 1, header |-> TRUE, move |-> FALSE]
    BY <1>5 DEF Parse
  <2> HIDE DEF p
  <2>2. p.needed = 1 /\ p.header = TRUE /\ p.move = FALSE
    BY <2>1
  <2>3. p.needed \in Nat \ {0} /\ p.needed <= L /\ Gotnow(o) < p.needed
    BY <1>1, <1>2, <1>5, <2>2
  <2>4. Parsed(c, k, o, p)
    BY <2>2, <2>3 DEF Parsed, L
  <2> QED BY <2>4 DEF p
<1>6. CASE Gotnow(o) >= 1
  <2>0. ~(Gotnow(o) < 1) /\ 1 \in 1 .. Gotnow(o)
    BY <1>1, <1>6
  <2>1. IsWord(c, At(o, 1), Before(c, k) + 1)
    BY <1>3, <2>0
  <2> DEFINE w == At(o, 1)
  <2> HIDE DEF w
  <2>2. /\ w \in Words /\ w # None /\ w.client = c /\ w.req = k /\ w.at = 1
        /\ IF k = 0 THEN w \in {FakeRequest(c), LongRequest(c)}
           ELSE w # FakeRequest(c) /\ w.len = IF Big(c, k) THEN 0 ELSE L
    BY <2>1, FirstWord DEF L, w
  <2>3. FieldAt(o, 1) = w.len
    BY <2>2 DEF FieldAt, w
  <2>4. CASE ~Big(c, k)
    <3>1. w.len # 0 /\ w.len \in Nat /\ w.len <= L
          /\ IF w = FakeRequest(c) THEN k = 0 /\ w.len = 1 + SetupPrefix ELSE w.len = L
      <4>1. CASE k = 0
        BY <1>2, <1>4, <2>2, <4>1, FakeRequestFacts
      <4>2. CASE k # 0
        BY <1>2, <2>2, <2>4, <4>2
      <4> QED BY <4>1, <4>2
    <3>2. p = [needed |-> w.len, header |-> FALSE, move |-> FALSE]
      BY <2>0, <2>3, <3>1 DEF Parse
    <3> HIDE DEF p
    <3>3. p.needed = w.len /\ p.header = FALSE /\ p.move = FALSE
      BY <3>2
    <3>4. Parsed(c, k, o, p)
      BY <1>6, <2>4, <3>1, <3>3 DEF Parsed, L, w
    <3> QED BY <3>4 DEF p
  <2>5. CASE Big(c, k)
    <3>1. big /\ k # 0 /\ k \in 1 .. Len(Requests[c])
      BY <1>6, <2>5, RequestsLength DEF Big
    <3>2. FieldAt(o, 1) = 0 /\ w # FakeRequest(c)
      BY <2>2, <2>3, <2>5, <3>1
    <3>3. CASE Gotnow(o) < 2
      <4>1. p = [needed |-> 2, header |-> TRUE, move |-> TRUE]
        BY <2>0, <3>1, <3>2, <3>3 DEF Parse
      <4> HIDE DEF p
      <4>2. p.needed = 2 /\ p.header = TRUE /\ p.move = TRUE
        BY <4>1
      <4>3. p.needed \in Nat \ {0} /\ p.needed <= L /\ Gotnow(o) < p.needed
        BY <1>1, <1>2, <2>5, <3>3, <4>2
      <4>4. Parsed(c, k, o, p)
        BY <4>2, <4>3 DEF Parsed, L
      <4> QED BY <4>4 DEF p
    <3>4. CASE Gotnow(o) >= 2
      <4>1. IsWord(c, At(o, 2), Before(c, k) + 2)
        BY <1>1, <1>3, <3>4
      <4>2. At(o, 2) # None /\ At(o, 2).len = L
        BY <2>5, <3>1, <4>1, SecondWord DEF L
      <4>3. FieldAt(o, 2) = L
        BY <4>2 DEF FieldAt
      <4>4. ~(Gotnow(o) < 2)
        BY <1>1, <3>4
      <4>5. p = [needed |-> L, header |-> FALSE, move |-> TRUE]
        BY <2>0, <3>1, <3>2, <4>3, <4>4 DEF Parse
      <4> HIDE DEF p
      <4>6. p.needed = L /\ p.header = FALSE /\ p.move = TRUE
        BY <4>5
      <4>7. p.needed \in Nat \ {0} /\ p.needed <= L /\ p.needed = L
        BY <1>2, <4>6
      <4>8. Parsed(c, k, o, p)
        BY <1>6, <2>5, <3>2, <4>6, <4>7 DEF Parsed, L, w
      <4> QED BY <4>8 DEF p
    <3> QED BY <1>1, <3>3, <3>4
  <2> QED BY <2>4, <2>5
<1> QED BY <1>1, <1>5, <1>6

Reset(o) == [o EXCEPT !.lenLastReq = 0]

LEMMA ResetFacts ==
    ASSUME NEW o \in ConnectionInputs
    PROVE  /\ Reset(o) \in ConnectionInputs /\ Reset(o).lenLastReq = 0
           /\ Gotnow(Reset(o)) = Gotnow(o) /\ Size(Reset(o)) = Size(o)
           /\ \A i : At(Reset(o), i) = At(o, i)
           /\ \A big : Parse(Reset(o), big) = Parse(o, big)
           /\ o.lenLastReq = 0 => Reset(o) = o
<1>1. /\ Reset(o) \in ConnectionInputs /\ Reset(o).lenLastReq = 0
      /\ Reset(o).buffer = o.buffer /\ Reset(o).bufptr = o.bufptr
      /\ Reset(o).bufcnt = o.bufcnt
  BY DEF Reset, ConnectionInputs
<1>2. Gotnow(Reset(o)) = Gotnow(o) /\ Size(Reset(o)) = Size(o)
  BY <1>1 DEF Gotnow, Size
<1>3. \A i : At(Reset(o), i) = At(o, i)
  BY <1>1 DEF At
<1>4. \A i : FieldAt(Reset(o), i) = FieldAt(o, i)
  BY <1>3 DEF FieldAt
<1>5. \A big : Parse(Reset(o), big) = Parse(o, big)
  BY <1>2, <1>4 DEF Parse
<1>6. o.lenLastReq = 0 => Reset(o) = o
  BY DEF Reset, ConnectionInputs
<1> QED BY <1>1, <1>2, <1>3, <1>5, <1>6

(* A client that has sent the beginning of a Big Request may do so.        *)
LEMMA BigAllowed ==
    ASSUME NEW c \in Clients, NEW k \in 0 .. Len(Requests[c]), NEW o,
           NEW g \in Nat, Unread(c, o, 0, Before(c, k), g), Gotnow(o) \in Nat,
           sent[c] \in Nat, g <= sent[c], SentInv, Gotnow(o) >= 1, Big(c, k)
    PROVE  c \in big_requests
<1> DEFINE a == Before(c, k)
<1>1. k > 0 /\ k \in Nat /\ k - 1 \in 0 .. Len(Requests[c])
  BY RequestsLength DEF Big
<1>2. a \in Nat /\ Length(c, k) \in Nat \ {0} /\ 1 \in 1 .. Length(c, k)
  BY BeforeStep
<1>3. a >= 1
  <2>1. SetupPrefix \in Nat /\ SetupStrings \in Nat /\ Len(Sent(c, k - 1)) \in Nat
    BY <1>1, SentType, RequestBuffersAssumption
  <2> QED BY <1>1, <2>1 DEF Before
<1>4. Gotnow(o) - 0 = g + 1 - a
  BY UnreadFacts
<1>5. Stream[c][a + 1 - 1] = RequestWord(c, k, 1) /\ a + 1 - 1 = a
  <2>1. \A i \in 1 .. Length(c, k) :
          k > 0 \/ i > 1 => Stream[c][Before(c, k) + i - 1] = RequestWord(c, k, i)
    BY StreamFacts
  <2> QED BY <1>1, <1>2, <2>1
<1> HIDE DEF a
<1>6. a \in 1 .. sent[c]
  <2>1. a <= g
    BY ONLY <1>2, <1>4, Gotnow(o) \in Nat, Gotnow(o) >= 1, g \in Nat
  <2> QED BY <1>2, <1>3, <2>1
<1>7. Stream[c][a].req = k
  BY <1>5, RequestWordType
<1> QED BY <1>6, <1>7 DEF SentInv

(* What a read gives.                                                      *)
Outcome(c, k, r) ==
    /\ r.result \in {"dead", "nothing", "request"}
    /\ r.n \in Nat /\ got[c] + r.n <= sent[c]
    /\ r.result = "dead" => r.n = 0
    /\ r.result # "dead" =>
         /\ r.o \in ConnectionInputs /\ Fits(Reset(r.o))
         /\ Unread(c, Reset(r.o), 0, Before(c, k), got[c] + r.n)
    /\ r.result = "nothing" =>
         r.o.lenLastReq = 0 /\ (k <= Len(Requests[c]) => Gotnow(r.o) < Length(c, k))
    /\ r.result = "request" =>
         /\ k <= Len(Requests[c])
         /\ Parsed(c, k, Reset(r.o), r.p) /\ ~r.p.header /\ Gotnow(r.o) >= r.p.needed

LEMMA ReadOutcomeFacts ==
    ASSUME NEW c \in Clients, NEW k \in 0 .. Len(Requests[c]),
           NEW o \in ConnectionInputs, Fits(Reset(o)),
           sent[c] \in Nat, got[c] \in Nat, got[c] <= sent[c], sent[c] <= Len(Stream[c]),
           SentInv, Unread(c, Reset(o), 0, Before(c, k), got[c])
    PROVE  Outcome(c, k, ReadOutcome(c, o))
<1> DEFINE big == c \in big_requests
           p == Parse(o, big)
           o1 == Reset(o)
           o2 == Roomy(o1, p.needed)
           f == Filled(c, o2)
           o3 == Shrunk(f, p.needed)
           n == Arriving(c, o2)
           p3 == IF p.header /\ Gotnow(o3) >= p.needed THEN Parse(o3, big) ELSE p
           a == Before(c, k)
           r == ReadOutcome(c, o)
<1>1. a \in Nat /\ Length(c, k) \in Nat
  BY BeforeStep
<1>2. /\ o1 \in ConnectionInputs /\ Fits(o1) /\ o1.lenLastReq = 0 /\ Gotnow(o1) = Gotnow(o)
      /\ p = Parse(o1, big) /\ Gotnow(o1) \in Nat
  BY ResetFacts, BufferFacts
<1>3. big \in BOOLEAN
  OBVIOUS
<1>4. r = IF Gotnow(o) >= p.needed
          THEN [result |-> "request", o |-> o, n |-> 0, p |-> p]
          ELSE IF p.needed > MAXBUFSIZE
          THEN [result |-> "dead", o |-> o1, n |-> 0, p |-> p]
          ELSE IF n = 0
          THEN [result |-> IF c \in hungUp THEN "dead" ELSE "nothing",
                o |-> o2, n |-> 0, p |-> p]
          ELSE [result |-> IF Gotnow(o3) >= p3.needed THEN "request" ELSE "nothing",
                o |-> o3, n |-> n, p |-> p3]
  BY DEF ReadOutcome, Reset
<1>5. Parsed(c, k, o1, p)
  <2>1. Gotnow(o1) >= 1 /\ Big(c, k) => big
    BY <1>2, BigAllowed
  <2>2. Unread(c, o1, 0, a, got[c])
    OBVIOUS
  <2> HIDE DEF o1, big
  <2>3. Parsed(c, k, o1, Parse(o1, big))
    BY <1>2, <1>3, <2>1, <2>2, HeadParse
  <2> QED BY <1>2, <2>3
<1>6. /\ p.needed \in Nat \ {0} /\ p.header \in BOOLEAN /\ p.needed <= Length(c, k)
      /\ (p.header => Gotnow(o1) < p.needed)
  BY <1>5 DEF Parsed
<1>7. Unread(c, o1, 0, a, got[c]) /\ MAXBUFSIZE \in Nat
  BY RequestBuffersAssumption
<1> HIDE DEF p, o1, r, big, a
<1>8. CASE Gotnow(o) >= p.needed
  <2>1. r = [result |-> "request", o |-> o, n |-> 0, p |-> p]
    BY <1>4, <1>8
  <2>2. r.result = "request" /\ r.o = o /\ r.n = 0 /\ r.p = p /\ got[c] + 0 = got[c]
    BY <2>1
  <2>3. ~p.header
    BY <1>2, <1>6, <1>8
  <2>4. k <= Len(Requests[c])
    BY RequestsLength
  <2>5. Outcome(c, k, r)
    BY <1>2, <1>5, <1>7, <1>8, <2>2, <2>3, <2>4 DEF Outcome, o1, a
  <2> QED BY <2>5 DEF r
<1>9. CASE ~(Gotnow(o) >= p.needed) /\ p.needed > MAXBUFSIZE
  <2>1. r = [result |-> "dead", o |-> o1, n |-> 0, p |-> p]
    BY <1>4, <1>9
  <2>2. r.result = "dead" /\ r.n = 0 /\ got[c] + 0 = got[c]
    BY <2>1
  <2>3. Outcome(c, k, r)
    BY <2>2 DEF Outcome
  <2> QED BY <2>3 DEF r
<1>10. CASE ~(Gotnow(o) >= p.needed) /\ ~(p.needed > MAXBUFSIZE)
  <2>1. p.needed <= MAXBUFSIZE
    BY <1>6, <1>7, <1>10
  <2>2. Keeps(o2, o1)
    BY <1>2, <1>6, <2>1, RoomyKeeps
  <2> HIDE DEF o2
  <2>3. /\ o2 \in ConnectionInputs /\ Fits(o2) /\ o2.lenLastReq = 0 /\ Gotnow(o2) = Gotnow(o1)
        /\ \A i \in 1 .. Gotnow(o1) : At(o2, i) = At(o1, i)
    BY <2>2 DEF Keeps
  <2>4. Unread(c, o2, 0, a, got[c])
    BY <1>1, <1>2, <1>7, <2>2, KeepsUnread DEF a
  <2>5. /\ n \in Nat /\ got[c] + n <= sent[c]
        /\ f \in ConnectionInputs /\ Fits(f) /\ f.lenLastReq = 0
        /\ Gotnow(f) = Gotnow(o2) + n
        /\ \A i \in 1 .. Gotnow(o2) : At(f, i) = At(o2, i)
        /\ Unread(c, f, 0, a, got[c] + n)
    BY <1>1, <2>3, <2>4, FilledFacts DEF a
  <2>6. CASE n = 0
    <3>1. r = [result |-> IF c \in hungUp THEN "dead" ELSE "nothing",
               o |-> o2, n |-> 0, p |-> p]
      BY <1>4, <1>10, <2>6
    <3>2. /\ r.result \in {"dead", "nothing"} /\ r.o = o2 /\ r.n = 0 /\ got[c] + 0 = got[c]
          /\ Reset(o2) = o2
      BY <2>3, <3>1, ResetFacts
    <3>3. Gotnow(o2) < Length(c, k)
      BY <1>1, <1>2, <1>6, <1>10, <2>3
    <3>4. Outcome(c, k, r)
      BY <2>3, <2>4, <3>2, <3>3 DEF Outcome, a
    <3> QED BY <3>4 DEF r
  <2>7. CASE n # 0
    <3> HIDE DEF f, n
    <3>1. Keeps(o3, f)
      BY <1>6, <2>5, ShrunkKeeps
    <3> HIDE DEF o3
    <3>2. /\ o3 \in ConnectionInputs /\ Fits(o3) /\ o3.lenLastReq = 0
          /\ Gotnow(o3) = Gotnow(o1) + n
          /\ \A i \in 1 .. Gotnow(o1) : At(o3, i) = At(o1, i)
      <4>1. /\ o3 \in ConnectionInputs /\ Fits(o3) /\ o3.lenLastReq = 0
            /\ Gotnow(o3) = Gotnow(f)
            /\ \A i \in 1 .. Gotnow(f) : At(o3, i) = At(f, i)
        BY <3>1 DEF Keeps
      <4>2. Gotnow(o3) = Gotnow(o1) + n
        BY <2>3, <2>5, <4>1
      <4>3. \A i \in 1 .. Gotnow(o1) : i \in 1 .. Gotnow(f)
        BY <1>2, <2>3, <2>5
      <4> QED BY <2>3, <2>5, <4>1, <4>2, <4>3
    <3>3. Unread(c, o3, 0, a, got[c] + n) /\ got[c] + n \in Nat
      <4>1. got[c] + n \in Nat
        BY <2>5
      <4> QED BY <1>1, <2>5, <3>1, <4>1, KeepsUnread DEF a
    <3>4. /\ r.result = IF Gotnow(o3) >= p3.needed THEN "request" ELSE "nothing"
          /\ r.o = o3 /\ r.n = n /\ r.p = p3
      BY <1>4, <1>10, <2>7
    <3>5. Gotnow(o3) \in Nat /\ Gotnow(o3) >= Gotnow(o1) /\ Reset(o3) = o3
      BY <1>2, <2>5, <3>2, ResetFacts
    <3>6. /\ p3.needed \in Nat /\ p3.needed <= Length(c, k)
          /\ Gotnow(o3) >= p3.needed => Parsed(c, k, o3, p3) /\ ~p3.header
      <4>1. CASE p.header /\ Gotnow(o3) >= p.needed
        <5>1. p3 = Parse(o3, big)
          BY <4>1
        <5>2. Gotnow(o3) >= 1 /\ Big(c, k) => big
          BY <2>5, <3>3, <3>5, BigAllowed DEF big, a
        <5>3. Parsed(c, k, o3, Parse(o3, big))
          BY <1>3, <3>2, <3>3, <5>2, HeadParse DEF a
        <5> HIDE DEF p3
        <5>4. Parsed(c, k, o3, p3)
          BY <5>1, <5>3
        <5>5. /\ p3.needed \in Nat \ {0} /\ p3.needed <= Length(c, k)
              /\ (p3.header => Gotnow(o3) < p3.needed)
          BY <5>4 DEF Parsed
        <5> QED BY <3>5, <5>4, <5>5
      <4>2. CASE ~(p.header /\ Gotnow(o3) >= p.needed)
        <5>1. p3 = p
          BY <4>2
        <5>2. ASSUME ~p.header
              PROVE  Parsed(c, k, o3, p)
          <6>1. /\ p.needed \in Nat \ {0} /\ p.move \in BOOLEAN
                /\ p.needed <= Length(c, k) /\ Gotnow(o1) >= 1 /\ (p.move <=> Big(c, k))
                /\ IF At(o1, 1) = FakeRequest(c) THEN k = 0 /\ p.needed = 1 + SetupPrefix
                   ELSE p.needed = Length(c, k)
            BY <1>5, <5>2 DEF Parsed
          <6>2. At(o3, 1) = At(o1, 1) /\ Gotnow(o3) >= 1
            BY <1>2, <3>2, <3>5, <6>1
          <6> QED BY <1>6, <5>2, <6>1, <6>2 DEF Parsed
        <5> HIDE DEF p3
        <5> QED BY <1>6, <4>2, <5>1, <5>2
      <4> QED BY <4>1, <4>2
    <3> HIDE DEF p3
    <3>7. CASE Gotnow(o3) >= p3.needed
      <4>1. k <= Len(Requests[c]) /\ r.result = "request"
        BY <3>4, <3>7, RequestsLength
      <4>2. Outcome(c, k, r)
        BY <2>5, <3>2, <3>3, <3>4, <3>5, <3>6, <3>7, <4>1 DEF Outcome, a
      <4> QED BY <4>2 DEF r
    <3>8. CASE ~(Gotnow(o3) >= p3.needed)
      <4>1. r.result = "nothing" /\ Gotnow(o3) < Length(c, k)
        BY <1>1, <3>4, <3>5, <3>6, <3>8
      <4>2. Outcome(c, k, r)
        BY <2>5, <3>2, <3>3, <3>4, <3>5, <4>1 DEF Outcome, a
      <4> QED BY <4>2 DEF r
    <3> QED BY <3>7, <3>8
  <2> QED BY <2>6, <2>7
<1> QED BY <1>8, <1>9, <1>10

(* Behind the last request there is nothing.                               *)
LEMMA NothingLeft ==
    ASSUME NEW c \in Clients, NEW o, NEW g \in Nat, g <= Len(Stream[c]), Gotnow(o) \in Nat,
           Unread(c, o, 0, Before(c, Len(Requests[c]) + 1), g)
    PROVE  Gotnow(o) = 0 /\ g = Len(Stream[c])
<1> DEFINE a == Before(c, Len(Requests[c]) + 1)
<1>1. a \in Nat /\ Len(Stream[c]) = a - 1
  <2>1. Len(Requests[c]) \in 0 .. Len(Requests[c])
    BY RequestsLength
  <2> QED BY <2>1, BeforeStep, StreamFacts
<1>2. Gotnow(o) - 0 = g + 1 - a
  BY UnreadFacts
<1> HIDE DEF a
<1>3. g <= a - 1
  BY <1>1
<1> QED BY ONLY <1>1, <1>2, <1>3, Gotnow(o) \in Nat, g \in Nat

LEMMA LastOutcome ==
    ASSUME NEW c \in Clients, NEW o \in ConnectionInputs, Fits(Reset(o)),
           sent[c] \in Nat, got[c] \in Nat, got[c] <= sent[c], sent[c] <= Len(Stream[c]),
           Unread(c, Reset(o), 0, Before(c, Len(Requests[c]) + 1), got[c])
    PROVE  Outcome(c, Len(Requests[c]) + 1, ReadOutcome(c, o))
<1> DEFINE k == Len(Requests[c]) + 1
           big == c \in big_requests
           p == Parse(o, big)
           o1 == Reset(o)
           o2 == Roomy(o1, 1)
           n == Arriving(c, o2)
           r == ReadOutcome(c, o)
           a == Before(c, k)
<1>1. /\ o1 \in ConnectionInputs /\ Fits(o1) /\ o1.lenLastReq = 0 /\ Gotnow(o1) = Gotnow(o)
      /\ Gotnow(o1) \in Nat
  BY ResetFacts, BufferFacts
<1>2. a \in Nat /\ MAXBUFSIZE \in Nat /\ MAXBUFSIZE >= 2 /\ Len(Stream[c]) \in Nat
      /\ ~(k <= Len(Requests[c]))
  <2>1. Len(Requests[c]) \in Nat /\ Len(Requests[c]) \in 0 .. Len(Requests[c])
    BY RequestsLength
  <2>2. a \in Nat
    BY <2>1, BeforeStep
  <2>3. MAXBUFSIZE \in Nat /\ MAXBUFSIZE >= 2
    BY RequestBuffersAssumption
  <2>4. Len(Stream[c]) \in Nat
    BY StreamFacts, LenProperties
  <2> QED BY <2>1, <2>2, <2>3, <2>4
<1>3. Gotnow(o1) = 0 /\ got[c] = Len(Stream[c])
  <2>1. got[c] <= Len(Stream[c])
    BY <1>2
  <2> QED BY <1>1, <2>1, NothingLeft
<1>4. p = [needed |-> 1, header |-> TRUE, move |-> FALSE]
  BY <1>1, <1>3 DEF Parse
<1>5. Keeps(o2, o1)
  BY <1>1, <1>2, RoomyKeeps
<1> HIDE DEF o2
<1>6. /\ o2 \in ConnectionInputs /\ Fits(o2) /\ o2.lenLastReq = 0
  BY <1>5 DEF Keeps
<1>7. Unread(c, o2, 0, a, got[c])
  <2>1. Unread(c, o1, 0, a, got[c])
    OBVIOUS
  <2> HIDE DEF o1, a
  <2> QED BY <1>1, <1>2, <1>5, <2>1, KeepsUnread
<1>8. n = 0
  <2>1. sent[c] - got[c] = 0
    BY <1>2, <1>3
  <2>2. Size(o2) \in Nat /\ o2.bufcnt \in Nat /\ o2.bufcnt <= Size(o2)
    BY <1>6, BufferFacts
  <2>3. 0 <= Size(o2) - o2.bufcnt
    BY <2>2
  <2> QED BY <2>1, <2>3 DEF Arriving
<1>9. r = [result |-> IF c \in hungUp THEN "dead" ELSE "nothing",
           o |-> o2, n |-> 0, p |-> p]
  <2>1. p.needed = 1
    BY <1>4
  <2>2. ~(Gotnow(o) >= 1) /\ ~(1 > MAXBUFSIZE)
    BY <1>1, <1>2, <1>3
  <2> HIDE DEF p
  <2> QED BY <1>8, <2>1, <2>2 DEF ReadOutcome, o2, p, Reset
<1> HIDE DEF r, p, a
<1>10. /\ r.result \in {"dead", "nothing"} /\ r.o = o2 /\ r.n = 0 /\ got[c] + 0 = got[c]
       /\ Reset(o2) = o2
  BY <1>6, <1>9, ResetFacts
<1>11. Outcome(c, k, r)
  BY <1>2, <1>6, <1>7, <1>10 DEF Outcome, a
<1> QED BY <1>11 DEF r

---------------------------------------------------------------------------
(* Who has which buffer.                                                   *)

Distinct(free) == \A i, j \in DOMAIN free : free[i] = free[j] => i = j
Owned(inp, free) ==
    /\ \A c, d \in Clients : inp[c] # None /\ inp[c] = inp[d] => c = d
    /\ Distinct(free)
    /\ \A c \in Clients : inp[c] \notin Range(free)
AllSpent(free, bufs) == \A b \in Range(free) : Spent(bufs[b])
MayBeTaken(c, inp, bufs) == inp[c] # None /\ Spent(bufs[inp[c]])

LEMMA OwnershipNamed ==
    /\ BuffersNotShared <=> /\ Owned(input, FreeInputs)
                            /\ AvailableInput # None => MayBeTaken(AvailableInput, input, buf)
    /\ FreeSpent <=> AllSpent(FreeInputs, buf)
<1>1. BuffersNotShared <=> /\ Owned(input, FreeInputs)
                           /\ AvailableInput # None => MayBeTaken(AvailableInput, input, buf)
  BY DEF BuffersNotShared, Owned, Distinct, MayBeTaken, Spent
<1>2. FreeSpent <=> AllSpent(FreeInputs, buf)
  BY DEF FreeSpent, AllSpent, Range
<1> QED BY <1>1, <1>2

LEMMA ListHead ==
    ASSUME NEW free \in Seq(Buffers), free # <<>>, Distinct(free)
    PROVE  /\ Head(free) \in Range(free) /\ Range(free) \subseteq Buffers
           /\ Tail(free) \in Seq(Buffers) /\ Distinct(Tail(free))
           /\ Range(Tail(free)) \subseteq Range(free)
           /\ Head(free) \notin Range(Tail(free))
<1>1. Len(free) \in Nat \ {0} /\ DOMAIN free = 1 .. Len(free)
  BY EmptySeq, LenProperties
<1>2. /\ Tail(free) \in Seq(Buffers) /\ Len(Tail(free)) = Len(free) - 1
      /\ \A i \in 1 .. Len(Tail(free)) : Tail(free)[i] = free[i + 1]
  BY HeadTailProperties
<1>3. DOMAIN Tail(free) = 1 .. Len(free) - 1
  BY <1>2, LenProperties
<1>4. \A i \in 1 .. Len(free) - 1 : i + 1 \in 1 .. Len(free) /\ i + 1 # 1 /\ Tail(free)[i] = free[i + 1]
  BY <1>1, <1>2
<1>5. Head(free) = free[1] /\ 1 \in 1 .. Len(free)
  BY <1>1
<1>6. Distinct(Tail(free))
  <2> SUFFICES ASSUME NEW i \in 1 .. Len(free) - 1, NEW j \in 1 .. Len(free) - 1,
                      Tail(free)[i] = Tail(free)[j]
               PROVE  i = j
    BY <1>3 DEF Distinct
  <2>1. free[i + 1] = free[j + 1] /\ i + 1 \in DOMAIN free /\ j + 1 \in DOMAIN free
    BY <1>1, <1>4
  <2>2. i + 1 = j + 1
    BY <2>1 DEF Distinct
  <2> QED BY <2>2
<1>7. Range(free) \subseteq Buffers
  BY <1>1, ElementOfSeq DEF Range
<1>8. Range(Tail(free)) \subseteq Range(free)
  BY <1>1, <1>3, <1>4 DEF Range
<1>9. Head(free) \notin Range(Tail(free))
  BY <1>1, <1>3, <1>4, <1>5 DEF Range, Distinct
<1> QED BY <1>1, <1>2, <1>5, <1>6, <1>7, <1>8, <1>9 DEF Range

LEMMA ListCons ==
    ASSUME NEW free \in Seq(Buffers), Distinct(free), NEW b \in Buffers, b \notin Range(free)
    PROVE  /\ <<b>> \o free \in Seq(Buffers) /\ Distinct(<<b>> \o free)
           /\ Range(<<b>> \o free) = {b} \cup Range(free)
<1> DEFINE t == <<b>> \o free
<1>1. Len(free) \in Nat /\ DOMAIN free = 1 .. Len(free)
  BY LenProperties
<1>2. <<b>> \in Seq(Buffers) /\ Len(<<b>>) = 1 /\ <<b>>[1] = b
  OBVIOUS
<1>3. /\ t \in Seq(Buffers) /\ Len(t) = 1 + Len(free)
      /\ \A i \in 1 .. 1 + Len(free) : t[i] = IF i <= 1 THEN <<b>>[i] ELSE free[i - 1]
  BY <1>2, ConcatProperties
<1> HIDE DEF t
<1>4. DOMAIN t = 1 .. 1 + Len(free) /\ t[1] = b
      /\ \A i \in 1 .. 1 + Len(free) : i # 1 => i - 1 \in 1 .. Len(free) /\ t[i] = free[i - 1]
  <2>1. DOMAIN t = 1 .. 1 + Len(free)
    BY <1>3, LenProperties
  <2>2. 1 \in 1 .. 1 + Len(free)
    BY <1>1
  <2>3. \A i \in 1 .. 1 + Len(free) : i # 1 => i - 1 \in 1 .. Len(free) /\ ~(i <= 1)
    BY <1>1
  <2> QED BY <1>2, <1>3, <2>1, <2>2, <2>3
<1>5. Distinct(t)
  <2> SUFFICES ASSUME NEW i \in 1 .. 1 + Len(free), NEW j \in 1 .. 1 + Len(free), t[i] = t[j]
               PROVE  i = j
    BY <1>4 DEF Distinct
  <2>1. \A m \in 1 .. Len(free) : free[m] # b
    BY <1>1 DEF Range
  <2>2. CASE i = 1 \/ j = 1
    BY <1>4, <2>1, <2>2
  <2>3. CASE i # 1 /\ j # 1
    <3>1. i - 1 \in DOMAIN free /\ j - 1 \in DOMAIN free /\ free[i - 1] = free[j - 1]
      BY <1>1, <1>4, <2>3
    <3>2. i - 1 = j - 1
      BY <3>1 DEF Distinct
    <3> QED BY <1>1, <3>2
  <2> QED BY <2>2, <2>3
<1>6. Range(t) = {b} \cup Range(free)
  <2>1. \A m \in 1 .. Len(free) : m + 1 \in 1 .. 1 + Len(free) /\ m + 1 # 1 /\ m + 1 - 1 = m
    BY <1>1
  <2>2. \A m \in 1 .. Len(free) : t[m + 1] = free[m] /\ m + 1 \in 1 .. 1 + Len(free)
    BY <1>4, <2>1
  <2>3. 1 \in 1 .. 1 + Len(free)
    BY <1>1
  <2> QED BY <1>1, <1>4, <2>2, <2>3 DEF Range
<1> QED BY <1>3, <1>5, <1>6 DEF t

(* There is a buffer for the client that needs one.                        *)
LEMMA FreshExists ==
    ASSUME NEW inp \in [Clients -> Buffers \cup {None}]
    PROVE  \E b \in Buffers : b \notin Range(inp)
<1> SUFFICES ASSUME Buffers \subseteq Range(inp)
             PROVE  FALSE
  OBVIOUS
<1>1. IsFiniteSet(Clients) /\ IsFiniteSet(Buffers) /\ Cardinality(Buffers) > Cardinality(Clients)
  BY RequestBuffersAssumption
<1>2. inp \in Surjection(Clients, Range(inp))
  BY DEF Surjection, Range
<1>3. IsFiniteSet(Range(inp)) /\ Cardinality(Range(inp)) <= Cardinality(Clients)
  BY <1>1, <1>2, FS_Surjection
<1>4. Cardinality(Buffers) <= Cardinality(Range(inp))
  BY <1>3, FS_Subset
<1>5. Cardinality(Buffers) \in Nat /\ Cardinality(Clients) \in Nat /\ Cardinality(Range(inp)) \in Nat
  BY <1>1, <1>3, FS_CardinalityType
<1> QED BY <1>1, <1>3, <1>4, <1>5

(* What the beginning of ReadRequestFromClient leaves.                     *)
Lent(c, w) ==
    LET b == w.input[c]
    IN /\ w.input \in [Clients -> Buffers \cup {None}] /\ b \in Buffers
       /\ w.free \in Seq(Buffers)
       /\ w.buf \in [Buffers -> ConnectionInputs] /\ \A x \in Buffers : Fits(w.buf[x])
       /\ Owned(w.input, w.free) /\ AllSpent(w.free, w.buf)
       /\ \A d \in Clients \ {c} :
            w.input[d] = IF d = AvailableInput THEN None ELSE input[d]
       /\ \A x \in Buffers \ {b} : w.buf[x] = buf[x]
       /\ IF input[c] # None THEN b = input[c] /\ w.buf[b] = buf[b] ELSE Spent(w.buf[b])

LEMMA UnlentFacts ==
    ASSUME TypeInv, Owned(input, FreeInputs), AllSpent(FreeInputs, buf),
           NEW A \in Clients, AvailableInput = A, MayBeTaken(A, input, buf)
    PROVE  /\ Unlent \in [Clients -> Buffers \cup {None}]
           /\ \A d \in Clients : Unlent[d] = IF d = A THEN None ELSE input[d]
           /\ Returned \in Seq(Buffers)
           /\ Owned(Unlent, Returned) /\ AllSpent(Returned, buf)
<1>1. A # None /\ None \notin Buffers
  BY RequestBuffersAssumption
<1>2. input \in [Clients -> Buffers \cup {None}] /\ FreeInputs \in Seq(Buffers)
  BY DEF TypeInv
<1>3. Unlent = [input EXCEPT ![A] = None]
  BY <1>1 DEF Unlent
<1>4. Unlent \in [Clients -> Buffers \cup {None}]
      /\ \A d \in Clients : Unlent[d] = IF d = A THEN None ELSE input[d]
  BY <1>2, <1>3
<1> DEFINE b == input[A]
<1>5. b \in Buffers /\ Spent(buf[b]) /\ b \notin Range(FreeInputs) /\ Distinct(FreeInputs)
  BY <1>2 DEF MayBeTaken, Owned
<1>6. /\ <<b>> \o FreeInputs \in Seq(Buffers) /\ Distinct(<<b>> \o FreeInputs)
      /\ Range(<<b>> \o FreeInputs) = {b} \cup Range(FreeInputs)
  <2> HIDE DEF b
  <2> QED BY <1>2, <1>5, ListCons
<1>7. Returned \in {<<b>> \o FreeInputs, FreeInputs}
  BY DEF Returned
<1>8. /\ Returned \in Seq(Buffers) /\ Distinct(Returned)
      /\ Range(Returned) \subseteq {b} \cup Range(FreeInputs)
  <2>1. CASE Returned = <<b>> \o FreeInputs
    <3> HIDE DEF b
    <3> QED BY <1>6, <2>1
  <2>2. CASE Returned = FreeInputs
    BY <1>2, <1>5, <2>2
  <2> QED BY <1>7, <2>1, <2>2
<1>9. Range(FreeInputs) \subseteq Buffers
  BY <1>2, ElementOfSeq, LenProperties DEF Range
<1>10. \A d \in Clients : Unlent[d] \notin {b} \cup Range(FreeInputs)
  <2> SUFFICES ASSUME NEW d \in Clients
               PROVE  Unlent[d] \notin {b} \cup Range(FreeInputs)
    OBVIOUS
  <2>1. CASE d = A
    BY <1>1, <1>4, <1>5, <1>9, <2>1
  <2>2. CASE d # A
    <3>1. Unlent[d] = input[d]
      BY <1>4, <2>2
    <3>2. input[d] # b /\ input[d] \notin Range(FreeInputs)
      BY <1>1, <1>5, <2>2 DEF Owned
    <3> QED BY <3>1, <3>2
  <2> QED BY <2>1, <2>2
<1>11. Owned(Unlent, Returned)
  <2>1. \A d, e \in Clients : Unlent[d] # None /\ Unlent[d] = Unlent[e] => d = e
    BY <1>4 DEF Owned
  <2> QED BY <1>8, <1>10, <2>1 DEF Owned
<1>12. AllSpent(Returned, buf)
  BY <1>5, <1>8 DEF AllSpent
<1> QED BY <1>4, <1>8, <1>11, <1>12

LEMMA WithBufferFacts ==
    ASSUME TypeInv, BuffersNotShared, FreeSpent, NEW c \in Clients
    PROVE  Lent(c, WithBuffer(c))
<1> DEFINE mine == AvailableInput = c
           inp == IF mine THEN input ELSE Unlent
           free == IF mine THEN FreeInputs ELSE Returned
           fresh == CHOOSE b \in Buffers : b \notin Range(inp) \cup Range(free)
           w == WithBuffer(c)
<1>1. /\ Owned(input, FreeInputs) /\ AllSpent(FreeInputs, buf)
      /\ AvailableInput # None => MayBeTaken(AvailableInput, input, buf)
  BY OwnershipNamed
<1>2. /\ input \in [Clients -> Buffers \cup {None}] /\ FreeInputs \in Seq(Buffers)
      /\ buf \in [Buffers -> ConnectionInputs] /\ \A x \in Buffers : Fits(buf[x])
      /\ AvailableInput \in Clients \cup {None}
  BY DEF TypeInv
<1>3. None \notin Clients /\ None \notin Buffers
  BY RequestBuffersAssumption
<1>4. /\ inp \in [Clients -> Buffers \cup {None}] /\ free \in Seq(Buffers)
      /\ Owned(inp, free) /\ AllSpent(free, buf)
      /\ \A d \in Clients \ {c} : inp[d] = IF d = AvailableInput THEN None ELSE input[d]
      /\ inp[c] = input[c]
  <2>1. CASE AvailableInput \in {c, None}
    <3>1. inp = input /\ free = FreeInputs
      BY <2>1 DEF Unlent, Returned
    <3>2. \A d \in Clients \ {c} : d # AvailableInput
      BY <1>3, <2>1
    <3> HIDE DEF inp, free
    <3> QED BY <1>1, <1>2, <3>1, <3>2
  <2>2. CASE AvailableInput \notin {c, None}
    <3>1. AvailableInput \in Clients
      BY <1>2, <2>2
    <3>2. MayBeTaken(AvailableInput, input, buf)
      BY <1>1, <2>2
    <3>3. /\ Unlent \in [Clients -> Buffers \cup {None}]
          /\ \A d \in Clients : Unlent[d] = IF d = AvailableInput THEN None ELSE input[d]
          /\ Returned \in Seq(Buffers)
          /\ Owned(Unlent, Returned) /\ AllSpent(Returned, buf)
      BY <1>1, <3>1, <3>2, UnlentFacts
    <3>4. inp = Unlent /\ free = Returned /\ c # AvailableInput
      BY <2>2
    <3> HIDE DEF inp, free
    <3> QED BY <3>3, <3>4
  <2> QED BY <2>1, <2>2
<1>5. w = IF inp[c] # None
          THEN [input |-> inp, free |-> free, buf |-> buf]
          ELSE IF free # <<>>
          THEN [input |-> [inp EXCEPT ![c] = Head(free)], free |-> Tail(free), buf |-> buf]
          ELSE [input |-> [inp EXCEPT ![c] = fresh], free |-> <<>>,
                buf |-> [buf EXCEPT ![fresh] = FreshBuffer]]
  BY DEF WithBuffer
<1> HIDE DEF mine, inp, free, w
<1>6. CASE inp[c] # None
  <2>1. w.input = inp /\ w.free = free /\ w.buf = buf
    BY <1>5, <1>6
  <2>2. inp[c] \in Buffers
    BY <1>4, <1>6
  <2>3. Lent(c, w)
    BY <1>2, <1>4, <1>6, <2>1, <2>2 DEF Lent
  <2> QED BY <2>3 DEF w
<1>7. CASE inp[c] = None /\ free # <<>>
  <2> DEFINE b == Head(free)
             inp2 == [inp EXCEPT ![c] = b]
  <2>1. w.input = inp2 /\ w.free = Tail(free) /\ w.buf = buf
    BY <1>5, <1>7
  <2>2. /\ b \in Range(free) /\ Range(free) \subseteq Buffers
        /\ Tail(free) \in Seq(Buffers) /\ Distinct(Tail(free))
        /\ Range(Tail(free)) \subseteq Range(free) /\ b \notin Range(Tail(free))
    BY <1>4, <1>7, ListHead DEF Owned
  <2> HIDE DEF b
  <2>3. /\ inp2 \in [Clients -> Buffers \cup {None}] /\ inp2[c] = b
        /\ \A d \in Clients \ {c} : inp2[d] = inp[d]
    BY <1>4, <2>2
  <2> HIDE DEF inp2
  <2>4. \A d \in Clients : inp[d] \notin Range(free)
    BY <1>4 DEF Owned
  <2>5. Owned(inp2, Tail(free))
    <3>1. ASSUME NEW d \in Clients, NEW e \in Clients, inp2[d] # None, inp2[d] = inp2[e]
          PROVE  d = e
      <4>1. \A x \in Clients \ {c} : inp2[x] # b
        BY <2>2, <2>3, <2>4
      <4>2. CASE d = c \/ e = c
        BY <2>3, <3>1, <4>1, <4>2
      <4>3. CASE d # c /\ e # c
        BY <1>4, <2>3, <3>1, <4>3 DEF Owned
      <4> QED BY <4>2, <4>3
    <3>2. \A d \in Clients : inp2[d] \notin Range(Tail(free))
      BY <2>2, <2>3, <2>4
    <3> QED BY <2>2, <3>1, <3>2 DEF Owned
  <2>6. AllSpent(Tail(free), buf) /\ Spent(buf[b]) /\ b \in Buffers
    BY <1>4, <2>2 DEF AllSpent
  <2>7. Lent(c, w)
    BY <1>2, <1>4, <1>7, <2>1, <2>2, <2>3, <2>5, <2>6 DEF Lent
  <2> QED BY <2>7 DEF w
<1>8. CASE inp[c] = None /\ free = <<>>
  <2>1. Range(free) = {}
    BY <1>8 DEF Range
  <2>2. \E b \in Buffers : b \notin Range(inp) \cup Range(free)
    BY <1>4, <2>1, FreshExists
  <2>3. fresh \in Buffers /\ fresh \notin Range(inp)
    BY <2>2
  <2> DEFINE b == fresh
             inp2 == [inp EXCEPT ![c] = b]
             buf2 == [buf EXCEPT ![b] = FreshBuffer]
  <2>4. w.input = inp2 /\ w.free = <<>> /\ w.buf = buf2
    BY <1>5, <1>8
  <2> HIDE DEF b, fresh
  <2>5. b \in Buffers /\ \A d \in Clients : inp[d] # b
    BY <1>4, <2>3 DEF Range, b
  <2>6. /\ inp2 \in [Clients -> Buffers \cup {None}] /\ inp2[c] = b
        /\ \A d \in Clients \ {c} : inp2[d] = inp[d]
    BY <1>4, <2>5
  <2>7. FreshBuffer \in ConnectionInputs /\ Fits(FreshBuffer) /\ Spent(FreshBuffer)
    <3> DEFINE bf == [i \in 1 .. BUFSIZE |-> None]
    <3>1. BUFSIZE \in Nat /\ MAXBUFSIZE \in Nat /\ BUFSIZE <= MAXBUFSIZE
      BY RequestBuffersAssumption
    <3>2. bf \in Seq(Words \cup {None}) /\ Len(bf) = BUFSIZE
      <4>1. bf \in [1 .. BUFSIZE -> Words \cup {None}]
        OBVIOUS
      <4> HIDE DEF bf
      <4> QED BY <3>1, <4>1
    <3>3. FreshBuffer = [buffer |-> bf, bufptr |-> 0, bufcnt |-> 0, lenLastReq |-> 0]
      BY DEF FreshBuffer
    <3> HIDE DEF bf
    <3>4. /\ FreshBuffer.buffer = bf /\ FreshBuffer.bufptr = 0 /\ FreshBuffer.bufcnt = 0
          /\ FreshBuffer.lenLastReq = 0
      BY <3>3
    <3>5. FreshBuffer \in ConnectionInputs
      BY <3>2, <3>3 DEF ConnectionInputs
    <3>6. Size(FreshBuffer) = BUFSIZE /\ Gotnow(FreshBuffer) = 0
      BY <3>2, <3>4 DEF Size, Gotnow
    <3> QED BY <3>1, <3>4, <3>5, <3>6 DEF Fits, Spent
  <2>8. /\ buf2 \in [Buffers -> ConnectionInputs] /\ buf2[b] = FreshBuffer
        /\ \A x \in Buffers \ {b} : buf2[x] = buf[x]
    BY <1>2, <2>5, <2>7
  <2> HIDE DEF inp2, buf2
  <2>9. \A x \in Buffers : Fits(buf2[x])
    BY <1>2, <2>7, <2>8
  <2>10. Owned(inp2, <<>>)
    <3>1. ASSUME NEW d \in Clients, NEW e \in Clients, inp2[d] # None, inp2[d] = inp2[e]
          PROVE  d = e
      <4>1. CASE d = c \/ e = c
        BY <2>5, <2>6, <3>1, <4>1
      <4>2. CASE d # c /\ e # c
        BY <1>4, <2>6, <3>1, <4>2 DEF Owned
      <4> QED BY <4>1, <4>2
    <3>2. Range(<<>>) = {} /\ Distinct(<<>>)
      BY DEF Range, Distinct
    <3> QED BY <3>1, <3>2 DEF Owned
  <2>11. AllSpent(<<>>, buf2) /\ <<>> \in Seq(Buffers)
    BY DEF AllSpent, Range
  <2>12. Lent(c, w)
    BY <1>4, <1>8, <2>4, <2>5, <2>6, <2>7, <2>8, <2>9, <2>10, <2>11 DEF Lent
  <2> QED BY <2>12 DEF w
<1> QED BY <1>6, <1>7, <1>8

(* The request that was executed last is passed over.                      *)
Advanced(o) == [o EXCEPT !.bufptr = @ + o.lenLastReq]

LEMMA AdvancedFacts ==
    ASSUME NEW c, NEW o \in ConnectionInputs, Fits(o), NEW a \in Nat, NEW g \in Nat,
           \/ Unread(c, o, o.lenLastReq, a, g)
           \/ Spent(o) /\ g + 1 = a
    PROVE  /\ Advanced(o) \in ConnectionInputs /\ Fits(Reset(Advanced(o)))
           /\ Unread(c, Reset(Advanced(o)), 0, a, g)
<1> DEFINE o1 == Reset(Advanced(o))
           L == o.lenLastReq
<1>1. /\ o.bufptr \in Nat /\ o.bufcnt \in Nat /\ L \in Nat /\ Size(o) \in Nat
      /\ Gotnow(o) \in Nat /\ L <= Gotnow(o) /\ o.bufcnt = o.bufptr + Gotnow(o)
      /\ o.bufptr + Gotnow(o) <= Size(o) /\ Size(o) <= MAXBUFSIZE
  BY BufferFacts
<1>2. /\ Advanced(o) \in ConnectionInputs /\ o1 \in ConnectionInputs
      /\ o1.buffer = o.buffer /\ o1.bufptr = o.bufptr + L /\ o1.bufcnt = o.bufcnt
      /\ o1.lenLastReq = 0
  <2>1. o.bufptr + L \in Nat
    BY <1>1
  <2> QED BY <2>1 DEF Advanced, Reset, ConnectionInputs
<1> HIDE DEF o1
<1>3. Size(o1) = Size(o)
  BY <1>2 DEF Size
<1>4. Gotnow(o1) = Gotnow(o) - L
  <2>1. Gotnow(o1) = o.bufcnt - (o.bufptr + L)
    BY <1>2 DEF Gotnow
  <2> QED BY ONLY <1>1, <2>1
<1>5. Fits(o1)
  <2>1. o1.bufptr + 0 <= o.bufcnt
    BY ONLY <1>1, <1>2
  <2>2. o.bufcnt <= Size(o)
    BY ONLY <1>1
  <2> QED BY <1>1, <1>2, <1>3, <2>1, <2>2 DEF Fits
<1>6. \A i \in 1 .. Gotnow(o) - L : At(o1, i) = At(o, L + i)
  <2>1. \A i \in 1 .. Gotnow(o) - L : o.bufptr + L + i = o.bufptr + (L + i)
    BY ONLY <1>1
  <2> QED BY <1>2, <2>1 DEF At
<1>7. CASE Unread(c, o, L, a, g)
  <2>1. /\ Gotnow(o) - L = g + 1 - a
        /\ \A i \in 1 .. Gotnow(o) - L : IsWord(c, At(o, L + i), a + i)
    BY <1>7, UnreadFacts
  <2>2. Gotnow(o1) - 0 = g + 1 - a /\ Gotnow(o1) - 0 = Gotnow(o) - L
    BY <1>1, <1>4, <2>1
  <2>3. \A i \in 1 .. Gotnow(o) - L : 0 + i = i
    BY <1>1
  <2>4. \A i \in 1 .. Gotnow(o1) - 0 : IsWord(c, At(o1, 0 + i), a + i)
    BY <1>6, <2>1, <2>2, <2>3
  <2>5. Unread(c, o1, 0, a, g)
    BY <2>2, <2>4 DEF Unread
  <2> QED BY <1>2, <1>5, <2>5 DEF o1
<1>8. CASE Spent(o) /\ g + 1 = a
  <2>1. Gotnow(o) = L
    BY <1>8 DEF Spent
  <2>2. Gotnow(o1) - 0 = 0 /\ g + 1 - a = 0
    BY <1>1, <1>4, <1>8, <2>1
  <2>3. Unread(c, o1, 0, a, g)
    BY <2>2 DEF Unread
  <2> QED BY <1>2, <1>5, <2>3 DEF o1
<1> QED BY <1>7, <1>8

(* The buffer that a client has between its requests.                      *)
LEMMA LentUnread ==
    ASSUME IInv, NEW c \in Clients, connected[c] = "yes", ~Executing(c)
    PROVE  LET w == WithBuffer(c)
               o == Advanced(w.buf[w.input[c]])
           IN /\ o \in ConnectionInputs /\ Fits(Reset(o))
              /\ Unread(c, Reset(o), 0, Before(c, executed[c]), got[c])
<1> DEFINE w == WithBuffer(c)
           b == w.input[c]
           a == Before(c, executed[c])
<1>1. TypeInv /\ BuffersNotShared /\ FreeSpent /\ Waiting(c)
  BY DEF IInv, ClientInv
<1>2. Lent(c, w)
  BY <1>1, WithBufferFacts
<1> HIDE DEF w
<1>3. got[c] \in Nat /\ executed[c] \in 0 .. Len(Requests[c]) + 1
  BY <1>1, RequestsLength DEF TypeInv
<1>4. a \in Nat
  <2>1. executed[c] \in executed[c] .. Len(Requests[c]) + 1
    BY <1>3, RequestsLength
  <2> QED BY <1>3, <2>1, BeforeGrows
<1>5. /\ b \in Buffers /\ w.buf[b] \in ConnectionInputs /\ Fits(w.buf[b])
      /\ IF input[c] # None THEN b = input[c] /\ w.buf[b] = buf[b] ELSE Spent(w.buf[b])
  BY <1>2 DEF Lent
<1>6. \/ Unread(c, w.buf[b], w.buf[b].lenLastReq, a, got[c])
      \/ Spent(w.buf[b]) /\ got[c] + 1 = a
  BY <1>1, <1>5 DEF Waiting
<1> HIDE DEF a, b
<1>7. /\ Advanced(w.buf[b]) \in ConnectionInputs /\ Fits(Reset(Advanced(w.buf[b])))
      /\ Unread(c, Reset(Advanced(w.buf[b])), 0, a, got[c])
  BY <1>3, <1>4, <1>5, <1>6, AdvancedFacts
<1> QED BY <1>7 DEF a, b, w

(* A step of one client that does not disturb another.                     *)
LEMMA OtherUndisturbed ==
    ASSUME IInv, NEW d \in Clients, ~Executing(d), ~Executing(d)',
           connected'[d] = connected[d], executed'[d] = executed[d], got'[d] = got[d],
           d \in ClientsWithInput' <=> d \in ClientsWithInput,
           \/ input'[d] = input[d] /\ (input[d] # None => buf'[input[d]] = buf[input[d]])
           \/ d = AvailableInput /\ input'[d] = None
    PROVE  ClientInv(d)'
<1> DEFINE a == Before(d, executed[d])
<1>1. ClientInv(d) /\ TypeInv /\ BuffersNotShared
  BY DEF IInv
<1>2. Whole(d, executed[d])' <=> Whole(d, executed[d])
  BY DEF Whole
<1>3. ASSUME connected[d] = "yes"
      PROVE  Waiting(d)'
  <2>1. Waiting(d)
    BY <1>1, <1>3 DEF ClientInv
  <2>2. CASE input'[d] = input[d] /\ (input[d] # None => buf'[input[d]] = buf[input[d]])
    BY <1>2, <2>1, <2>2 DEF Waiting
  <2>3. CASE d = AvailableInput /\ input'[d] = None
    <3>1. MayBeTaken(d, input, buf)
      <4>1. AvailableInput # None
        BY <2>3, RequestBuffersAssumption
      <4> QED BY <1>1, <2>3, <4>1, OwnershipNamed
    <3> DEFINE o == buf[input[d]]
    <3>2. o \in ConnectionInputs /\ Fits(o)
      BY <1>1, <3>1 DEF TypeInv, MayBeTaken
    <3>3. Gotnow(o) = o.lenLastReq /\ Unread(d, o, o.lenLastReq, a, got[d])
      BY <2>1, <3>1 DEF MayBeTaken, Spent, Waiting
    <3> HIDE DEF o, a
    <3>4. Gotnow(o) - o.lenLastReq = got[d] + 1 - a /\ Gotnow(o) \in Nat
      BY <3>2, <3>3, UnreadFacts, BufferFacts
    <3>5. got[d] \in Nat /\ a \in Nat
      <4>1. executed[d] \in 0 .. Len(Requests[d]) + 1
            /\ executed[d] \in executed[d] .. Len(Requests[d]) + 1
        BY <1>1, RequestsLength DEF TypeInv
      <4> QED BY <1>1, <4>1, BeforeGrows DEF TypeInv, a
    <3>6. got[d] + 1 = a
      BY ONLY <3>3, <3>4, <3>5
    <3> QED BY <1>2, <2>1, <2>3, <3>6 DEF Waiting, a
  <2> QED BY <2>2, <2>3
<1>4. input[d] = None => input'[d] = None
  OBVIOUS
<1> QED BY <1>1, <1>3, <1>4 DEF ClientInv

LEMMA OwnershipNamedNext ==
    /\ BuffersNotShared' <=> /\ Owned(input', FreeInputs')
                             /\ AvailableInput' # None => MayBeTaken(AvailableInput', input', buf')
    /\ FreeSpent' <=> AllSpent(FreeInputs', buf')
<1>1. BuffersNotShared' <=> /\ Owned(input', FreeInputs')
                            /\ AvailableInput' # None => MayBeTaken(AvailableInput', input', buf')
  BY DEF BuffersNotShared, Owned, Distinct, MayBeTaken, Spent
<1>2. FreeSpent' <=> AllSpent(FreeInputs', buf')
  BY DEF FreeSpent, AllSpent, Range
<1> QED BY <1>1, <1>2

---------------------------------------------------------------------------
(* Every step preserves the invariant.                                     *)

LEMMA CloseFacts ==
    ASSUME NEW c \in Clients, NEW inp \in [Clients -> Buffers \cup {None}],
           NEW free \in Seq(Buffers), NEW bufs \in [Buffers -> ConnectionInputs],
           \A x \in Buffers : Fits(bufs[x]), Owned(inp, free), AllSpent(free, bufs),
           connected \in [Clients -> {"no", "yes", "closed"}], ClientsWithInput \subseteq Clients,
           Close(c, inp, free, bufs)
    PROVE  /\ connected' \in [Clients -> {"no", "yes", "closed"}] /\ connected'[c] = "closed"
           /\ \A d \in Clients \ {c} : connected'[d] = connected[d]
           /\ input' \in [Clients -> Buffers \cup {None}] /\ input'[c] = None
           /\ \A d \in Clients \ {c} : input'[d] = inp[d]
           /\ FreeInputs' \in Seq(Buffers)
           /\ buf' \in [Buffers -> ConnectionInputs] /\ \A x \in Buffers : Fits(buf'[x])
           /\ \A x \in Buffers : x # inp[c] => buf'[x] = bufs[x]
           /\ Owned(input', FreeInputs') /\ AllSpent(FreeInputs', buf')
           /\ ClientsWithInput' \subseteq Clients /\ c \notin ClientsWithInput'
           /\ \A d \in Clients \ {c} : d \in ClientsWithInput' <=> d \in ClientsWithInput
<1> DEFINE b == inp[c]
<1>1. /\ connected' = [connected EXCEPT ![c] = "closed"]
      /\ input' = [inp EXCEPT ![c] = None]
      /\ FreeInputs' = IF free = <<>> /\ b # None THEN <<b>> ELSE free
      /\ buf' = IF b = None THEN bufs
                ELSE [bufs EXCEPT ![b].bufptr = 0, ![b].bufcnt = 0, ![b].lenLastReq = 0]
      /\ ClientsWithInput' = ClientsWithInput \ {c}
  BY DEF Close
<1>2. /\ connected' \in [Clients -> {"no", "yes", "closed"}] /\ connected'[c] = "closed"
      /\ \A d \in Clients \ {c} : connected'[d] = connected[d]
  BY <1>1
<1>3. /\ input' \in [Clients -> Buffers \cup {None}] /\ input'[c] = None
      /\ \A d \in Clients \ {c} : input'[d] = inp[d]
  BY <1>1
<1>4. /\ ClientsWithInput' \subseteq Clients /\ c \notin ClientsWithInput'
      /\ \A d \in Clients \ {c} : d \in ClientsWithInput' <=> d \in ClientsWithInput
  BY <1>1
<1>5. None \notin Buffers /\ b \in Buffers \cup {None} /\ b \notin Range(free)
  BY RequestBuffersAssumption DEF Owned
<1> HIDE DEF b
<1>6. /\ buf' \in [Buffers -> ConnectionInputs] /\ \A x \in Buffers : Fits(buf'[x])
      /\ \A x \in Buffers : x # b => buf'[x] = bufs[x]
      /\ b # None => Spent(buf'[b])
  <2>1. CASE b = None
    BY <1>1, <2>1
  <2>2. CASE b # None
    <3> DEFINE o1 == [bufs[b] EXCEPT !.bufptr = 0, !.bufcnt = 0, !.lenLastReq = 0]
    <3>1. b \in Buffers /\ bufs[b] \in ConnectionInputs /\ Fits(bufs[b])
      BY <1>5, <2>2
    <3>2. buf' = [bufs EXCEPT ![b] = o1]
      BY <1>1, <2>2, <3>1
    <3>3. /\ o1 \in ConnectionInputs /\ o1.buffer = bufs[b].buffer /\ o1.bufptr = 0
          /\ o1.bufcnt = 0 /\ o1.lenLastReq = 0
      BY <3>1 DEF ConnectionInputs
    <3> HIDE DEF o1
    <3>4. Size(o1) = Size(bufs[b]) /\ Gotnow(o1) = 0
      BY <3>3 DEF Size, Gotnow
    <3>5. Size(bufs[b]) \in Nat /\ Size(bufs[b]) <= MAXBUFSIZE
      BY <3>1, BufferFacts
    <3>6. Fits(o1) /\ Spent(o1)
      BY <3>3, <3>4, <3>5 DEF Fits, Spent
    <3> QED BY <3>1, <3>2, <3>3, <3>6
  <2> QED BY <2>1, <2>2
<1>7. CASE FreeInputs' = free
  <2>1. Owned(input', FreeInputs')
    <3>1. \A d, e \in Clients : input'[d] # None /\ input'[d] = input'[e] => d = e
      BY <1>3 DEF Owned
    <3>2. None \notin Range(free)
      BY <1>5, ElementOfSeq, LenProperties DEF Range
    <3>3. \A d \in Clients : input'[d] \notin Range(free)
      BY <1>3, <3>2 DEF Owned
    <3> QED BY <1>7, <3>1, <3>3 DEF Owned
  <2>2. AllSpent(FreeInputs', buf')
    <3>1. Range(free) \subseteq Buffers
      BY ElementOfSeq, LenProperties DEF Range
    <3> QED BY <1>5, <1>6, <1>7, <3>1 DEF AllSpent
  <2> QED BY <1>2, <1>3, <1>4, <1>6, <1>7, <2>1, <2>2 DEF b
<1>8. CASE FreeInputs' = <<b>> /\ b # None
  <2>1. b \in Buffers /\ <<b>> \in Seq(Buffers) /\ Range(<<b>>) = {b} /\ Distinct(<<b>>)
    BY <1>5, <1>8 DEF Range, Distinct
  <2>2. Owned(input', FreeInputs')
    <3>1. \A d, e \in Clients : input'[d] # None /\ input'[d] = input'[e] => d = e
      BY <1>3 DEF Owned
    <3>2. \A d \in Clients \ {c} : inp[d] # b
      BY <1>8 DEF Owned, b
    <3>3. \A d \in Clients : input'[d] # b
      BY <1>3, <1>8, <3>2
    <3> QED BY <1>8, <2>1, <3>1, <3>3 DEF Owned
  <2>3. AllSpent(FreeInputs', buf')
    BY <1>6, <1>8, <2>1 DEF AllSpent
  <2> QED BY <1>2, <1>3, <1>4, <1>6, <1>8, <2>1, <2>2, <2>3 DEF b
<1> QED BY <1>1, <1>7, <1>8 DEF b

LEMMA KillClientInv ==
    ASSUME IInv, NEW c \in Clients, KillClient(c)
    PROVE  IInv'
<1>1. TypeInv /\ BuffersNotShared /\ FreeSpent /\ SentInv
  BY DEF IInv
<1>2. /\ Owned(input, FreeInputs) /\ AllSpent(FreeInputs, buf)
      /\ AvailableInput # None => MayBeTaken(AvailableInput, input, buf)
  BY <1>1, OwnershipNamed
<1>3. /\ Close(c, input, FreeInputs, buf) /\ current = None /\ current' = None
      /\ AvailableInput' = IF AvailableInput = c THEN None ELSE AvailableInput
      /\ UNCHANGED <<sent, got, hungUp, big_requests, executed>>
  BY DEF KillClient
<1>4. /\ connected' \in [Clients -> {"no", "yes", "closed"}] /\ connected'[c] = "closed"
      /\ \A d \in Clients \ {c} : connected'[d] = connected[d]
      /\ input' \in [Clients -> Buffers \cup {None}] /\ input'[c] = None
      /\ \A d \in Clients \ {c} : input'[d] = input[d]
      /\ FreeInputs' \in Seq(Buffers)
      /\ buf' \in [Buffers -> ConnectionInputs] /\ \A x \in Buffers : Fits(buf'[x])
      /\ \A x \in Buffers : x # input[c] => buf'[x] = buf[x]
      /\ Owned(input', FreeInputs') /\ AllSpent(FreeInputs', buf')
      /\ ClientsWithInput' \subseteq Clients /\ c \notin ClientsWithInput'
      /\ \A d \in Clients \ {c} : d \in ClientsWithInput' <=> d \in ClientsWithInput
  BY <1>1, <1>2, <1>3, CloseFacts DEF TypeInv
<1>5. TypeInv'
  BY <1>1, <1>3, <1>4 DEF TypeInv
<1>6. \A d \in Clients \ {c} : input[d] # None => input[d] # input[c] /\ input[d] \in Buffers
  BY <1>1, <1>2 DEF Owned, TypeInv
<1>7. BuffersNotShared' /\ FreeSpent'
  <2>1. ASSUME AvailableInput' # None
        PROVE  MayBeTaken(AvailableInput', input', buf')
    <3>1. AvailableInput' = AvailableInput /\ AvailableInput \in Clients \ {c}
      BY <1>1, <1>3, <2>1 DEF TypeInv
    <3>2. MayBeTaken(AvailableInput, input, buf)
      BY <1>2, <2>1, <3>1
    <3> QED BY <1>4, <1>6, <3>1, <3>2 DEF MayBeTaken
  <2> QED BY <1>4, <2>1, OwnershipNamedNext
<1>8. SentInv'
  BY <1>1, <1>3 DEF SentInv
<1>9. ASSUME NEW d \in Clients
      PROVE  ClientInv(d)'
  <2>1. ~Executing(d) /\ ~Executing(d)'
    BY <1>3 DEF Executing
  <2>2. CASE d = c
    BY <1>4, <2>1, <2>2 DEF ClientInv
  <2>3. CASE d # c
    <3>1. connected'[d] = connected[d] /\ executed'[d] = executed[d] /\ got'[d] = got[d]
          /\ (d \in ClientsWithInput' <=> d \in ClientsWithInput)
      BY <1>3, <1>4, <2>3
    <3>2. input'[d] = input[d] /\ (input[d] # None => buf'[input[d]] = buf[input[d]])
      BY <1>4, <1>6, <2>3
    <3> QED BY <2>1, <3>1, <3>2, OtherUndisturbed
  <2> QED BY <2>2, <2>3
<1> QED BY <1>5, <1>7, <1>8, <1>9 DEF IInv

LEMMA SameClients ==
    ASSUME \A c \in Clients : ClientInv(c),
           UNCHANGED <<got, connected, input, buf, ClientsWithInput, current, executed>>
    PROVE  \A c \in Clients : ClientInv(c)'
  BY DEF ClientInv, Executing, Waiting, Whole, Executed, Current

LEMMA SendInv ==
    ASSUME IInv, NEW c \in Clients, Send(c)
    PROVE  IInv'
<1>1. TypeInv /\ BuffersNotShared /\ FreeSpent /\ SentInv
  BY DEF IInv
<1>2. /\ sent' = [sent EXCEPT ![c] = @ + 1] /\ sent[c] < Len(Stream[c])
      /\ Big(c, Stream[c][sent[c] + 1].req) => c \in big_requests
      /\ UNCHANGED <<got, hungUp, connected, input, buf, AvailableInput, FreeInputs,
                     ClientsWithInput, big_requests, current, executed>>
  BY DEF Send, Big
<1>3. sent \in [Clients -> Nat] /\ got \in [Clients -> Nat]
      /\ \A d \in Clients : sent[d] <= Len(Stream[d]) /\ got[d] <= sent[d]
  BY <1>1 DEF TypeInv
<1>4. Len(Stream[c]) \in Nat
  BY StreamFacts, LenProperties
<1>5. /\ sent' \in [Clients -> Nat]
      /\ sent'[c] = sent[c] + 1 /\ \A d \in Clients \ {c} : sent'[d] = sent[d]
  BY <1>2, <1>3
<1>6. \A d \in Clients : sent'[d] <= Len(Stream[d]) /\ got[d] <= sent'[d]
  BY <1>2, <1>3, <1>4, <1>5
<1>7. TypeInv'
  BY <1>1, <1>2, <1>5, <1>6 DEF TypeInv
<1>8. BuffersNotShared' /\ FreeSpent'
  BY <1>1, <1>2 DEF BuffersNotShared, FreeSpent
<1>9. SentInv'
  <2> SUFFICES ASSUME NEW d \in Clients, NEW i \in 1 .. sent'[d], Big(d, Stream[d][i].req)
               PROVE  d \in big_requests'
    BY DEF SentInv
  <2>1. CASE i \in 1 .. sent[d]
    BY <1>1, <1>2, <2>1 DEF SentInv
  <2>2. CASE i \notin 1 .. sent[d]
    <3>1. d = c /\ i = sent[c] + 1
      BY <1>3, <1>5, <2>2
    <3> QED BY <1>2, <3>1
  <2> QED BY <2>1, <2>2
<1>10. \A d \in Clients : ClientInv(d)'
  BY <1>2, SameClients DEF IInv
<1> QED BY <1>7, <1>8, <1>9, <1>10 DEF IInv

LEMMA HangUpInv ==
    ASSUME IInv, NEW c \in Clients, HangUp(c)
    PROVE  IInv'
<1>1. TypeInv /\ BuffersNotShared /\ FreeSpent /\ SentInv
  BY DEF IInv
<1>2. /\ hungUp' = hungUp \cup {c}
      /\ UNCHANGED <<sent, got, connected, input, buf, AvailableInput, FreeInputs,
                     ClientsWithInput, big_requests, current, executed>>
  BY DEF HangUp
<1>3. TypeInv'
  BY <1>1, <1>2 DEF TypeInv
<1>4. BuffersNotShared' /\ FreeSpent' /\ SentInv'
  BY <1>1, <1>2 DEF BuffersNotShared, FreeSpent, SentInv
<1>5. \A d \in Clients : ClientInv(d)'
  BY <1>2, SameClients DEF IInv
<1> QED BY <1>3, <1>4, <1>5 DEF IInv

(* The invariant of the buffers after a step that has lent one to c and    *)
(* changed no other; AvailableInput is nobody or c.                        *)
HandedOver(c, o) ==
    /\ input' \in [Clients -> Buffers \cup {None}] /\ FreeInputs' \in Seq(Buffers)
    /\ buf' \in [Buffers -> ConnectionInputs] /\ \A x \in Buffers : Fits(buf'[x])
    /\ AvailableInput' \in Clients \cup {None}
    /\ BuffersNotShared' /\ FreeSpent'
    /\ input'[c] \in Buffers /\ input'[c] # None /\ buf'[input'[c]] = o
    /\ \A d \in Clients \ {c} :
         \/ input'[d] = input[d] /\ (input[d] # None => buf'[input[d]] = buf[input[d]])
         \/ d = AvailableInput /\ input'[d] = None

LEMMA LentBuffers ==
    ASSUME TypeInv, NEW c \in Clients, NEW w, Lent(c, w), NEW o \in ConnectionInputs, Fits(o),
           input' = w.input, FreeInputs' = w.free,
           buf' = [w.buf EXCEPT ![w.input[c]] = o],
           AvailableInput' = None \/ (AvailableInput' = c /\ Spent(o))
    PROVE  HandedOver(c, o)
<1> DEFINE b == w.input[c]
<1>1. /\ w.input \in [Clients -> Buffers \cup {None}] /\ b \in Buffers
      /\ w.free \in Seq(Buffers)
      /\ w.buf \in [Buffers -> ConnectionInputs] /\ \A x \in Buffers : Fits(w.buf[x])
      /\ Owned(w.input, w.free) /\ AllSpent(w.free, w.buf)
      /\ \A d \in Clients \ {c} :
           w.input[d] = IF d = AvailableInput THEN None ELSE input[d]
      /\ \A x \in Buffers \ {b} : w.buf[x] = buf[x]
  BY DEF Lent
<1>2. None \notin Buffers
  BY RequestBuffersAssumption
<1>3. /\ buf' \in [Buffers -> ConnectionInputs] /\ buf'[b] = o
      /\ \A x \in Buffers \ {b} : buf'[x] = w.buf[x] /\ w.buf[x] = buf[x]
  BY <1>1
<1>4. \A x \in Buffers : Fits(buf'[x])
  BY <1>1, <1>3
<1>5. b \notin Range(w.free) /\ \A d \in Clients \ {c} : w.input[d] # b
  BY <1>1, <1>2 DEF Owned
<1>6. AllSpent(FreeInputs', buf')
  <2>1. Range(w.free) \subseteq Buffers
    BY <1>1, ElementOfSeq, LenProperties DEF Range
  <2> QED BY <1>1, <1>3, <1>5, <2>1 DEF AllSpent
<1>7. input'[c] = b /\ b # None /\ buf'[input'[c]] = o
  BY <1>1, <1>2, <1>3
<1>8. AvailableInput' # None => MayBeTaken(AvailableInput', input', buf')
  BY <1>7 DEF MayBeTaken
<1>9. BuffersNotShared' /\ FreeSpent'
  BY <1>1, <1>6, <1>8, OwnershipNamedNext
<1>10. ASSUME NEW d \in Clients \ {c}
       PROVE  \/ input'[d] = input[d] /\ (input[d] # None => buf'[input[d]] = buf[input[d]])
              \/ d = AvailableInput /\ input'[d] = None
  <2>1. CASE d = AvailableInput
    BY <1>1, <2>1
  <2>2. CASE d # AvailableInput
    <3>1. input'[d] = input[d] /\ input[d] # b
      BY <1>1, <1>5, <2>2
    <3>2. input[d] \in Buffers \cup {None}
      BY DEF TypeInv
    <3> QED BY <1>3, <3>1, <3>2
  <2> QED BY <2>1, <2>2
<1> QED BY <1>1, <1>3, <1>4, <1>7, <1>9, <1>10 DEF HandedOver

(* The request that the server makes up is put in front of the data.       *)
Inserted(c, o) ==
    LET roomy == IF Gotnow(o) + 1 > Size(o) THEN Resized(o, Gotnow(o) + 1) ELSE o
        moveup == IF roomy.bufptr = 0 THEN 1 ELSE 0
        start == roomy.bufptr + moveup
    IN [roomy EXCEPT
          !.buffer = [i \in DOMAIN @ |->
                        IF i = start THEN FakeRequest(c)
                        ELSE IF i \in start + 1 .. start + Gotnow(o)
                        THEN @[i - moveup] ELSE @[i]],
          !.bufptr = start - 1,
          !.bufcnt = @ + moveup]

LEMMA InsertedFacts ==
    ASSUME NEW c \in Clients, NEW o \in ConnectionInputs, Fits(o), o.lenLastReq = 0,
           Gotnow(o) = 0
    PROVE  /\ Inserted(c, o) \in ConnectionInputs /\ Fits(Inserted(c, o))
           /\ Inserted(c, o).lenLastReq = 0 /\ Unread(c, Inserted(c, o), 0, 0, 0)
<1> DEFINE roomy == IF Gotnow(o) + 1 > Size(o) THEN Resized(o, Gotnow(o) + 1) ELSE o
           moveup == IF roomy.bufptr = 0 THEN 1 ELSE 0
           start == roomy.bufptr + moveup
           word(i) == IF i = start THEN FakeRequest(c) ELSE roomy.buffer[i]
           bf == [i \in 1 .. Size(roomy) |-> word(i)]
           o1 == Inserted(c, o)
<1>1. /\ roomy \in ConnectionInputs /\ Fits(roomy) /\ roomy.lenLastReq = 0
      /\ Gotnow(roomy) = 0 /\ Size(roomy) >= 1
  <2>1. Size(o) \in Nat /\ o.bufcnt \in Nat /\ o.bufcnt <= Size(o) /\ 0 + 1 = 1
    BY BufferFacts
  <2>2. CASE 1 > Size(o)
    <3>1. roomy = Resized(o, 1) /\ 1 \in Nat /\ o.bufcnt <= 1 /\ 1 <= MAXBUFSIZE
      BY <2>1, <2>2, RequestBuffersAssumption
    <3>2. Keeps(Resized(o, 1), o) /\ Size(Resized(o, 1)) = 1
      BY <3>1, ResizedKeeps
    <3> HIDE DEF roomy
    <3> QED BY <3>1, <3>2 DEF Keeps
  <2>3. CASE ~(1 > Size(o))
    <3>1. roomy = o /\ Size(o) >= 1
      BY <2>1, <2>3
    <3> QED BY <3>1
  <2> QED BY <2>2, <2>3
<1> HIDE DEF roomy
<1>2. /\ roomy.bufptr \in Nat /\ roomy.bufcnt = roomy.bufptr + 0
      /\ DOMAIN roomy.buffer = 1 .. Size(roomy)
      /\ Size(roomy) \in Nat /\ Size(roomy) <= MAXBUFSIZE
      /\ \A i \in 1 .. Size(roomy) : roomy.buffer[i] \in Words \cup {None}
      /\ roomy.bufptr + 0 <= Size(roomy)
  BY <1>1, BufferFacts
<1>3. /\ start \in 1 .. Size(roomy) /\ start - 1 \in Nat /\ roomy.bufcnt + moveup = start
  <2>1. roomy.bufcnt = roomy.bufptr /\ roomy.bufptr <= Size(roomy)
    BY ONLY <1>2
  <2>2. CASE roomy.bufptr = 0
    BY ONLY <1>1, <1>2, <2>1, <2>2
  <2>3. CASE roomy.bufptr # 0
    BY ONLY <1>1, <1>2, <2>1, <2>3
  <2> QED BY <2>2, <2>3
<1>4. FakeRequest(c) \in Words
  <2>1. SetupPrefix \in Nat /\ Len(Requests[c]) \in Nat
    BY RequestsLength, RequestBuffersAssumption
  <2> QED BY <2>1 DEF FakeRequest, Word, Words
<1>5. bf \in Seq(Words \cup {None}) /\ Len(bf) = Size(roomy) /\ DOMAIN bf = 1 .. Size(roomy)
  <2>1. bf \in [1 .. Size(roomy) -> Words \cup {None}]
    BY <1>2, <1>4
  <2> HIDE DEF bf
  <2> QED BY <1>2, <2>1
<1>6. bf[start] = FakeRequest(c)
  BY <1>3
<1>7. o1 = [roomy EXCEPT !.buffer = bf, !.bufptr = start - 1, !.bufcnt = start]
  <2>1. start + 1 .. start + Gotnow(o) = {}
    BY <1>3
  <2>2. bf = [i \in DOMAIN roomy.buffer |->
                IF i = start THEN FakeRequest(c)
                ELSE IF i \in start + 1 .. start + Gotnow(o)
                THEN roomy.buffer[i - moveup] ELSE roomy.buffer[i]]
    BY <1>2, <2>1
  <2> HIDE DEF bf
  <2> QED BY <1>3, <2>2 DEF Inserted, roomy
<1> HIDE DEF bf, o1, moveup, start
<1>8. /\ o1 \in ConnectionInputs /\ o1.buffer = bf /\ o1.bufptr = start - 1
      /\ o1.bufcnt = start /\ o1.lenLastReq = 0
  <2>1. start \in Nat
    BY <1>2, <1>3
  <2> QED BY <1>1, <1>3, <1>5, <1>7, <2>1 DEF ConnectionInputs
<1>9. Size(o1) = Size(roomy) /\ Gotnow(o1) = 1
  <2>1. Gotnow(o1) = start - (start - 1)
    BY <1>8 DEF Gotnow
  <2> QED BY <1>2, <1>3, <1>5, <1>8, <2>1 DEF Size
<1>10. Fits(o1)
  BY <1>2, <1>3, <1>8, <1>9 DEF Fits
<1>11. At(o1, 1) = FakeRequest(c)
  <2>1. start - 1 + 1 = start
    BY <1>2, <1>3
  <2> QED BY <1>3, <1>5, <1>6, <1>8, <2>1 DEF At
<1>12. Unread(c, o1, 0, 0, 0)
  <2>1. Gotnow(o1) - 0 = 0 + 1 - 0
    BY <1>9
  <2>2. \A i \in 1 .. Gotnow(o1) - 0 : i = 1
    BY <1>9
  <2>3. IsWord(c, At(o1, 0 + 1), 0 + 1)
    BY <1>11 DEF IsWord
  <2> QED BY <2>1, <2>2, <2>3 DEF Unread
<1> QED BY <1>8, <1>10, <1>12 DEF o1

LEMMA ConnectInv ==
    ASSUME IInv, NEW c \in Clients, Connect(c)
    PROVE  IInv'
<1> DEFINE w == WithBuffer(c)
           o0 == w.buf[w.input[c]]
           o == [o0 EXCEPT !.bufptr = @ + o0.lenLastReq, !.lenLastReq = 0]
           o1 == Inserted(c, o)
<1>1. TypeInv /\ BuffersNotShared /\ FreeSpent /\ SentInv /\ ClientInv(c)
  BY DEF IInv
<1>2. /\ connected[c] = "no" /\ current = None
      /\ connected' = [connected EXCEPT ![c] = "yes"]
      /\ input' = w.input /\ FreeInputs' = w.free
      /\ buf' = [w.buf EXCEPT ![w.input[c]] = o1]
      /\ ClientsWithInput' = IF Gotnow(o) + 1 >= FakeRequest(c).len
                             THEN ClientsWithInput \cup {c}
                             ELSE ClientsWithInput \ {c}
      /\ AvailableInput' = None
      /\ UNCHANGED <<sent, got, hungUp, big_requests, current, executed>>
  BY DEF Connect, Inserted
<1>3. Lent(c, w)
  BY <1>1, WithBufferFacts
<1>4. got[c] = 0 /\ executed[c] = 0 /\ input[c] = None
  BY <1>1, <1>2 DEF ClientInv
<1>5. o0 \in ConnectionInputs /\ Fits(o0) /\ Spent(o0)
  BY <1>3, <1>4 DEF Lent
<1> HIDE DEF w, o0
<1>6. o = Reset(Advanced(o0))
  BY <1>5 DEF Reset, Advanced, ConnectionInputs
<1>7. o \in ConnectionInputs /\ Fits(o) /\ o.lenLastReq = 0 /\ Gotnow(o) = 0
  <2>1. Advanced(o0) \in ConnectionInputs /\ Fits(Reset(Advanced(o0)))
        /\ Unread(c, Reset(Advanced(o0)), 0, 1, 0)
    BY <1>5, AdvancedFacts
  <2>2. Reset(Advanced(o0)) \in ConnectionInputs /\ Reset(Advanced(o0)).lenLastReq = 0
    BY <2>1, ResetFacts
  <2> HIDE DEF o
  <2>3. Gotnow(o) - 0 = 0 + 1 - 1 /\ Gotnow(o) \in Nat
    BY <1>6, <2>1, <2>2, UnreadFacts, BufferFacts
  <2> QED BY <1>6, <2>1, <2>2, <2>3
<1> HIDE DEF o
<1>8. /\ o1 \in ConnectionInputs /\ Fits(o1) /\ o1.lenLastReq = 0
      /\ Unread(c, o1, 0, 0, 0)
  BY <1>7, InsertedFacts
<1> HIDE DEF o1
<1>9. /\ input' \in [Clients -> Buffers \cup {None}] /\ FreeInputs' \in Seq(Buffers)
      /\ buf' \in [Buffers -> ConnectionInputs] /\ \A x \in Buffers : Fits(buf'[x])
      /\ AvailableInput' \in Clients \cup {None}
      /\ BuffersNotShared' /\ FreeSpent'
      /\ input'[c] \in Buffers /\ input'[c] # None /\ buf'[input'[c]] = o1
      /\ \A d \in Clients \ {c} :
           \/ input'[d] = input[d] /\ (input[d] # None => buf'[input[d]] = buf[input[d]])
           \/ d = AvailableInput /\ input'[d] = None
  <2>1. /\ input' = w.input /\ FreeInputs' = w.free
        /\ buf' = [w.buf EXCEPT ![w.input[c]] = o1]
        /\ AvailableInput' = None \/ (AvailableInput' = c /\ Spent(o1))
    BY <1>2
  <2>2. TypeInv /\ o1 \in ConnectionInputs /\ Fits(o1)
    BY <1>1, <1>8
  <2>3. HandedOver(c, o1)
    BY <1>3, <2>1, <2>2, LentBuffers
  <2> QED BY <2>3 DEF HandedOver
<1>10. ClientsWithInput' = ClientsWithInput \ {c}
  <2>1. SetupPrefix \in Nat \ {0}
    BY RequestBuffersAssumption
  <2> QED BY <1>2, <1>7, <2>1, FakeRequestFacts
<1>11. /\ connected' \in [Clients -> {"no", "yes", "closed"}] /\ connected'[c] = "yes"
       /\ \A d \in Clients \ {c} : connected'[d] = connected[d]
  BY <1>1, <1>2 DEF TypeInv
<1>12. TypeInv'
  BY <1>1, <1>2, <1>9, <1>10, <1>11 DEF TypeInv
<1>13. SentInv'
  BY <1>1, <1>2 DEF SentInv
<1>14. \A d \in Clients : ~Executing(d) /\ ~Executing(d)'
  BY <1>2 DEF Executing
<1>15. ClientInv(c)'
  <2>1. got'[c] = 0 /\ executed'[c] = 0
    BY <1>2, <1>4
  <2>2. Before(c, 0) = 0 /\ ~(0 + 1 >= Before(c, 0 + 1))
    <3>1. /\ SetupPrefix \in Nat \ {0} /\ SetupStrings \in Nat \ {0}
          /\ 0 \in 0 .. Len(Requests[c])
      BY RequestsLength, RequestBuffersAssumption
    <3>2. Before(c, 0) = 0
      BY DEF Before
    <3>3. Before(c, 0 + 1) = Before(c, 0) + Length(c, 0) /\ Length(c, 0) = 1 + SetupPrefix + SetupStrings
      BY <3>1, BeforeStep
    <3> QED BY <3>1, <3>2, <3>3
  <2>3. ~Whole(c, executed[c])'
    BY <2>1, <2>2 DEF Whole
  <2>4. Unread(c, o1, o1.lenLastReq, Before(c, 0), 0)
    BY <1>8, <2>2
  <2>5. Waiting(c)'
    BY <1>9, <1>10, <2>1, <2>3, <2>4 DEF Waiting
  <2> QED BY <1>11, <1>14, <2>5 DEF ClientInv
<1>16. ASSUME NEW d \in Clients \ {c}
       PROVE  ClientInv(d)'
  <2>1. connected'[d] = connected[d] /\ executed'[d] = executed[d] /\ got'[d] = got[d]
        /\ (d \in ClientsWithInput' <=> d \in ClientsWithInput)
    BY <1>2, <1>10, <1>11
  <2> QED BY <1>9, <1>14, <2>1, OtherUndisturbed
<1> QED BY <1>9, <1>12, <1>13, <1>15, <1>16 DEF IInv

---------------------------------------------------------------------------
(* Executing.                                                              *)

LEMMA HandlerBuffers ==
    ASSUME TypeInv, BuffersNotShared, FreeSpent, NEW c \in Clients, input[c] # None,
           NEW o \in ConnectionInputs, Fits(o), input' = input, FreeInputs' = FreeInputs,
           buf' = [buf EXCEPT ![input[c]] = o],
           AvailableInput' = IF AvailableInput = c THEN None ELSE AvailableInput
    PROVE  HandedOver(c, o)
<1> DEFINE b == input[c]
<1>1. /\ input \in [Clients -> Buffers \cup {None}] /\ b \in Buffers
      /\ FreeInputs \in Seq(Buffers) /\ AvailableInput \in Clients \cup {None}
      /\ buf \in [Buffers -> ConnectionInputs] /\ \A x \in Buffers : Fits(buf[x])
  BY DEF TypeInv
<1>2. /\ Owned(input, FreeInputs) /\ AllSpent(FreeInputs, buf)
      /\ AvailableInput # None => MayBeTaken(AvailableInput, input, buf)
  BY OwnershipNamed
<1>3. b \notin Range(FreeInputs) /\ \A d \in Clients \ {c} : input[d] # b
  BY <1>2 DEF Owned
<1>4. /\ buf' \in [Buffers -> ConnectionInputs] /\ buf'[b] = o
      /\ \A x \in Buffers \ {b} : buf'[x] = buf[x]
  BY <1>1
<1>5. \A x \in Buffers : Fits(buf'[x])
  BY <1>1, <1>4
<1>6. AllSpent(FreeInputs', buf')
  <2>1. Range(FreeInputs) \subseteq Buffers
    BY <1>1, ElementOfSeq, LenProperties DEF Range
  <2> QED BY <1>2, <1>3, <1>4, <2>1 DEF AllSpent
<1>7. ASSUME AvailableInput' # None
      PROVE  MayBeTaken(AvailableInput', input', buf')
  <2>1. AvailableInput' = AvailableInput /\ AvailableInput \in Clients \ {c}
    BY <1>1, <1>7
  <2>2. MayBeTaken(AvailableInput, input, buf)
    BY <1>2, <1>7, <2>1
  <2> QED BY <1>1, <1>3, <1>4, <2>1, <2>2 DEF MayBeTaken
<1>8. BuffersNotShared' /\ FreeSpent'
  BY <1>2, <1>6, <1>7, OwnershipNamedNext
<1>9. \A d \in Clients \ {c} :
         input'[d] = input[d] /\ (input[d] # None => buf'[input[d]] = buf[input[d]])
  BY <1>1, <1>3, <1>4
<1>10. AvailableInput' \in Clients \cup {None} /\ None \notin Buffers
  BY <1>1, RequestBuffersAssumption
<1> QED BY <1>1, <1>4, <1>5, <1>8, <1>9, <1>10 DEF HandedOver

(* The words of the request and those behind it follow each other.         *)
LEMMA Rejoined ==
    ASSUME NEW c, NEW o \in ConnectionInputs, Fits(o), NEW a \in Nat, NEW g \in Nat,
           \A i \in 1 .. o.lenLastReq : IsWord(c, At(o, i), a + i),
           Unread(c, o, o.lenLastReq, a + o.lenLastReq, g)
    PROVE  Unread(c, o, 0, a, g)
<1> DEFINE L == o.lenLastReq
<1>1. L \in Nat /\ Gotnow(o) \in Nat /\ L <= Gotnow(o)
  BY BufferFacts
<1>2. /\ Gotnow(o) - L = g + 1 - (a + L)
      /\ \A i \in 1 .. Gotnow(o) - L : IsWord(c, At(o, L + i), a + L + i)
  BY UnreadFacts
<1>3. \A i \in 1 .. L : IsWord(c, At(o, i), a + i)
  OBVIOUS
<1> HIDE DEF L
<1>4. ASSUME NEW i \in 1 .. Gotnow(o)
      PROVE  IsWord(c, At(o, i), a + i)
  <2>1. CASE i <= L
    BY <1>1, <1>3, <2>1
  <2>2. CASE i > L
    <3>1. i - L \in 1 .. Gotnow(o) - L /\ L + (i - L) = i /\ a + L + (i - L) = a + i
      BY <1>1, <2>2
    <3>2. IsWord(c, At(o, L + (i - L)), a + L + (i - L))
      BY <1>2, <3>1
    <3> QED BY <3>1, <3>2
  <2> QED BY <1>1, <2>1, <2>2
<1>5. Gotnow(o) - 0 = g + 1 - a /\ Gotnow(o) - 0 = Gotnow(o)
  BY ONLY <1>1, <1>2, a \in Nat, g \in Nat
<1>6. \A i \in 1 .. Gotnow(o) : 0 + i = i
  OBVIOUS
<1> QED BY <1>4, <1>5, <1>6 DEF Unread

(* The prefix of the connection setup has told the length of all of it.    *)
Lengthened(o) == [o EXCEPT !.buffer[o.bufptr + 1].len = @ + SetupStrings]

LEMMA LengthenedFacts ==
    ASSUME NEW c \in Clients, NEW o \in ConnectionInputs, Fits(o), At(o, 1) = FakeRequest(c),
           Gotnow(o) >= 1
    PROVE  /\ Lengthened(o) \in ConnectionInputs /\ Fits(Lengthened(o))
           /\ Lengthened(o).lenLastReq = o.lenLastReq
           /\ Gotnow(Lengthened(o)) = Gotnow(o) /\ At(Lengthened(o), 1) = LongRequest(c)
           /\ \A i \in 1 .. Gotnow(o) : i # 1 => At(Lengthened(o), i) = At(o, i)
<1> DEFINE o1 == Lengthened(o)
           n == o.bufptr + 1
           bf == [o.buffer EXCEPT ![n] = LongRequest(c)]
<1>1. /\ o.bufptr \in Nat /\ o.buffer \in Seq(Words \cup {None}) /\ Size(o) \in Nat
      /\ DOMAIN o.buffer = 1 .. Size(o) /\ Gotnow(o) \in Nat /\ o.bufptr + Gotnow(o) <= Size(o)
  BY BufferFacts
<1>2. n \in 1 .. Size(o) /\ o.buffer[n] = FakeRequest(c)
  <2>1. 1 \in 1 .. Gotnow(o)
    BY <1>1
  <2> QED BY <2>1, AtFacts
<1>3. LongRequest(c) \in Words /\ LongRequest(c) = [FakeRequest(c) EXCEPT !.len = @ + SetupStrings]
  <2>1. SetupPrefix \in Nat /\ SetupStrings \in Nat /\ Len(Requests[c]) \in Nat
    BY RequestsLength, RequestBuffersAssumption
  <2> QED BY <2>1 DEF LongRequest, FakeRequest, Word, Words
<1>4. o1 = [o EXCEPT !.buffer = bf]
  <2>1. o1 = [o EXCEPT !.buffer =
                [o.buffer EXCEPT ![n] = [o.buffer[n] EXCEPT !.len = @ + SetupStrings]]]
    BY <1>1, <1>2 DEF Lengthened
  <2>2. [o.buffer[n] EXCEPT !.len = @ + SetupStrings] = LongRequest(c)
    BY <1>2, <1>3
  <2> QED BY <2>1, <2>2
<1>5. /\ bf \in Seq(Words \cup {None}) /\ Len(bf) = Size(o) /\ DOMAIN bf = 1 .. Size(o)
      /\ bf[n] = LongRequest(c) /\ \A i \in 1 .. Size(o) : i # n => bf[i] = o.buffer[i]
  <2>1. o.buffer \in [1 .. Size(o) -> Words \cup {None}]
    BY <1>1, ElementOfSeq DEF Size
  <2>2. bf \in [1 .. Size(o) -> Words \cup {None}]
    BY <1>2, <1>3, <2>1
  <2>3. bf[n] = LongRequest(c) /\ \A i \in 1 .. Size(o) : i # n => bf[i] = o.buffer[i]
    BY <1>1, <1>2
  <2> HIDE DEF bf
  <2> QED BY <1>1, <2>2, <2>3
<1> HIDE DEF bf, o1
<1>6. /\ o1 \in ConnectionInputs /\ o1.buffer = bf /\ o1.bufptr = o.bufptr
      /\ o1.bufcnt = o.bufcnt /\ o1.lenLastReq = o.lenLastReq
  BY <1>4, <1>5 DEF ConnectionInputs
<1>7. Size(o1) = Size(o) /\ Gotnow(o1) = Gotnow(o)
  BY <1>5, <1>6 DEF Size, Gotnow
<1>8. Fits(o1)
  BY <1>6, <1>7 DEF Fits
<1>9. At(o1, 1) = LongRequest(c)
  BY <1>2, <1>5, <1>6 DEF At
<1>10. ASSUME NEW i \in 1 .. Gotnow(o), i # 1
       PROVE  At(o1, i) = At(o, i)
  <2>1. o.bufptr + i \in 1 .. Size(o) /\ o.bufptr + i # n
    BY <1>1, <1>10
  <2>2. At(o1, i) = bf[o.bufptr + i]
    BY <1>5, <1>6, <2>1 DEF At
  <2> QED BY <1>5, <2>1, <2>2, AtFacts
<1> QED BY <1>6, <1>7, <1>8, <1>9, <1>10 DEF o1

(* The client whose request is executed.                                   *)
LEMMA ExecutingFacts ==
    ASSUME IInv, NEW c \in Clients, Executing(c)
    PROVE  LET o == buf[input[c]]
               k == executed[c]
           IN /\ Executed(c) /\ connected[c] = "yes"
              /\ input[c] \in Buffers /\ input[c] # None
              /\ o \in ConnectionInputs /\ Fits(o)
              /\ k \in 0 .. Len(Requests[c]) /\ got[c] \in Nat
              /\ Before(c, k) \in Nat /\ Before(c, k + 1) = Before(c, k) + Length(c, k)
              /\ 1 \in 1 .. o.lenLastReq /\ Gotnow(o) \in Nat /\ Gotnow(o) >= 1
              /\ IsWord(c, Current(c), Before(c, k) + 1)
              /\ \A d \in Clients \ {c} : ~Executing(d)
<1> DEFINE o == buf[input[c]]
           k == executed[c]
           L == o.lenLastReq
<1>1. TypeInv /\ Executed(c) /\ connected[c] = "yes"
  BY DEF IInv, ClientInv
<1>2. input[c] # None /\ k <= Len(Requests[c])
  BY <1>1 DEF Executed
<1>3. /\ input[c] \in Buffers /\ o \in ConnectionInputs /\ Fits(o)
      /\ k \in 0 .. Len(Requests[c]) /\ got[c] \in Nat
  BY <1>1, <1>2, RequestsLength DEF TypeInv
<1>4. /\ Before(c, k) \in Nat /\ Before(c, k + 1) = Before(c, k) + Length(c, k)
      /\ Length(c, k) \in Nat \ {0} /\ (Big(c, k) => Length(c, k) >= 3)
  BY <1>3, BeforeStep
<1>5. L \in Nat /\ L >= 1
  <2>1. L \in Nat /\ SetupPrefix \in Nat
    BY <1>3, RequestBuffersAssumption, BufferFacts
  <2>2. \/ L = 1 + SetupPrefix
        \/ L + (IF Big(c, k) THEN 1 ELSE 0) = Length(c, k)
    BY <1>1 DEF Executed
  <2>3. CASE L = 1 + SetupPrefix
    BY <2>1, <2>3
  <2>4. CASE L + (IF Big(c, k) THEN 1 ELSE 0) = Length(c, k)
    <3>1. CASE Big(c, k)
      BY <1>4, <2>1, <2>4, <3>1
    <3>2. CASE ~Big(c, k)
      BY <1>4, <2>1, <2>4, <3>2
    <3> QED BY <3>1, <3>2
  <2> QED BY <2>1, <2>2, <2>3, <2>4
<1>6. Gotnow(o) \in Nat /\ Gotnow(o) >= 1
  <2>1. Gotnow(o) \in Nat /\ L <= Gotnow(o)
    BY <1>3, BufferFacts
  <2> QED BY <1>5, <2>1
<1>7. IsWord(c, Current(c), Before(c, k) + 1)
  <2>1. \A i \in 1 .. L : IsWord(c, At(o, i), Before(c, k) + i + IF Big(c, k) /\ i > 1 THEN 1 ELSE 0)
    BY <1>1 DEF Executed, Begins
  <2>2. Before(c, k) + 1 + 0 = Before(c, k) + 1 /\ 1 \in 1 .. L
    BY <1>4, <1>5
  <2>3. IsWord(c, At(o, 1), Before(c, k) + 1 + 0)
    BY <2>1, <2>2
  <2> QED BY <2>2, <2>3 DEF Current
<1>8. \A d \in Clients \ {c} : ~Executing(d)
  BY DEF Executing
<1> HIDE DEF o, k, L
<1>9. 1 \in 1 .. L
  BY <1>5
<1> QED BY <1>1, <1>2, <1>3, <1>4, <1>6, <1>7, <1>8, <1>9 DEF o, k, L

(* The other clients, and the rest of the invariant, when c's handler is   *)
(* through.                                                                *)
LEMMA HandlerRest ==
    ASSUME IInv, NEW c \in Clients, Executing(c), NEW o, HandedOver(c, o),
           current' = None, UNCHANGED <<sent, got, hungUp, connected, input>>,
           \A d \in Clients \ {c} : executed'[d] = executed[d],
           executed' \in [Clients -> Nat], executed'[c] <= Len(Requests[c]) + 1,
           ClientsWithInput' \subseteq Clients,
           \A d \in Clients \ {c} : d \in ClientsWithInput' <=> d \in ClientsWithInput,
           big_requests \subseteq big_requests', big_requests' \subseteq Clients,
           Waiting(c)'
    PROVE  IInv'
<1>1. TypeInv /\ SentInv /\ connected[c] = "yes" /\ \A d \in Clients \ {c} : ~Executing(d)
  BY ExecutingFacts DEF IInv
<1>2. TypeInv'
  <2>1. \A d \in Clients : executed'[d] <= Len(Requests[d]) + 1
    BY <1>1 DEF TypeInv
  <2>2. /\ input' \in [Clients -> Buffers \cup {None}] /\ FreeInputs' \in Seq(Buffers)
        /\ buf' \in [Buffers -> ConnectionInputs] /\ \A x \in Buffers : Fits(buf'[x])
        /\ AvailableInput' \in Clients \cup {None}
    BY DEF HandedOver
  <2> QED BY <1>1, <2>1, <2>2 DEF TypeInv
<1>3. BuffersNotShared' /\ FreeSpent'
  BY DEF HandedOver
<1>4. SentInv'
  BY <1>1 DEF SentInv
<1>5. \A d \in Clients : ~Executing(d)'
  BY DEF Executing
<1>6. ASSUME NEW d \in Clients \ {c}
      PROVE  ClientInv(d)'
  <2>1. \/ input'[d] = input[d] /\ (input[d] # None => buf'[input[d]] = buf[input[d]])
        \/ d = AvailableInput /\ input'[d] = None
    BY DEF HandedOver
  <2>2. connected'[d] = connected[d] /\ executed'[d] = executed[d] /\ got'[d] = got[d]
        /\ (d \in ClientsWithInput' <=> d \in ClientsWithInput)
    OBVIOUS
  <2> QED BY <1>1, <1>5, <2>1, <2>2, OtherUndisturbed
<1>7. ClientInv(c)'
  BY <1>1, <1>5 DEF ClientInv
<1> QED BY <1>2, <1>3, <1>4, <1>6, <1>7 DEF IInv

LEMMA ExecuteInv ==
    ASSUME IInv, NEW c \in Clients, Execute(c)
    PROVE  IInv'
<1> DEFINE o == buf[input[c]]
           k == executed[c]
           L == o.lenLastReq
<1>1. /\ Executing(c) /\ Current(c) # FakeRequest(c)
      /\ executed' = [executed EXCEPT ![c] = @ + 1]
      /\ big_requests' = IF KindOf(c) = "enable" THEN big_requests \cup {c} ELSE big_requests
      /\ current' = None
      /\ UNCHANGED <<sent, got, hungUp, connected, input, buf, AvailableInput,
                     FreeInputs, ClientsWithInput>>
  BY DEF Execute
<1>2. TypeInv /\ BuffersNotShared /\ FreeSpent
  BY DEF IInv
<1>3. /\ Executed(c) /\ input[c] \in Buffers /\ input[c] # None
      /\ o \in ConnectionInputs /\ Fits(o) /\ k \in 0 .. Len(Requests[c])
  BY <1>1, ExecutingFacts
<1>4. /\ executed' \in [Clients -> Nat] /\ executed'[c] = k + 1
      /\ \A d \in Clients \ {c} : executed'[d] = executed[d]
  BY <1>1, <1>2 DEF TypeInv
<1>5. executed'[c] <= Len(Requests[c]) + 1
  BY <1>3, <1>4, RequestsLength
<1>6. HandedOver(c, o)
  <2>1. BuffersNotShared' /\ FreeSpent'
    BY <1>1, <1>2 DEF BuffersNotShared, FreeSpent
  <2> QED BY <1>1, <1>2, <1>3, <2>1 DEF HandedOver, TypeInv
<1>7. Waiting(c)'
  <2>1. /\ Unread(c, o, L, Before(c, k + 1), got[c])
        /\ c \in ClientsWithInput <=> Whole(c, k + 1)
    BY <1>1, <1>3 DEF Executed
  <2>2. c \in ClientsWithInput' <=> Whole(c, executed[c])'
    BY <1>1, <1>4, <2>1 DEF Whole
  <2> QED BY <1>1, <1>3, <1>4, <2>1, <2>2 DEF Waiting
<1>8. big_requests \subseteq big_requests' /\ big_requests' \subseteq Clients
      /\ ClientsWithInput' \subseteq Clients
  BY <1>1, <1>2 DEF TypeInv
<1> QED BY <1>1, <1>4, <1>5, <1>6, <1>7, <1>8, HandlerRest

LEMMA PutBackFacts ==
    ASSUME NEW c, NEW o, NEW len, ResetCurrentRequest(c, o, len), FieldAt(o, 1) # 0
    PROVE  /\ AvailableInput' = IF AvailableInput = c THEN None ELSE AvailableInput
           /\ buf' = [buf EXCEPT ![input[c]] = Reset(o)]
           /\ ClientsWithInput' = IF Gotnow(o) >= 1 /\ Gotnow(o) >= FieldAt(o, 1)
                                  THEN ClientsWithInput \cup {c} ELSE ClientsWithInput \ {c}
  BY DEF ResetCurrentRequest, ReadyAgain, Reset

LEMMA ProcInitialConnectionInv ==
    ASSUME IInv, NEW c \in Clients, ProcInitialConnection(c)
    PROVE  IInv'
<1> DEFINE o == buf[input[c]]
           o1 == Lengthened(o)
           L == o.lenLastReq
<1>1. /\ Executing(c) /\ Current(c) = FakeRequest(c) /\ current' = None
      /\ UNCHANGED <<sent, got, hungUp, connected, input, FreeInputs, big_requests, executed>>
      /\ ResetCurrentRequest(c, o1, current.req_len)
  BY DEF ProcInitialConnection, Lengthened
<1>2. TypeInv /\ BuffersNotShared /\ FreeSpent
  BY DEF IInv
<1>3. /\ Executed(c) /\ input[c] \in Buffers /\ input[c] # None
      /\ o \in ConnectionInputs /\ Fits(o) /\ got[c] \in Nat
      /\ Gotnow(o) \in Nat /\ Gotnow(o) >= 1 /\ executed[c] \in 0 .. Len(Requests[c])
  BY <1>1, ExecutingFacts
<1>4. At(o, 1) = FakeRequest(c)
  BY <1>1 DEF Current
<1>5. /\ executed[c] = 0 /\ L = 1 + SetupPrefix /\ Unread(c, o, L, L, got[c])
      /\ Begins(c, o, 0)
  BY <1>1, <1>3 DEF Executed
<1>6. /\ SetupPrefix \in Nat \ {0} /\ SetupStrings \in Nat \ {0} /\ Len(Requests[c]) \in Nat
      /\ 0 \in 0 .. Len(Requests[c])
  BY RequestsLength, RequestBuffersAssumption
<1>7. /\ Before(c, 0) = 0 /\ Before(c, 1) = 1 + SetupPrefix + SetupStrings
      /\ ~Big(c, 0)
  <2>1. Before(c, 0 + 1) = Before(c, 0) + Length(c, 0)
        /\ Length(c, 0) = 1 + SetupPrefix + SetupStrings
    BY <1>6, BeforeStep
  <2>2. Before(c, 0) = 0 /\ ~Big(c, 0)
    BY DEF Before, Big
  <2> QED BY <1>6, <2>1, <2>2
<1> HIDE DEF o
<1>8. Unread(c, o, 0, 0, got[c])
  <2>1. \A i \in 1 .. L : IsWord(c, At(o, i), 0 + i)
    <3>1. \A i \in 1 .. L : IsWord(c, At(o, i), Before(c, 0) + i + IF Big(c, 0) /\ i > 1 THEN 1 ELSE 0)
      BY <1>5 DEF Begins
    <3>2. \A i \in 1 .. L : Before(c, 0) + i + 0 = 0 + i
      BY <1>7
    <3> QED BY <1>7, <3>1, <3>2
  <2>2. 0 + L = L
    BY <1>5, <1>6
  <2> QED BY <1>3, <1>5, <2>1, <2>2, Rejoined
<1>9. Gotnow(o) = got[c] + 1 /\ \A i \in 1 .. Gotnow(o) : IsWord(c, At(o, i), i)
  <2>1. Gotnow(o) - 0 = got[c] + 1 - 0
        /\ \A i \in 1 .. Gotnow(o) - 0 : IsWord(c, At(o, 0 + i), 0 + i)
    BY <1>8, UnreadFacts
  <2>2. Gotnow(o) - 0 = Gotnow(o) /\ \A i \in 1 .. Gotnow(o) : 0 + i = i
    BY <1>3
  <2> QED BY <1>3, <2>1, <2>2
<1>10. /\ o1 \in ConnectionInputs /\ Fits(o1) /\ Gotnow(o1) = Gotnow(o)
       /\ At(o1, 1) = LongRequest(c) /\ o1.lenLastReq = L
       /\ \A i \in 1 .. Gotnow(o) : i # 1 => At(o1, i) = At(o, i)
  BY <1>3, <1>4, LengthenedFacts
<1> HIDE DEF o1
<1> DEFINE o2 == Reset(o1)
<1>11. /\ o2 \in ConnectionInputs /\ o2.lenLastReq = 0 /\ Gotnow(o2) = Gotnow(o)
       /\ Size(o2) = Size(o1) /\ \A i : At(o2, i) = At(o1, i)
       /\ o2.bufptr = o1.bufptr /\ o2.bufcnt = o1.bufcnt
  <2>1. o2.bufptr = o1.bufptr /\ o2.bufcnt = o1.bufcnt
    BY <1>10 DEF Reset, ConnectionInputs
  <2> QED BY <1>10, <2>1, ResetFacts
<1> HIDE DEF o2
<1>12. Fits(o2)
  <2>1. /\ o1.bufptr \in Nat /\ o1.bufcnt \in Nat /\ L \in Nat
        /\ o1.bufptr + L <= o1.bufcnt /\ o1.bufcnt <= Size(o1) /\ Size(o1) <= MAXBUFSIZE
    BY <1>10, BufferFacts DEF Fits
  <2>2. o1.bufptr + 0 <= o1.bufcnt
    BY ONLY <2>1
  <2> QED BY <1>11, <2>1, <2>2 DEF Fits
<1>13. Unread(c, o2, 0, 0, got[c])
  <2>1. \A i \in 1 .. Gotnow(o) : IsWord(c, At(o2, i), i)
    BY <1>9, <1>10, <1>11 DEF IsWord
  <2>2. Gotnow(o2) - 0 = got[c] + 1 - 0 /\ Gotnow(o2) - 0 = Gotnow(o)
        /\ \A i \in 1 .. Gotnow(o) : 0 + i = i
    BY <1>3, <1>9, <1>11
  <2> QED BY <2>1, <2>2 DEF Unread
<1>14. FieldAt(o1, 1) = 1 + SetupPrefix + SetupStrings
  <2>1. LongRequest(c) # None
    BY <1>6, RequestBuffersAssumption DEF LongRequest, Word
  <2> QED BY <1>10, <2>1, FakeRequestFacts DEF FieldAt
<1>15. /\ AvailableInput' = IF AvailableInput = c THEN None ELSE AvailableInput
       /\ buf' = [buf EXCEPT ![input[c]] = o2]
       /\ ClientsWithInput' = IF Gotnow(o1) >= 1 /\ Gotnow(o1) >= FieldAt(o1, 1)
                              THEN ClientsWithInput \cup {c} ELSE ClientsWithInput \ {c}
  <2>1. FieldAt(o1, 1) # 0
    BY <1>6, <1>14
  <2> QED BY <1>1, <2>1, PutBackFacts DEF o2
<1>16. HandedOver(c, o2)
  BY <1>1, <1>2, <1>3, <1>11, <1>12, <1>15, HandlerBuffers
<1>17. Waiting(c)'
  <2>1. c \in ClientsWithInput' <=> got[c] + 1 >= 1 + SetupPrefix + SetupStrings
    BY <1>3, <1>6, <1>9, <1>10, <1>14, <1>15
  <2>2. Whole(c, executed[c])' <=> got[c] + 1 >= 1 + SetupPrefix + SetupStrings
    <3>1. executed'[c] = 0 /\ got'[c] = got[c] /\ 0 <= Len(Requests[c]) /\ 0 + 1 = 1
      BY <1>1, <1>5, <1>6
    <3> QED BY <1>7, <3>1 DEF Whole
  <2>3. Unread(c, o2, o2.lenLastReq, Before(c, executed'[c]), got'[c])
    BY <1>1, <1>5, <1>7, <1>11, <1>13
  <2>4. input'[c] # None /\ buf'[input'[c]] = o2
    BY <1>16 DEF HandedOver
  <2> QED BY <2>1, <2>2, <2>3, <2>4 DEF Waiting
<1>18. /\ executed' \in [Clients -> Nat] /\ executed'[c] <= Len(Requests[c]) + 1
       /\ ClientsWithInput' \subseteq Clients /\ big_requests' \subseteq Clients
       /\ big_requests \subseteq big_requests'
       /\ \A d \in Clients \ {c} : executed'[d] = executed[d]
       /\ \A d \in Clients \ {c} : d \in ClientsWithInput' <=> d \in ClientsWithInput
  BY <1>1, <1>2, <1>15 DEF TypeInv
<1> QED BY <1>1, <1>16, <1>17, <1>18, HandlerRest

(* A Big Request is not put back: BigReqEnable comes after the setup, and  *)
(* GrabServer has four bytes.                                              *)
NoBigPutBack ==
    \A c \in Clients : \A k \in 1 .. Len(Requests[c]) :
        Requests[c][k].kind = "grab" => ~Requests[c][k].big

LEMMA PutBackInv ==
    ASSUME NoBigPutBack, IInv, NEW c \in Clients, PutBack(c)
    PROVE  IInv'
<1> DEFINE o == buf[input[c]]
           k == executed[c]
           L == o.lenLastReq
           w == Current(c)
<1>1. /\ Executing(c) /\ KindOf(c) = "grab" /\ current' = None
      /\ UNCHANGED <<sent, got, hungUp, connected, input, FreeInputs, big_requests, executed>>
      /\ ResetCurrentRequest(c, o, current.req_len)
  BY DEF PutBack
<1>2. TypeInv /\ BuffersNotShared /\ FreeSpent
  BY DEF IInv
<1>3. /\ Executed(c) /\ input[c] \in Buffers /\ input[c] # None
      /\ o \in ConnectionInputs /\ Fits(o) /\ got[c] \in Nat
      /\ Gotnow(o) \in Nat /\ Gotnow(o) >= 1 /\ k \in 0 .. Len(Requests[c])
      /\ Before(c, k) \in Nat /\ Before(c, k + 1) = Before(c, k) + Length(c, k)
      /\ IsWord(c, w, Before(c, k) + 1)
  BY <1>1, ExecutingFacts
<1>4. w.client = c /\ w.req = k /\ w # None
      /\ IF k = 0 THEN w \in {FakeRequest(c), LongRequest(c)}
         ELSE w # FakeRequest(c) /\ w.len = IF Big(c, k) THEN 0 ELSE Length(c, k)
  BY <1>3, FirstWord
<1>5. k # 0 /\ Requests[c][k].kind = "grab"
  BY <1>1, <1>4 DEF KindOf
<1>6. k \in 1 .. Len(Requests[c]) /\ ~Big(c, k)
  <2>1. k \in 1 .. Len(Requests[c])
    BY <1>3, <1>5, RequestsLength
  <2> QED BY <1>5, <2>1 DEF Big, NoBigPutBack
<1>7. At(o, 1) = w /\ FieldAt(o, 1) = Length(c, k) /\ Length(c, k) \in Nat \ {0}
  BY <1>3, <1>4, <1>5, <1>6, BeforeStep DEF Current, FieldAt
<1>8. /\ L + (IF Big(c, k) THEN 1 ELSE 0) = Length(c, k)
      /\ Unread(c, o, L, Before(c, k + 1), got[c]) /\ Begins(c, o, k)
  BY <1>3, <1>4, <1>5 DEF Executed
<1> HIDE DEF o, k
<1>9. L \in Nat /\ L <= Gotnow(o) /\ L = Length(c, k)
  <2>1. L \in Nat /\ L <= Gotnow(o)
    BY <1>3, BufferFacts
  <2> QED BY <1>6, <1>8, <2>1
<1>10. Unread(c, o, 0, Before(c, k), got[c])
  <2>1. \A i \in 1 .. L : IsWord(c, At(o, i), Before(c, k) + i)
    <3>1. \A i \in 1 .. L : IsWord(c, At(o, i), Before(c, k) + i + IF Big(c, k) /\ i > 1 THEN 1 ELSE 0)
      BY <1>8 DEF Begins
    <3>2. \A i \in 1 .. L : Before(c, k) + i + 0 = Before(c, k) + i
      BY <1>3, <1>9
    <3> QED BY <1>6, <3>1, <3>2
  <2>2. Unread(c, o, L, Before(c, k) + L, got[c])
    BY <1>3, <1>8, <1>9
  <2> QED BY <1>3, <2>1, <2>2, Rejoined
<1> DEFINE o2 == Reset(o)
<1>11. /\ o2 \in ConnectionInputs /\ o2.lenLastReq = 0 /\ Gotnow(o2) = Gotnow(o)
       /\ Size(o2) = Size(o) /\ \A i : At(o2, i) = At(o, i)
       /\ o2.bufptr = o.bufptr /\ o2.bufcnt = o.bufcnt
  <2>1. o2.bufptr = o.bufptr /\ o2.bufcnt = o.bufcnt
    BY <1>3 DEF Reset, ConnectionInputs
  <2> QED BY <1>3, <2>1, ResetFacts
<1> HIDE DEF o2
<1>12. Fits(o2)
  <2>1. /\ o.bufptr \in Nat /\ o.bufcnt \in Nat /\ L \in Nat
        /\ o.bufptr + L <= o.bufcnt /\ o.bufcnt <= Size(o) /\ Size(o) <= MAXBUFSIZE
    BY <1>3, BufferFacts DEF Fits
  <2>2. o.bufptr + 0 <= o.bufcnt
    BY ONLY <2>1
  <2> QED BY <1>11, <2>1, <2>2 DEF Fits
<1>13. Unread(c, o2, 0, Before(c, k), got[c])
  <2>1. /\ Gotnow(o) - 0 = got[c] + 1 - Before(c, k)
        /\ \A i \in 1 .. Gotnow(o) - 0 : IsWord(c, At(o, 0 + i), Before(c, k) + i)
    BY <1>10, UnreadFacts
  <2> QED BY <1>11, <2>1 DEF Unread
<1>14. Gotnow(o) = got[c] + 1 - Before(c, k)
  <2>1. Gotnow(o) - 0 = got[c] + 1 - Before(c, k)
    BY <1>10, UnreadFacts
  <2> QED BY <1>3, <2>1
<1>15. /\ AvailableInput' = IF AvailableInput = c THEN None ELSE AvailableInput
       /\ buf' = [buf EXCEPT ![input[c]] = o2]
       /\ ClientsWithInput' = IF Gotnow(o) >= 1 /\ Gotnow(o) >= FieldAt(o, 1)
                              THEN ClientsWithInput \cup {c} ELSE ClientsWithInput \ {c}
  BY <1>1, <1>7, PutBackFacts DEF o2
<1>16. HandedOver(c, o2)
  BY <1>1, <1>2, <1>3, <1>11, <1>12, <1>15, HandlerBuffers
<1>17. Waiting(c)'
  <2>1. c \in ClientsWithInput'
    BY <1>3, <1>7, <1>9, <1>15
  <2>2. Whole(c, executed[c])'
    <3>1. executed'[c] = k /\ got'[c] = got[c] /\ k <= Len(Requests[c])
      BY <1>1, <1>6, RequestsLength DEF k
    <3>2. got[c] + 1 - Before(c, k) >= Length(c, k)
      BY <1>7, <1>9, <1>14
    <3>3. got[c] + 1 >= Before(c, k) + Length(c, k)
      BY ONLY <1>3, <1>7, <3>2
    <3> QED BY <1>3, <3>1, <3>3 DEF Whole
  <2>3. Unread(c, o2, o2.lenLastReq, Before(c, executed'[c]), got'[c])
    BY <1>1, <1>11, <1>13 DEF k
  <2>4. input'[c] # None /\ buf'[input'[c]] = o2
    BY <1>16 DEF HandedOver
  <2> QED BY <2>1, <2>2, <2>3, <2>4 DEF Waiting
<1>18. /\ executed' \in [Clients -> Nat] /\ executed'[c] <= Len(Requests[c]) + 1
       /\ ClientsWithInput' \subseteq Clients /\ big_requests' \subseteq Clients
       /\ big_requests \subseteq big_requests'
       /\ \A d \in Clients \ {c} : executed'[d] = executed[d]
       /\ \A d \in Clients \ {c} : d \in ClientsWithInput' <=> d \in ClientsWithInput
  BY <1>1, <1>2, <1>15 DEF TypeInv
<1> QED BY <1>1, <1>16, <1>17, <1>18, HandlerRest

---------------------------------------------------------------------------
(* ReadRequestFromClient.                                                  *)

LEMMA ReadFacts ==
    ASSUME IInv, NEW c \in Clients, connected[c] = "yes", current = None
    PROVE  LET w == WithBuffer(c)
           IN /\ Lent(c, w)
              /\ Outcome(c, executed[c], ReadOutcome(c, Advanced(w.buf[w.input[c]])))
<1> DEFINE w == WithBuffer(c)
           o == Advanced(w.buf[w.input[c]])
           k == executed[c]
<1>1. TypeInv /\ BuffersNotShared /\ FreeSpent /\ SentInv
  BY DEF IInv
<1>2. Lent(c, w)
  BY <1>1, WithBufferFacts
<1>3. ~Executing(c)
  BY DEF Executing
<1>4. /\ o \in ConnectionInputs /\ Fits(Reset(o))
      /\ Unread(c, Reset(o), 0, Before(c, k), got[c])
  BY <1>3, LentUnread
<1>5. /\ sent[c] \in Nat /\ got[c] \in Nat /\ got[c] <= sent[c] /\ sent[c] <= Len(Stream[c])
      /\ k \in Nat /\ k <= Len(Requests[c]) + 1
  BY <1>1 DEF TypeInv
<1> HIDE DEF o
<1>6. CASE k \in 0 .. Len(Requests[c])
  <2>1. Outcome(c, k, ReadOutcome(c, o))
    BY <1>1, <1>4, <1>5, <1>6, ReadOutcomeFacts
  <2> QED BY <1>2, <2>1 DEF o
<1>7. CASE k = Len(Requests[c]) + 1
  <2>1. Outcome(c, Len(Requests[c]) + 1, ReadOutcome(c, o))
    BY <1>4, <1>5, <1>7, LastOutcome
  <2> QED BY <1>2, <1>7, <2>1 DEF o
<1>8. k \in 0 .. Len(Requests[c]) \/ k = Len(Requests[c]) + 1
  BY <1>5, RequestsLength
<1> QED BY <1>6, <1>7, <1>8

(* The first n of the words that were read, and what follows them.         *)
LEMMA UnreadSplit ==
    ASSUME NEW c, NEW o \in ConnectionInputs, Fits(o), NEW a \in Nat, NEW g \in Nat,
           Unread(c, o, 0, a, g), NEW n \in 0 .. Gotnow(o)
    PROVE  /\ \A i \in 1 .. n : IsWord(c, At(o, i), a + i)
           /\ Unread(c, o, n, a + n, g)
<1>1. Gotnow(o) \in Nat
  BY BufferFacts
<1>2. Gotnow(o) = g + 1 - a /\ \A i \in 1 .. Gotnow(o) : IsWord(c, At(o, i), a + i)
  <2>1. /\ Gotnow(o) - 0 = g + 1 - a
        /\ \A i \in 1 .. Gotnow(o) - 0 : IsWord(c, At(o, 0 + i), a + i)
    BY UnreadFacts
  <2>2. Gotnow(o) - 0 = Gotnow(o) /\ \A i \in 1 .. Gotnow(o) : 0 + i = i
    BY <1>1
  <2> QED BY <2>1, <2>2
<1>3. \A i \in 1 .. n : i \in 1 .. Gotnow(o)
  BY <1>1
<1>4. Gotnow(o) - n = g + 1 - (a + n)
  BY ONLY <1>1, <1>2, a \in Nat, g \in Nat, n \in 0 .. Gotnow(o)
<1>5. ASSUME NEW i \in 1 .. Gotnow(o) - n
      PROVE  IsWord(c, At(o, n + i), a + n + i)
  <2>1. n + i \in 1 .. Gotnow(o) /\ a + (n + i) = a + n + i
    BY <1>1
  <2>2. IsWord(c, At(o, n + i), a + (n + i))
    BY <1>2, <2>1
  <2> QED BY <2>1, <2>2
<1> QED BY <1>2, <1>3, <1>4, <1>5 DEF Unread

(* A request is taken from the head of the buffer.                         *)
Taken(c, k, o, p, g, o1) ==
    /\ o1 \in ConnectionInputs /\ Fits(o1)
    /\ o1.lenLastReq = p.needed - IF p.move THEN 1 ELSE 0
    /\ At(o1, 1) = At(o, 1) /\ Begins(c, o1, k)
    /\ Gotnow(o1) - o1.lenLastReq = Gotnow(o) - p.needed
    /\ Unread(c, o1, o1.lenLastReq, Before(c, k) + p.needed, g)

LEMMA PlainTaken ==
    ASSUME NEW c \in Clients, NEW k \in 0 .. Len(Requests[c]), NEW o \in ConnectionInputs,
           Fits(Reset(o)), NEW g \in Nat, Unread(c, Reset(o), 0, Before(c, k), g),
           NEW n \in 1 .. Gotnow(o), NEW o1, o1 = [o EXCEPT !.lenLastReq = n]
    PROVE  /\ o1 \in ConnectionInputs /\ Fits(o1) /\ o1.lenLastReq = n
           /\ o1.buffer = o.buffer /\ o1.bufptr = o.bufptr /\ o1.bufcnt = o.bufcnt
           /\ Gotnow(o1) = Gotnow(o) /\ Gotnow(o) \in Nat /\ \A i : At(o1, i) = At(o, i)
           /\ \A i \in 1 .. n : IsWord(c, At(o1, i), Before(c, k) + i)
           /\ Unread(c, o1, n, Before(c, k) + n, g)
<1> DEFINE z == Reset(o)
           a == Before(c, k)
<1>0. a \in Nat
  BY BeforeStep
<1>1. /\ z \in ConnectionInputs /\ Gotnow(z) = Gotnow(o) /\ Size(z) = Size(o)
      /\ \A i : At(z, i) = At(o, i)
      /\ z.bufptr = o.bufptr /\ z.bufcnt = o.bufcnt /\ z.lenLastReq = 0
  <2>1. z.bufptr = o.bufptr /\ z.bufcnt = o.bufcnt
    BY DEF Reset, ConnectionInputs
  <2> QED BY <2>1, ResetFacts
<1>2. Fits(z) /\ Unread(c, z, 0, a, g)
  OBVIOUS
<1> HIDE DEF z, a
<1>3. /\ o.bufptr \in Nat /\ o.bufcnt \in Nat /\ Gotnow(o) \in Nat /\ Size(o) \in Nat
      /\ o.bufcnt = o.bufptr + Gotnow(o) /\ o.bufcnt <= Size(o) /\ Size(o) <= MAXBUFSIZE
  BY <1>1, <1>2, BufferFacts
<1>4. n \in Nat /\ n <= Gotnow(o) /\ n \in 0 .. Gotnow(z)
  BY <1>1, <1>3
<1>5. /\ o1 \in ConnectionInputs /\ o1.lenLastReq = n
      /\ o1.buffer = o.buffer /\ o1.bufptr = o.bufptr /\ o1.bufcnt = o.bufcnt
  BY <1>4 DEF ConnectionInputs
<1>6. Gotnow(o1) = Gotnow(o) /\ Size(o1) = Size(o) /\ \A i : At(o1, i) = At(o, i)
  BY <1>5 DEF Gotnow, Size, At
<1>7. Fits(o1)
  <2>1. o.bufptr + n <= o.bufcnt
    BY ONLY <1>3, <1>4
  <2> QED BY <1>3, <1>5, <1>6, <2>1 DEF Fits
<1>8. /\ \A i \in 1 .. n : IsWord(c, At(z, i), a + i)
      /\ Unread(c, z, n, a + n, g)
  BY <1>0, <1>1, <1>2, <1>4, UnreadSplit
<1>9. Unread(c, o1, n, a + n, g)
  <2>1. /\ Gotnow(z) - n = g + 1 - (a + n)
        /\ \A i \in 1 .. Gotnow(z) - n : IsWord(c, At(z, n + i), a + n + i)
    BY <1>8, UnreadFacts
  <2> QED BY <1>1, <1>6, <2>1 DEF Unread
<1>10. \A i \in 1 .. n : IsWord(c, At(o1, i), a + i)
  BY <1>1, <1>6, <1>8
<1> QED BY <1>3, <1>5, <1>6, <1>7, <1>9, <1>10 DEF a

LEMMA RequestTaken ==
    ASSUME NEW c \in Clients, NEW k \in 0 .. Len(Requests[c]), NEW o \in ConnectionInputs,
           Fits(Reset(o)), NEW g \in Nat, Unread(c, Reset(o), 0, Before(c, k), g),
           NEW p, Parsed(c, k, Reset(o), p), ~p.header, Gotnow(o) >= p.needed
    PROVE  Taken(c, k, o, p, g, HeaderMoved([o EXCEPT !.lenLastReq = p.needed], p.move))
<1> DEFINE n == p.needed
           o0 == [o EXCEPT !.lenLastReq = n]
           o1 == HeaderMoved(o0, p.move)
           a == Before(c, k)
<1>1. /\ At(Reset(o), 1) = At(o, 1) /\ Gotnow(Reset(o)) = Gotnow(o) /\ Gotnow(o) \in Nat
  BY ResetFacts, BufferFacts
<1>2. /\ n \in Nat \ {0} /\ p.move \in BOOLEAN /\ (p.move <=> Big(c, k))
      /\ IF At(o, 1) = FakeRequest(c) THEN k = 0 /\ n = 1 + SetupPrefix ELSE n = Length(c, k)
  BY <1>1 DEF Parsed
<1>3. n \in 1 .. Gotnow(o) /\ a \in Nat
  BY <1>1, <1>2, BeforeStep
<1>4. /\ o0 \in ConnectionInputs /\ Fits(o0) /\ o0.lenLastReq = n
      /\ o0.buffer = o.buffer /\ o0.bufptr = o.bufptr /\ o0.bufcnt = o.bufcnt
      /\ Gotnow(o0) = Gotnow(o) /\ \A i : At(o0, i) = At(o, i)
      /\ \A i \in 1 .. n : IsWord(c, At(o0, i), a + i)
      /\ Unread(c, o0, n, a + n, g)
  <2> HIDE DEF n
  <2> QED BY <1>3, PlainTaken
<1> HIDE DEF n, o0, a
<1>5. CASE ~p.move
  <2>1. o1 = o0 /\ ~Big(c, k)
    BY <1>2, <1>5 DEF HeaderMoved
  <2>2. n - 0 = n /\ \A i \in 1 .. n : a + i + 0 = a + i
    BY <1>2, <1>3
  <2>3. Begins(c, o0, k)
    <3>1. \A i \in 1 .. o0.lenLastReq : IsWord(c, At(o0, i), a + i + 0)
      BY <1>4, <2>2
    <3> QED BY <2>1, <3>1 DEF Begins, a
  <2>4. Taken(c, k, o, p, g, o0)
    BY <1>4, <1>5, <2>2, <2>3 DEF Taken, a, n
  <2> QED BY <2>1, <2>4 DEF n, o0
<1>6. CASE p.move
  <2>1. Big(c, k) /\ n >= 3 /\ n \in Nat
    <3>1. Big(c, k) /\ k # 0
      BY <1>2, <1>6 DEF Big
    <3>2. n = Length(c, k) /\ Length(c, k) >= 3
      BY <1>2, <3>1, BeforeStep
    <3> QED BY <1>2, <3>1, <3>2
  <2> DEFINE m == o0.bufptr + 2
             bf == [o0.buffer EXCEPT ![m] = At(o0, 1)]
  <2>2. /\ o0.bufptr \in Nat /\ o0.bufcnt \in Nat /\ Size(o0) \in Nat /\ Gotnow(o0) \in Nat
        /\ o0.bufcnt = o0.bufptr + Gotnow(o0) /\ o0.bufcnt <= Size(o0) /\ Size(o0) <= MAXBUFSIZE
        /\ n <= Gotnow(o0)
    BY <1>4, BufferFacts
  <2>3. /\ o0.buffer \in Seq(Words \cup {None}) /\ DOMAIN o0.buffer = 1 .. Size(o0)
    BY <1>4, BufferFacts
  <2>4. m \in 1 .. Size(o0) /\ 1 \in Nat
    BY ONLY <2>1, <2>2
  <2>5. At(o0, 1) \in Words \cup {None}
    BY <1>4, <2>4, AtFacts
  <2>6. /\ bf \in Seq(Words \cup {None}) /\ Len(bf) = Size(o0) /\ DOMAIN bf = 1 .. Size(o0)
        /\ bf[m] = At(o0, 1) /\ \A i \in 1 .. Size(o0) : i # m => bf[i] = o0.buffer[i]
    <3>1. o0.buffer \in [1 .. Size(o0) -> Words \cup {None}]
      BY <2>3, ElementOfSeq DEF Size
    <3>2. bf \in [1 .. Size(o0) -> Words \cup {None}]
      BY <2>4, <2>5, <3>1
    <3>3. bf[m] = At(o0, 1) /\ \A i \in 1 .. Size(o0) : i # m => bf[i] = o0.buffer[i]
      BY <2>3, <2>4
    <3> HIDE DEF bf
    <3> QED BY <2>2, <3>2, <3>3
  <2>7. o1 = [o0 EXCEPT !.buffer = bf, !.bufptr = o0.bufptr + 1, !.lenLastReq = n - 1]
    BY <1>4, <1>6, <2>3 DEF HeaderMoved
  <2> HIDE DEF m, bf, o1
  <2>8. o0.bufptr + 1 \in Nat /\ n - 1 \in Nat
    BY ONLY <2>1, <2>2
  <2>9. /\ o1 \in ConnectionInputs /\ o1.buffer = bf /\ o1.bufptr = o0.bufptr + 1
        /\ o1.bufcnt = o0.bufcnt /\ o1.lenLastReq = n - 1
    BY <1>4, <2>6, <2>7, <2>8 DEF ConnectionInputs
  <2>10. Size(o1) = Size(o0) /\ Gotnow(o1) = Gotnow(o0) - 1
    <3>1. Size(o1) = Size(o0)
      BY <2>6, <2>9 DEF Size
    <3>2. Gotnow(o1) = o0.bufcnt - (o0.bufptr + 1)
      BY <2>9 DEF Gotnow
    <3>3. Gotnow(o1) = Gotnow(o0) - 1
      BY ONLY <2>2, <3>2
    <3> QED BY <3>1, <3>3
  <2>11. Fits(o1)
    <3>1. o0.bufptr + 1 + (n - 1) <= o0.bufcnt
      BY ONLY <2>1, <2>2
    <3> QED BY <2>2, <2>9, <2>10, <3>1 DEF Fits
  <2>12. At(o1, 1) = At(o0, 1)
    <3>1. o0.bufptr + 1 + 1 = m
      BY <2>2 DEF m
    <3> QED BY <2>4, <2>6, <2>9, <3>1 DEF At
  <2>13. ASSUME NEW i \in 2 .. Gotnow(o1)
         PROVE  At(o1, i) = At(o0, i + 1)
    <3>1. /\ o0.bufptr + 1 + i \in 1 .. Size(o0) /\ o0.bufptr + 1 + i # m
          /\ o0.bufptr + (i + 1) = o0.bufptr + 1 + i
      BY ONLY <2>2, <2>10, i \in 2 .. Gotnow(o1) DEF m
    <3>2. At(o1, i) = bf[o0.bufptr + 1 + i]
      BY <2>6, <2>9, <3>1 DEF At
    <3>3. At(o0, i + 1) = o0.buffer[o0.bufptr + 1 + i]
      BY <2>3, <3>1 DEF At
    <3> QED BY <2>6, <3>1, <3>2, <3>3
  <2>14. Begins(c, o1, k)
    <3>1. ASSUME NEW i \in 1 .. n - 1
          PROVE  IsWord(c, At(o1, i), a + i + IF Big(c, k) /\ i > 1 THEN 1 ELSE 0)
      <4>1. CASE i = 1
        <5>1. a + i + 0 = a + 1 /\ 1 \in 1 .. n
          BY <1>3, <2>1, <4>1
        <5>2. IsWord(c, At(o1, i), a + i + 0)
          BY <1>4, <2>12, <4>1, <5>1
        <5> QED BY <4>1, <5>2
      <4>2. CASE i # 1
        <5>1. /\ i \in 2 .. Gotnow(o1) /\ i + 1 \in 1 .. n /\ a + (i + 1) = a + i + 1
          BY ONLY <1>3, <2>1, <2>2, <2>10, <4>2, i \in 1 .. n - 1
        <5>2. IsWord(c, At(o1, i), a + i + 1)
          BY <1>4, <2>13, <5>1
        <5>3. i > 1
          BY <4>2
        <5> QED BY <2>1, <5>2, <5>3
      <4> QED BY <4>1, <4>2
    <3> QED BY <2>9, <3>1 DEF Begins, a
  <2>15. Unread(c, o1, n - 1, a + n, g) /\ Gotnow(o1) - (n - 1) = Gotnow(o) - n
    <3>1. /\ Gotnow(o0) - n = g + 1 - (a + n)
          /\ \A i \in 1 .. Gotnow(o0) - n : IsWord(c, At(o0, n + i), a + n + i)
      BY <1>4, UnreadFacts
    <3>2. Gotnow(o1) - (n - 1) = Gotnow(o0) - n
      BY ONLY <2>1, <2>2, <2>10
    <3>3. ASSUME NEW i \in 1 .. Gotnow(o1) - (n - 1)
          PROVE  IsWord(c, At(o1, n - 1 + i), a + n + i)
      <4>1. /\ n - 1 + i \in 2 .. Gotnow(o1) /\ n - 1 + i + 1 = n + i
            /\ i \in 1 .. Gotnow(o0) - n
        BY ONLY <2>1, <2>2, <2>10, i \in 1 .. Gotnow(o1) - (n - 1)
      <4>2. At(o1, n - 1 + i) = At(o0, n + i)
        BY <2>13, <4>1
      <4> QED BY <3>1, <4>1, <4>2
    <3>4. Gotnow(o1) - (n - 1) = g + 1 - (a + n)
      BY <3>1, <3>2
    <3> QED BY <1>4, <3>2, <3>3, <3>4 DEF Unread
  <2>16. At(o1, 1) = At(o, 1)
    BY <1>4, <2>12
  <2>17. Taken(c, k, o, p, g, o1)
    BY <1>6, <2>9, <2>11, <2>14, <2>15, <2>16 DEF Taken, a, n
  <2> QED BY <2>17 DEF o1, o0, n
<1> QED BY <1>2, <1>5, <1>6

(* Whether the next request is there too.                                  *)
LEMMA NextWhole ==
    ASSUME NEW c \in Clients, NEW k \in 1 .. Len(Requests[c]) + 1, NEW o \in ConnectionInputs,
           Fits(Reset(o)), NEW g \in Nat, Unread(c, Reset(o), 0, Before(c, k), g),
           SentInv, sent[c] \in Nat, g <= sent[c], sent[c] <= Len(Stream[c])
    PROVE  WholeRequestAt(o, c \in big_requests) <=>
             k <= Len(Requests[c]) /\ g + 1 >= Before(c, k + 1)
<1> DEFINE z == Reset(o)
           n == Len(Requests[c])
           big == c \in big_requests
           p == Parse(o, big)
<1>1. /\ z \in ConnectionInputs /\ Fits(z) /\ Gotnow(z) = Gotnow(o) /\ Gotnow(z) \in Nat
      /\ At(z, 1) = At(o, 1) /\ p = Parse(z, big)
  BY ResetFacts, BufferFacts
<1>2. WholeRequestAt(o, big) <=>
        Gotnow(o) >= 1 /\ ~p.header /\ Gotnow(o) >= p.needed /\ (p.needed # 0 \/ p.move)
  BY DEF WholeRequestAt
<1>3. n \in Nat /\ Unread(c, z, 0, Before(c, k), g) /\ big \in BOOLEAN
  BY RequestsLength
<1> HIDE DEF z, p
<1>4. CASE k = n + 1
  <2>1. g <= Len(Stream[c])
    <3>1. Len(Stream[c]) \in Nat
      BY StreamFacts, LenProperties
    <3> QED BY <3>1
  <2>2. Gotnow(z) = 0
    BY <1>1, <1>3, <1>4, <2>1, NothingLeft
  <2> QED BY <1>1, <1>2, <1>3, <1>4, <2>2
<1>5. CASE k # n + 1
  <2>1. k \in 0 .. n /\ k # 0 /\ k <= n
    BY <1>3, <1>5
  <2>2. /\ Before(c, k) \in Nat /\ Before(c, k + 1) = Before(c, k) + Length(c, k)
        /\ Length(c, k) \in Nat \ {0}
    BY <2>1, BeforeStep
  <2>3. Gotnow(z) >= 1 /\ Big(c, k) => big
    BY <1>1, <1>3, <2>1, BigAllowed
  <2> HIDE DEF big
  <2>4. Parsed(c, k, z, p)
    BY <1>1, <1>3, <2>1, <2>3, HeadParse
  <2>5. /\ p.needed \in Nat \ {0} /\ p.header \in BOOLEAN /\ p.needed <= Length(c, k)
        /\ (p.header => Gotnow(z) < p.needed)
        /\ (~p.header => p.needed = Length(c, k))
    BY <2>1, <2>4 DEF Parsed
  <2>6. Gotnow(z) = g + 1 - Before(c, k)
    <3>1. Gotnow(z) - 0 = g + 1 - Before(c, k)
      BY <1>3, UnreadFacts
    <3> QED BY <1>1, <3>1
  <2>7. g + 1 >= Before(c, k + 1) <=> Gotnow(z) >= Length(c, k)
    BY ONLY <1>1, <2>2, <2>6, g \in Nat
  <2>8. Gotnow(z) >= Length(c, k) <=> ~p.header /\ Gotnow(z) >= p.needed
    BY ONLY <1>1, <2>2, <2>5
  <2>9. Gotnow(z) >= Length(c, k) => Gotnow(z) >= 1
    BY ONLY <1>1, <2>2
  <2>10. p.needed # 0
    BY <2>5
  <2> QED BY <1>1, <1>2, <2>1, <2>7, <2>8, <2>9, <2>10 DEF big
<1> QED BY <1>4, <1>5

(* What follows a request that is taken.                                   *)
LEMMA PassedOver ==
    ASSUME NEW c \in Clients, NEW k \in 0 .. Len(Requests[c]), NEW o \in ConnectionInputs,
           Fits(Reset(o)), NEW g \in Nat, Unread(c, Reset(o), 0, Before(c, k), g),
           NEW n \in 1 .. Gotnow(o), NEW rest, rest = [o EXCEPT !.bufptr = @ + n]
    PROVE  /\ rest \in ConnectionInputs /\ Fits(Reset(rest)) /\ Gotnow(rest) = Gotnow(o) - n
           /\ Unread(c, Reset(rest), 0, Before(c, k) + n, g)
<1> DEFINE o0 == [o EXCEPT !.lenLastReq = n]
           a == Before(c, k) + n
<1>1. /\ o0 \in ConnectionInputs /\ Fits(o0) /\ o0.lenLastReq = n
      /\ o0.buffer = o.buffer /\ o0.bufptr = o.bufptr /\ o0.bufcnt = o.bufcnt
      /\ Gotnow(o) \in Nat /\ Unread(c, o0, n, a, g)
  BY PlainTaken
<1>2. a \in Nat /\ n \in Nat /\ o.bufptr \in Nat /\ o.bufcnt \in Nat
  <2>1. Before(c, k) \in Nat
    BY BeforeStep
  <2> QED BY <1>1, <2>1 DEF ConnectionInputs
<1>3. rest \in ConnectionInputs /\ rest.bufptr = o.bufptr + n /\ rest.bufcnt = o.bufcnt
  BY <1>2 DEF ConnectionInputs
<1>4. Reset(rest) = Reset(Advanced(o0))
  <2>1. o.bufptr + n \in Nat
    BY <1>2
  <2> QED BY <2>1 DEF Reset, Advanced, ConnectionInputs
<1> HIDE DEF o0, a
<1>5. Fits(Reset(Advanced(o0))) /\ Unread(c, Reset(Advanced(o0)), 0, a, g)
  <2>1. Unread(c, o0, o0.lenLastReq, a, g)
    BY <1>1
  <2> QED BY <1>1, <1>2, <2>1, AdvancedFacts
<1>6. Gotnow(rest) = Gotnow(o) - n
  <2>1. Gotnow(o) = o.bufcnt - o.bufptr /\ Gotnow(rest) = o.bufcnt - (o.bufptr + n)
    BY <1>3 DEF Gotnow
  <2> QED BY ONLY <1>2, <2>1
<1> QED BY <1>3, <1>4, <1>5, <1>6 DEF a

(* The rest of the invariant after a read that leaves the client open.     *)
LEMMA ReadRest ==
    ASSUME IInv, NEW c \in Clients, current = None, NEW o, HandedOver(c, o), NEW n \in Nat,
           got' = [got EXCEPT ![c] = @ + n], got[c] + n <= sent[c],
           UNCHANGED <<sent, hungUp, connected, big_requests, executed>>,
           ClientsWithInput' \subseteq Clients,
           \A d \in Clients \ {c} : d \in ClientsWithInput' <=> d \in ClientsWithInput,
           \/ current' = None
           \/ current' \in [client : Clients, req_len : Nat] /\ current'.client = c,
           ClientInv(c)'
    PROVE  IInv'
<1>1. TypeInv /\ SentInv
  BY DEF IInv
<1>2. /\ got' \in [Clients -> Nat] /\ \A d \in Clients : got'[d] <= sent[d]
      /\ \A d \in Clients \ {c} : got'[d] = got[d]
  BY <1>1 DEF TypeInv
<1>3. TypeInv'
  <2>1. /\ input' \in [Clients -> Buffers \cup {None}] /\ FreeInputs' \in Seq(Buffers)
        /\ buf' \in [Buffers -> ConnectionInputs] /\ \A x \in Buffers : Fits(buf'[x])
        /\ AvailableInput' \in Clients \cup {None}
    BY DEF HandedOver
  <2> QED BY <1>1, <1>2, <2>1 DEF TypeInv
<1>4. BuffersNotShared' /\ FreeSpent'
  BY DEF HandedOver
<1>5. SentInv'
  BY <1>1 DEF SentInv
<1>6. ASSUME NEW d \in Clients \ {c}
      PROVE  ClientInv(d)'
  <2>1. ~Executing(d) /\ ~Executing(d)'
    BY DEF Executing
  <2>2. \/ input'[d] = input[d] /\ (input[d] # None => buf'[input[d]] = buf[input[d]])
        \/ d = AvailableInput /\ input'[d] = None
    BY DEF HandedOver
  <2>3. connected'[d] = connected[d] /\ executed'[d] = executed[d] /\ got'[d] = got[d]
        /\ (d \in ClientsWithInput' <=> d \in ClientsWithInput)
    BY <1>2
  <2> QED BY <2>1, <2>2, <2>3, OtherUndisturbed
<1> QED BY <1>3, <1>4, <1>5, <1>6 DEF IInv

LEMMA ReadNothing ==
    ASSUME IInv, NEW c \in Clients, connected[c] = "yes", current = None,
           NEW w, Lent(c, w), NEW r, Outcome(c, executed[c], r), r.result = "nothing",
           got' = [got EXCEPT ![c] = @ + r.n], AvailableInput' = None,
           input' = w.input, FreeInputs' = w.free, buf' = [w.buf EXCEPT ![w.input[c]] = r.o],
           ClientsWithInput' = ClientsWithInput \ {c},
           UNCHANGED <<sent, hungUp, connected, current, big_requests, executed>>
    PROVE  IInv'
<1> DEFINE o == r.o
           k == executed[c]
           a == Before(c, k)
<1>1. TypeInv
  BY DEF IInv
<1>2. /\ r.n \in Nat /\ got[c] + r.n <= sent[c] /\ o.lenLastReq = 0
      /\ o \in ConnectionInputs /\ Fits(Reset(o)) /\ Unread(c, Reset(o), 0, a, got[c] + r.n)
      /\ k <= Len(Requests[c]) => Gotnow(o) < Length(c, k)
  BY DEF Outcome
<1>3. Reset(o) = o
  BY <1>2, ResetFacts
<1>4. /\ got[c] \in Nat /\ k \in Nat /\ k \in 0 .. Len(Requests[c]) + 1
      /\ got'[c] = got[c] + r.n /\ ClientsWithInput \subseteq Clients
  BY <1>1, RequestsLength DEF TypeInv
<1> HIDE DEF o, k, a
<1>5. Fits(o) /\ Unread(c, o, 0, a, got'[c])
  BY <1>2, <1>3, <1>4
<1>6. HandedOver(c, o)
  <2>1. buf' = [w.buf EXCEPT ![w.input[c]] = o]
    BY DEF o
  <2> QED BY <1>1, <1>2, <1>5, <2>1, LentBuffers
<1>7. ~Whole(c, k)'
  <2>1. SUFFICES ASSUME k <= Len(Requests[c])
                 PROVE  ~(got'[c] + 1 >= Before(c, k + 1))
    BY <1>4 DEF Whole, k
  <2>2. /\ a \in Nat /\ Before(c, k + 1) = a + Length(c, k) /\ Length(c, k) \in Nat
    BY <1>4, <2>1, RequestsLength, BeforeStep DEF a
  <2>3. Gotnow(o) - 0 = got'[c] + 1 - a /\ Gotnow(o) \in Nat /\ got'[c] \in Nat
    BY <1>2, <1>4, <1>5, UnreadFacts, BufferFacts
  <2>4. Gotnow(o) < Length(c, k)
    BY <1>2, <2>1
  <2> QED BY ONLY <2>2, <2>3, <2>4
<1>8. ClientInv(c)'
  <2>1. input'[c] # None /\ buf'[input'[c]] = o
    BY <1>6 DEF HandedOver
  <2>2. c \notin ClientsWithInput' /\ connected'[c] = "yes" /\ executed'[c] = k
    BY DEF k
  <2>3. ~Whole(c, executed[c])'
    BY <1>7 DEF k
  <2>4. Waiting(c)'
    BY <1>2, <1>5, <2>1, <2>2, <2>3 DEF Waiting, a
  <2>5. ~Executing(c)'
    BY DEF Executing
  <2> QED BY <2>2, <2>4, <2>5 DEF ClientInv
<1> QED BY <1>2, <1>4, <1>6, <1>8, ReadRest

LEMMA ReadDead ==
    ASSUME IInv, NEW c \in Clients, connected[c] = "yes", current = None,
           NEW w, Lent(c, w), got' = got, AvailableInput' = None,
           Close(c, w.input, w.free, w.buf),
           UNCHANGED <<sent, hungUp, current, big_requests, executed>>
    PROVE  IInv'
<1> DEFINE b == w.input[c]
<1>1. TypeInv /\ SentInv
  BY DEF IInv
<1>2. /\ w.input \in [Clients -> Buffers \cup {None}] /\ b \in Buffers
      /\ w.free \in Seq(Buffers)
      /\ w.buf \in [Buffers -> ConnectionInputs] /\ \A x \in Buffers : Fits(w.buf[x])
      /\ Owned(w.input, w.free) /\ AllSpent(w.free, w.buf)
      /\ \A d \in Clients \ {c} :
           w.input[d] = IF d = AvailableInput THEN None ELSE input[d]
      /\ \A x \in Buffers \ {b} : w.buf[x] = buf[x]
  BY DEF Lent
<1>3. /\ connected' \in [Clients -> {"no", "yes", "closed"}] /\ connected'[c] = "closed"
      /\ \A d \in Clients \ {c} : connected'[d] = connected[d]
      /\ input' \in [Clients -> Buffers \cup {None}] /\ input'[c] = None
      /\ \A d \in Clients \ {c} : input'[d] = w.input[d]
      /\ FreeInputs' \in Seq(Buffers)
      /\ buf' \in [Buffers -> ConnectionInputs] /\ \A x \in Buffers : Fits(buf'[x])
      /\ \A x \in Buffers : x # w.input[c] => buf'[x] = w.buf[x]
      /\ Owned(input', FreeInputs') /\ AllSpent(FreeInputs', buf')
      /\ ClientsWithInput' \subseteq Clients /\ c \notin ClientsWithInput'
      /\ \A d \in Clients \ {c} : d \in ClientsWithInput' <=> d \in ClientsWithInput
  <2>1. connected \in [Clients -> {"no", "yes", "closed"}] /\ ClientsWithInput \subseteq Clients
    BY <1>1 DEF TypeInv
  <2>2. /\ w.input \in [Clients -> Buffers \cup {None}] /\ w.free \in Seq(Buffers)
        /\ w.buf \in [Buffers -> ConnectionInputs] /\ \A x \in Buffers : Fits(w.buf[x])
        /\ Owned(w.input, w.free) /\ AllSpent(w.free, w.buf)
    BY <1>2
  <2> QED BY ONLY <2>1, <2>2, c \in Clients, Close(c, w.input, w.free, w.buf), CloseFacts
<1>4. TypeInv'
  BY <1>1, <1>3 DEF TypeInv
<1>5. BuffersNotShared' /\ FreeSpent'
  BY <1>3, OwnershipNamedNext
<1>6. SentInv'
  BY <1>1 DEF SentInv
<1>7. \A d \in Clients : ~Executing(d) /\ ~Executing(d)'
  BY DEF Executing
<1>8. ClientInv(c)'
  BY <1>3, <1>7 DEF ClientInv
<1>9. ASSUME NEW d \in Clients \ {c}
      PROVE  ClientInv(d)'
  <2>1. \/ input'[d] = input[d] /\ (input[d] # None => buf'[input[d]] = buf[input[d]])
        \/ d = AvailableInput /\ input'[d] = None
    <3>1. CASE d = AvailableInput
      BY <1>2, <1>3, <3>1
    <3>2. CASE d # AvailableInput
      <4>1. input'[d] = input[d] /\ w.input[d] = input[d]
        BY <1>2, <1>3, <3>2
      <4>2. input[d] # b
        BY <1>2, <4>1, RequestBuffersAssumption DEF Owned
      <4>3. input[d] \in Buffers \cup {None}
        BY <1>1 DEF TypeInv
      <4> QED BY <1>2, <1>3, <4>1, <4>2, <4>3
    <3> QED BY <3>1, <3>2
  <2>2. connected'[d] = connected[d] /\ executed'[d] = executed[d] /\ got'[d] = got[d]
        /\ (d \in ClientsWithInput' <=> d \in ClientsWithInput)
    BY <1>3
  <2> QED BY <1>7, <2>1, <2>2, OtherUndisturbed
<1> QED BY <1>4, <1>5, <1>6, <1>8, <1>9 DEF IInv

LEMMA ReadRequest ==
    ASSUME IInv, NEW c \in Clients, connected[c] = "yes", current = None,
           NEW w, Lent(c, w), NEW r, Outcome(c, executed[c], r), r.result = "request",
           NEW o1, o1 = HeaderMoved([r.o EXCEPT !.lenLastReq = r.p.needed], r.p.move),
           NEW rest, rest = [r.o EXCEPT !.bufptr = @ + r.p.needed],
           got' = [got EXCEPT ![c] = @ + r.n],
           input' = w.input, FreeInputs' = w.free, buf' = [w.buf EXCEPT ![w.input[c]] = o1],
           ClientsWithInput' = IF WholeRequestAt(rest, c \in big_requests)
                               THEN ClientsWithInput \cup {c} ELSE ClientsWithInput \ {c},
           AvailableInput' = IF Gotnow(rest) = 0 THEN c ELSE None,
           current' = [client |-> c, req_len |-> r.p.needed - IF r.p.move THEN 1 ELSE 0],
           UNCHANGED <<sent, hungUp, connected, big_requests, executed>>
    PROVE  IInv'
<1> DEFINE o == r.o
           p == r.p
           n == r.p.needed
           k == executed[c]
           a == Before(c, k)
           g == got[c] + r.n
<1>1. TypeInv /\ SentInv
  BY DEF IInv
<1>2. /\ r.n \in Nat /\ g <= sent[c] /\ k <= Len(Requests[c])
      /\ o \in ConnectionInputs /\ Fits(Reset(o)) /\ Unread(c, Reset(o), 0, a, g)
      /\ Parsed(c, k, Reset(o), p) /\ ~p.header /\ Gotnow(o) >= n
  BY DEF Outcome
<1>3. /\ got[c] \in Nat /\ sent[c] \in Nat /\ sent[c] <= Len(Stream[c]) /\ k \in Nat
      /\ got'[c] = g /\ ClientsWithInput \subseteq Clients
  BY <1>1 DEF TypeInv
<1>4. g \in Nat /\ k \in 0 .. Len(Requests[c])
  BY <1>2, <1>3, RequestsLength
<1>5. Gotnow(o) \in Nat /\ Gotnow(Reset(o)) = Gotnow(o) /\ At(Reset(o), 1) = At(o, 1)
  BY <1>2, ResetFacts, BufferFacts
<1>6. /\ n \in Nat \ {0} /\ (p.move <=> Big(c, k)) /\ p.move \in BOOLEAN
      /\ IF At(o, 1) = FakeRequest(c) THEN k = 0 /\ n = 1 + SetupPrefix ELSE n = Length(c, k)
  BY <1>2, <1>5 DEF Parsed
<1>7. n \in 1 .. Gotnow(o)
  BY <1>2, <1>5, <1>6
<1>8. Taken(c, k, o, p, g, o1)
  BY <1>2, <1>4, RequestTaken
<1>9. /\ Fits(Reset(rest)) /\ rest \in ConnectionInputs /\ Gotnow(rest) = Gotnow(o) - n
      /\ Unread(c, Reset(rest), 0, a + n, g)
  <2>1. rest = [o EXCEPT !.bufptr = @ + n]
    OBVIOUS
  <2> HIDE DEF n, o, g, k
  <2> QED BY <1>2, <1>4, <1>7, <2>1, PassedOver
<1>10. /\ o1 \in ConnectionInputs /\ Fits(o1)
       /\ o1.lenLastReq = n - IF p.move THEN 1 ELSE 0
       /\ At(o1, 1) = At(o, 1) /\ Begins(c, o1, k)
       /\ Gotnow(o1) - o1.lenLastReq = Gotnow(o) - n
       /\ Unread(c, o1, o1.lenLastReq, a + n, g)
  BY <1>8 DEF Taken
<1>11. /\ current' = [client |-> c, req_len |-> o1.lenLastReq]
       /\ AvailableInput' = IF Gotnow(rest) = 0 THEN c ELSE None
       /\ buf' = [w.buf EXCEPT ![w.input[c]] = o1]
  BY <1>10
<1> HIDE DEF o, p, n, k, a, g
<1>12. HandedOver(c, o1)
  <2>1. Gotnow(o1) \in Nat /\ o1.lenLastReq \in Nat
    BY <1>10, BufferFacts
  <2>2. Gotnow(rest) = 0 => Gotnow(o1) = o1.lenLastReq
    BY ONLY <1>9, <1>10, <2>1
  <2>3. AvailableInput' = None \/ (AvailableInput' = c /\ Spent(o1))
    BY <1>11, <2>2 DEF Spent
  <2> QED BY <1>1, <1>10, <1>11, <2>3, LentBuffers
<1>13. current' \in [client : Clients, req_len : Nat] /\ current'.client = c
  BY <1>10, <1>11, BufferFacts
<1>14. /\ a \in Nat /\ Before(c, k + 1) = a + Length(c, k) /\ Length(c, k) \in Nat
  BY <1>4, BeforeStep DEF a
<1>15. ClientInv(c)'
  <2>1. input'[c] # None /\ buf'[input'[c]] = o1
    BY <1>12 DEF HandedOver
  <2>2. executed'[c] = k /\ connected'[c] = "yes" /\ current'.req_len = o1.lenLastReq
    BY <1>11 DEF k
  <2>3. Current(c)' = At(o, 1)
    BY <1>10, <2>1 DEF Current
  <2>4. Executing(c)'
    <3>1. current' # None
      BY <1>13, RequestBuffersAssumption
    <3> QED BY <1>13, <3>1 DEF Executing
  <2>5. CASE At(o, 1) = FakeRequest(c)
    <3>1. k = 0 /\ n = 1 + SetupPrefix
      BY <1>6, <2>5
    <3>2. ~p.move /\ a = 0
      BY <1>6, <3>1 DEF Big, a, Before
    <3>3. n - 0 = n /\ 0 + n = n
      BY <1>6
    <3>4. o1.lenLastReq = n
      BY <1>10, <3>2, <3>3
    <3>5. Unread(c, o1, o1.lenLastReq, o1.lenLastReq, g)
      BY <1>10, <3>2, <3>3, <3>4
    <3>6. k <= Len(Requests[c])
      BY <1>2
    <3>7. Executed(c)'
      BY <1>3, <1>10, <2>1, <2>2, <2>3, <2>5, <3>1, <3>4, <3>5, <3>6 DEF Executed
    <3> QED BY <2>2, <2>4, <3>7 DEF ClientInv
  <2>6. CASE At(o, 1) # FakeRequest(c)
    <3>1. n = Length(c, k) /\ a + n = Before(c, k + 1)
      BY <1>6, <1>14, <2>6
    <3>2. o1.lenLastReq + (IF Big(c, k) THEN 1 ELSE 0) = Length(c, k)
      <4>1. n - 1 + 1 = n /\ n - 0 + 0 = n
        BY <1>6
      <4> QED BY <1>6, <1>10, <3>1, <4>1
    <3>3. Unread(c, o1, o1.lenLastReq, Before(c, k + 1), g)
      BY <1>10, <3>1
    <3>4. c \in ClientsWithInput' <=>
            k + 1 <= Len(Requests[c]) /\ got'[c] + 1 >= Before(c, k + 1 + 1)
      <4>1. k + 1 \in 1 .. Len(Requests[c]) + 1 /\ k + 1 \in Nat
        BY <1>4, RequestsLength
      <4>2. WholeRequestAt(rest, c \in big_requests) <=>
              k + 1 <= Len(Requests[c]) /\ g + 1 >= Before(c, k + 1 + 1)
        <5>1. Unread(c, Reset(rest), 0, Before(c, k + 1), g)
          BY <1>9, <3>1
        <5>2. /\ rest \in ConnectionInputs /\ Fits(Reset(rest)) /\ g \in Nat /\ SentInv
              /\ sent[c] \in Nat /\ g <= sent[c] /\ sent[c] <= Len(Stream[c])
          BY <1>1, <1>2, <1>3, <1>4, <1>9
        <5> QED BY ONLY c \in Clients, <4>1, <5>1, <5>2, NextWhole
      <4>3. c \in ClientsWithInput' <=> WholeRequestAt(rest, c \in big_requests)
        OBVIOUS
      <4> QED BY <1>3, <4>2, <4>3
    <3>5. k <= Len(Requests[c])
      BY <1>2
    <3>6. (c \in ClientsWithInput <=> Whole(c, executed[c] + 1))'
      BY <2>2, <3>4 DEF Whole
    <3>7. Executed(c)'
      BY <1>3, <1>10, <2>1, <2>2, <2>3, <2>6, <3>2, <3>3, <3>5, <3>6 DEF Executed
    <3> QED BY <2>2, <2>4, <3>7 DEF ClientInv
  <2> QED BY <2>5, <2>6
<1>16. g <= sent[c]
  BY <1>2
<1>17. /\ ClientsWithInput' \subseteq Clients
       /\ \A d \in Clients \ {c} : d \in ClientsWithInput' <=> d \in ClientsWithInput
  BY <1>3
<1> QED BY <1>2, <1>12, <1>13, <1>15, <1>16, <1>17, ReadRest DEF g

LEMMA ReadInv ==
    ASSUME IInv, NEW c \in Clients, ReadRequestFromClient(c)
    PROVE  IInv'
<1> DEFINE w == WithBuffer(c)
           b == w.input[c]
           o == [w.buf[b] EXCEPT !.bufptr = @ + w.buf[b].lenLastReq]
           r == ReadOutcome(c, o)
           big == c \in big_requests
           needed == IF r.p.needed # 0 THEN r.p.needed ELSE IF big THEN 2 ELSE 1
           rest == [r.o EXCEPT !.bufptr = @ + needed]
           o1 == HeaderMoved([r.o EXCEPT !.lenLastReq = needed], r.p.move)
<1>1. connected[c] = "yes" /\ current = None
  BY DEF ReadRequestFromClient
<1>2. Lent(c, w) /\ Outcome(c, executed[c], r)
  BY <1>1, ReadFacts DEF Advanced
<1>3. /\ got' = [got EXCEPT ![c] = @ + r.n]
      /\ CASE r.result = "dead" ->
                /\ Close(c, w.input, w.free, w.buf)
                /\ AvailableInput' = None /\ UNCHANGED current
           [] r.result = "nothing" ->
                /\ input' = w.input /\ FreeInputs' = w.free
                /\ buf' = [w.buf EXCEPT ![b] = r.o]
                /\ ClientsWithInput' = ClientsWithInput \ {c}
                /\ AvailableInput' = None
                /\ UNCHANGED <<connected, current>>
           [] r.result = "request" ->
                /\ input' = w.input /\ FreeInputs' = w.free
                /\ buf' = [w.buf EXCEPT ![b] = o1]
                /\ ClientsWithInput' = IF WholeRequestAt(rest, big)
                                       THEN ClientsWithInput \cup {c}
                                       ELSE ClientsWithInput \ {c}
                /\ AvailableInput' = IF Gotnow(rest) = 0 THEN c ELSE None
                /\ current' = [client |-> c,
                               req_len |-> r.p.needed - IF r.p.move THEN 1 ELSE 0]
                /\ UNCHANGED connected
      /\ UNCHANGED <<sent, hungUp, big_requests, executed>>
  BY DEF ReadRequestFromClient
<1> HIDE DEF w, r
<1>4. r.result \in {"dead", "nothing", "request"}
  BY <1>2 DEF Outcome
<1>5. CASE r.result = "dead"
  <2>1. r.n = 0
    BY <1>2, <1>5 DEF Outcome
  <2>2. got' = got
    <3>1. got \in [Clients -> Nat]
      BY DEF IInv, TypeInv
    <3>2. got[c] + 0 = got[c]
      BY <3>1
    <3> QED BY <1>3, <2>1, <3>1, <3>2
  <2>3. /\ Close(c, w.input, w.free, w.buf) /\ AvailableInput' = None /\ UNCHANGED current
        /\ UNCHANGED <<sent, hungUp, big_requests, executed>>
    BY <1>3, <1>5
  <2> QED BY ONLY IInv, c \in Clients, <1>1, <1>2, <2>2, <2>3, ReadDead
<1>6. CASE r.result = "nothing"
  <2>1. /\ got' = [got EXCEPT ![c] = @ + r.n] /\ AvailableInput' = None
        /\ input' = w.input /\ FreeInputs' = w.free
        /\ buf' = [w.buf EXCEPT ![w.input[c]] = r.o]
        /\ ClientsWithInput' = ClientsWithInput \ {c}
        /\ UNCHANGED <<sent, hungUp, connected, current, big_requests, executed>>
    BY <1>3, <1>6
  <2> QED BY ONLY IInv, c \in Clients, <1>1, <1>2, <1>6, <2>1, ReadNothing
<1>7. CASE r.result = "request"
  <2>1. r.p.needed # 0
    BY <1>2, <1>7 DEF Outcome, Parsed
  <2>2. needed = r.p.needed
    BY <2>1
  <2> HIDE DEF needed
  <2>3. /\ o1 = HeaderMoved([r.o EXCEPT !.lenLastReq = r.p.needed], r.p.move)
        /\ rest = [r.o EXCEPT !.bufptr = @ + r.p.needed]
    BY <2>2
  <2> HIDE DEF o1, rest
  <2>4. /\ got' = [got EXCEPT ![c] = @ + r.n]
        /\ input' = w.input /\ FreeInputs' = w.free
        /\ buf' = [w.buf EXCEPT ![w.input[c]] = o1]
        /\ ClientsWithInput' = IF WholeRequestAt(rest, c \in big_requests)
                               THEN ClientsWithInput \cup {c} ELSE ClientsWithInput \ {c}
        /\ AvailableInput' = IF Gotnow(rest) = 0 THEN c ELSE None
        /\ current' = [client |-> c, req_len |-> r.p.needed - IF r.p.move THEN 1 ELSE 0]
        /\ UNCHANGED <<sent, hungUp, connected, big_requests, executed>>
    BY <1>3, <1>7
  <2> QED BY ONLY IInv, c \in Clients, <1>1, <1>2, <1>7, <2>3, <2>4, ReadRequest
<1> QED BY <1>4, <1>5, <1>6, <1>7

---------------------------------------------------------------------------
(* The inductive invariant.                                                *)

LEMMA FreshFacts ==
    FreshBuffer \in ConnectionInputs /\ Fits(FreshBuffer)
<1> DEFINE bf == [i \in 1 .. BUFSIZE |-> None]
<1>1. BUFSIZE \in Nat /\ BUFSIZE <= MAXBUFSIZE
  BY RequestBuffersAssumption
<1>2. bf \in Seq(Words \cup {None}) /\ Len(bf) = BUFSIZE
  <2>1. bf \in [1 .. BUFSIZE -> Words \cup {None}]
    OBVIOUS
  <2> HIDE DEF bf
  <2> QED BY <1>1, <2>1
<1>3. FreshBuffer = [buffer |-> bf, bufptr |-> 0, bufcnt |-> 0, lenLastReq |-> 0]
  BY DEF FreshBuffer
<1> HIDE DEF bf
<1> QED BY <1>1, <1>2, <1>3 DEF ConnectionInputs, Fits, Size

LEMMA InitInv ==
    ASSUME Init
    PROVE  IInv
<1>1. /\ sent = [c \in Clients |-> 0] /\ got = [c \in Clients |-> 0]
      /\ hungUp = {} /\ connected = [c \in Clients |-> "no"]
      /\ input = [c \in Clients |-> None] /\ buf = [b \in Buffers |-> FreshBuffer]
      /\ AvailableInput = None /\ FreeInputs = <<>> /\ ClientsWithInput = {}
      /\ big_requests = {} /\ current = None /\ executed = [c \in Clients |-> 0]
  BY DEF Init
<1>2. /\ <<>> \in Seq(Buffers) /\ DOMAIN <<>> = {} /\ Range(<<>>) = {}
  BY DEF Range
<1>3. TypeInv
  <2>1. \A c \in Clients : sent[c] <= Len(Stream[c]) /\ got[c] <= sent[c]
    <3>1. \A c \in Clients : Len(Stream[c]) \in Nat
      BY StreamFacts, LenProperties
    <3> QED BY <1>1, <3>1
  <2>2. \A c \in Clients : executed[c] <= Len(Requests[c]) + 1
    BY <1>1, RequestsLength
  <2>3. buf \in [Buffers -> ConnectionInputs] /\ \A b \in Buffers : Fits(buf[b])
    BY <1>1, FreshFacts
  <2>4. /\ sent \in [Clients -> Nat] /\ got \in [Clients -> Nat]
        /\ connected \in [Clients -> {"no", "yes", "closed"}]
        /\ input \in [Clients -> Buffers \cup {None}] /\ executed \in [Clients -> Nat]
    BY <1>1
  <2> QED BY <1>1, <1>2, <2>1, <2>2, <2>3, <2>4 DEF TypeInv
<1>4. BuffersNotShared /\ FreeSpent
  BY <1>1, <1>2 DEF BuffersNotShared, FreeSpent
<1>5. SentInv
  BY <1>1 DEF SentInv
<1>6. \A c \in Clients : ClientInv(c)
  BY <1>1 DEF ClientInv, Executing
<1> QED BY <1>3, <1>4, <1>5, <1>6 DEF IInv

LEMMA NextInv ==
    ASSUME NoBigPutBack, IInv, [Next]_vars
    PROVE  IInv'
<1>1. ASSUME NEW c \in Clients, Connect(c) PROVE IInv'
  BY <1>1, ConnectInv
<1>2. ASSUME NEW c \in Clients, ReadRequestFromClient(c) PROVE IInv'
  BY <1>2, ReadInv
<1>3. ASSUME NEW c \in Clients, KillClient(c) PROVE IInv'
  BY <1>3, KillClientInv
<1>4. ASSUME NEW c \in Clients, Send(c) PROVE IInv'
  BY <1>4, SendInv
<1>5. ASSUME NEW c \in Clients, HangUp(c) PROVE IInv'
  BY <1>5, HangUpInv
<1>6. ASSUME NEW c \in Clients, ProcInitialConnection(c) PROVE IInv'
  BY <1>6, ProcInitialConnectionInv
<1>7. ASSUME NEW c \in Clients, PutBack(c) PROVE IInv'
  BY <1>7, PutBackInv
<1>8. ASSUME NEW c \in Clients, Execute(c) PROVE IInv'
  BY <1>8, ExecuteInv
<1>9. CASE UNCHANGED vars
  <2>1. /\ UNCHANGED <<sent, got, hungUp, connected, input, buf, AvailableInput>>
        /\ UNCHANGED <<FreeInputs, ClientsWithInput, big_requests, current, executed>>
    BY <1>9 DEF vars
  <2>2. TypeInv'
    BY <2>1 DEF IInv, TypeInv
  <2>3. BuffersNotShared' /\ FreeSpent' /\ SentInv'
    BY <2>1 DEF IInv, BuffersNotShared, FreeSpent, SentInv
  <2>4. \A c \in Clients : ClientInv(c)'
    BY <2>1, SameClients DEF IInv
  <2> QED BY <2>2, <2>3, <2>4 DEF IInv
<1> QED BY <1>1, <1>2, <1>3, <1>4, <1>5, <1>6, <1>7, <1>8, <1>9 DEF Next, ExecuteCurrent

(* The invariant of the buffers and of the words in them holds in every    *)
(* state that the handlers of os/io.c reach.                               *)
THEOREM Inductive ==
    ASSUME NoBigPutBack
    PROVE  Spec => []IInv
<1>1. Init => IInv
  BY InitInv
<1>2. IInv /\ [Next]_vars => IInv'
  BY NextInv
<1> QED BY <1>1, <1>2, PTL DEF Spec

---------------------------------------------------------------------------
(* The properties, for any number of clients and buffers, any requests and *)
(* any sizes of the buffers.                                               *)

LEMMA TypeInvTypeOK == TypeInv => TypeOK
<1> SUFFICES ASSUME TypeInv PROVE TypeOK
  OBVIOUS
<1>1. ASSUME NEW c \in Clients
      PROVE  /\ sent[c] \in 0 .. Len(Stream[c]) /\ got[c] \in 0 .. sent[c]
             /\ connected[c] \in {"no", "yes", "closed"}
             /\ input[c] \in Buffers \cup {None}
             /\ executed[c] \in 0 .. Len(Requests[c]) + 1
  <2>1. Len(Stream[c]) \in Nat /\ Len(Requests[c]) \in Nat
    BY StreamFacts, LenProperties, RequestsLength
  <2>2. /\ sent[c] \in Nat /\ got[c] \in Nat /\ executed[c] \in Nat
        /\ sent[c] <= Len(Stream[c]) /\ got[c] <= sent[c] /\ executed[c] <= Len(Requests[c]) + 1
    BY DEF TypeInv
  <2>3. connected[c] \in {"no", "yes", "closed"} /\ input[c] \in Buffers \cup {None}
    BY DEF TypeInv
  <2> QED BY <2>1, <2>2, <2>3
<1>2. ASSUME NEW b \in Buffers
      PROVE  /\ 0 <= buf[b].bufptr /\ 0 <= buf[b].lenLastReq
             /\ buf[b].bufptr + buf[b].lenLastReq <= buf[b].bufcnt
             /\ buf[b].bufcnt <= Size(buf[b]) /\ Size(buf[b]) <= MAXBUFSIZE
             /\ \A i \in DOMAIN buf[b].buffer :
                  LET w == buf[b].buffer[i]
                  IN w # None => w.client \in Clients /\ w.req \in 0 .. Len(Requests[w.client])
  <2>1. buf[b] \in ConnectionInputs /\ Fits(buf[b])
    BY DEF TypeInv
  <2>2. /\ buf[b].bufptr \in Nat /\ buf[b].lenLastReq \in Nat
        /\ DOMAIN buf[b].buffer = 1 .. Size(buf[b])
        /\ \A i \in 1 .. Size(buf[b]) : buf[b].buffer[i] \in Words \cup {None}
    BY <2>1, BufferFacts
  <2>3. \A w \in Words : w.client \in Clients /\ w.req \in 0 .. Len(Requests[w.client])
    BY RequestsLength DEF Words
  <2> QED BY <2>1, <2>2, <2>3 DEF Fits
<1>3. current # None => current.client \in Clients /\ current.req_len \in Nat
  BY DEF TypeInv
<1>4. /\ AvailableInput \in Clients \cup {None} /\ FreeInputs \in Seq(Buffers)
      /\ ClientsWithInput \subseteq Clients /\ big_requests \subseteq Clients
      /\ hungUp \subseteq Clients
  BY DEF TypeInv
<1> QED BY <1>1, <1>2, <1>3, <1>4 DEF TypeOK

(* The offsets of a buffer lie in it through every move, growth, shrinking *)
(* and moved header, no two clients have one buffer, no buffer is both     *)
(* free and in use, and the one that may be taken holds nothing unread:    *)
(* ReadRequestFromClient, InsertFakeRequest, ResetCurrentRequest,          *)
(* FreeOsBuffers.                                                          *)
THEOREM BuffersSafe ==
    ASSUME NoBigPutBack
    PROVE  Spec => []RequestBuffersInv
<1>1. IInv => RequestBuffersInv
  BY TypeInvTypeOK DEF IInv, RequestBuffersInv
<1> QED BY <1>1, Inductive, PTL

(* The words of the request that begins the buffer.                        *)
LEMMA ExecutedWords ==
    ASSUME IInv, NEW c \in Clients, Executing(c)
    PROVE  LET o == buf[input[c]]
           IN /\ executed[c] <= Len(Requests[c])
              /\ \E p \in Positions(c, executed[c]) :
                   /\ current.req_len = Len(p) /\ Len(p) <= Gotnow(o)
                   /\ \A i \in DOMAIN p :
                        /\ At(o, i) # None
                        /\ At(o, i).client = c /\ At(o, i).req = executed[c]
                        /\ At(o, i).at = p[i]
<1> DEFINE o == buf[input[c]]
           k == executed[c]
           L == o.lenLastReq
           shift(i) == IF Big(c, k) /\ i > 1 THEN 1 ELSE 0
           p == [i \in 1 .. L |-> i + shift(i)]
<1>1. /\ Executed(c) /\ o \in ConnectionInputs /\ Fits(o) /\ k \in 0 .. Len(Requests[c])
      /\ Before(c, k) \in Nat /\ Before(c, k + 1) = Before(c, k) + Length(c, k)
      /\ IsWord(c, Current(c), Before(c, k) + 1)
  BY ExecutingFacts
<1>2. /\ current.req_len = L /\ Begins(c, o, k)
      /\ IF Current(c) = FakeRequest(c) THEN k = 0 /\ L = 1 + SetupPrefix
         ELSE L + (IF Big(c, k) THEN 1 ELSE 0) = Length(c, k)
  BY <1>1 DEF Executed
<1>3. L \in Nat /\ L <= Gotnow(o) /\ Len(Requests[c]) \in Nat
      /\ SetupPrefix \in Nat /\ SetupStrings \in Nat /\ Length(c, k) \in Nat
  BY <1>1, BufferFacts, RequestsLength, RequestBuffersAssumption, BeforeStep
<1> HIDE DEF o, k, L
<1>4. p \in Positions(c, k)
  <2>1. CASE k = 0
    <3>1. ~Big(c, k) /\ Length(c, k) = 1 + SetupPrefix + SetupStrings
      BY <2>1 DEF Big, Length
    <3>2. L + 0 = L
      BY <1>3
    <3>3. L \in {1 + SetupPrefix, 1 + SetupPrefix + SetupStrings}
      BY <1>2, <3>1, <3>2
    <3>4. p = [i \in 1 .. L |-> i]
      <4>1. \A i \in 1 .. L : i + 0 = i
        BY <1>3
      <4> QED BY <3>1, <4>1
    <3> HIDE DEF p
    <3> QED BY <2>1, <3>3, <3>4 DEF Positions
  <2>2. CASE k # 0 /\ Big(c, k)
    <3>1. Requests[c][k].big /\ L = Requests[c][k].len - 1
      <4>1. L + 1 = Length(c, k)
        BY <1>2, <2>2
      <4>2. Length(c, k) = Requests[c][k].len
        BY <2>2 DEF Length
      <4> QED BY <1>3, <2>2, <4>1, <4>2 DEF Big
    <3>2. p = [i \in 1 .. L |-> IF i = 1 THEN 1 ELSE i + 1]
      <4>1. \A i \in 1 .. L : i + shift(i) = IF i = 1 THEN 1 ELSE i + 1
        BY <1>3, <2>2
      <4> QED BY <4>1
    <3> HIDE DEF p
    <3> QED BY <2>2, <3>1, <3>2 DEF Positions
  <2>3. CASE k # 0 /\ ~Big(c, k)
    <3>1. ~Requests[c][k].big /\ L = Requests[c][k].len
      <4>1. L + 0 = Length(c, k) /\ k > 0
        BY <1>1, <1>2, <1>3, <2>3
      <4>2. Length(c, k) = Requests[c][k].len
        BY <2>3 DEF Length
      <4> QED BY <1>3, <2>3, <4>1, <4>2 DEF Big
    <3>2. p = [i \in 1 .. L |-> i]
      <4>1. \A i \in 1 .. L : i + shift(i) = i
        BY <1>3, <2>3
      <4> QED BY <4>1
    <3> HIDE DEF p
    <3> QED BY <2>3, <3>1, <3>2 DEF Positions
  <2> QED BY <2>1, <2>2, <2>3
<1>5. Len(p) = L /\ DOMAIN p = 1 .. L
  <2>1. DOMAIN p = 1 .. L
    OBVIOUS
  <2>2. p \in Seq(Int)
    <3>1. \A i \in 1 .. L : i + shift(i) \in Int
      BY <1>3
    <3>2. p \in [1 .. L -> Int]
      BY <3>1
    <3> HIDE DEF p
    <3> QED BY <1>3, <3>2
  <2> HIDE DEF p
  <2> QED BY <1>3, <2>1, <2>2, LenProperties
<1>6. ASSUME NEW i \in 1 .. L
      PROVE  At(o, i) # None /\ At(o, i).client = c /\ At(o, i).req = k /\ At(o, i).at = p[i]
  <2>1. IsWord(c, At(o, i), Before(c, k) + i + shift(i))
    BY <1>2 DEF Begins, L
  <2>2. shift(i) \in {0, 1} /\ p[i] = i + shift(i)
    OBVIOUS
  <2>3. i + shift(i) \in 1 .. Length(c, k)
    <3>1. CASE Current(c) = FakeRequest(c)
      <4>1. k = 0 /\ L = 1 + SetupPrefix
        BY <1>2, <3>1
      <4>2. ~Big(c, k) /\ Length(c, k) = 1 + SetupPrefix + SetupStrings
        BY <4>1 DEF Big, Length
      <4> QED BY <1>3, <4>1, <4>2
    <3>2. CASE Current(c) # FakeRequest(c)
      <4>1. L + (IF Big(c, k) THEN 1 ELSE 0) = Length(c, k)
        BY <1>2, <3>2
      <4> QED BY <1>3, <4>1
    <3> QED BY <3>1, <3>2
  <2>4. Before(c, k) + i + shift(i) = Before(c, k) + (i + shift(i))
    BY <1>1, <1>3, <2>2
  <2> HIDE DEF p, shift
  <2>5. IsWord(c, At(o, i), Before(c, k) + (i + shift(i)))
    BY <2>1, <2>4
  <2>6. At(o, i) # None /\ At(o, i).client = c /\ At(o, i).req = k /\ At(o, i).at = i + shift(i)
    BY <1>1, <2>3, <2>5, WordFacts
  <2> QED BY <2>2, <2>6
<1> HIDE DEF p
<1>7. k <= Len(Requests[c]) /\ current.req_len = Len(p) /\ Len(p) <= Gotnow(o)
  BY <1>1, <1>2, <1>3, <1>5
<1> QED BY <1>4, <1>5, <1>6, <1>7 DEF o, k

(* Each request is executed in its turn, whole, with its own length and    *)
(* none but the client's own words in it, wherever the reads cut the       *)
(* stream and whoever had the buffer before: ReadRequestFromClient and     *)
(* ResetCurrentRequest.                                                    *)
THEOREM RequestsInOrder ==
    ASSUME NoBigPutBack
    PROVE  Spec => []ExecutedInOrder
<1>1. ASSUME IInv PROVE ExecutedInOrder
  <2> SUFFICES ASSUME current # None
               PROVE  ExecutedInOrder
    BY DEF ExecutedInOrder
  <2>1. current.client \in Clients /\ Executing(current.client)
    BY <1>1 DEF IInv, TypeInv, Executing
  <2> QED BY <1>1, <2>1, ExecutedWords DEF ExecutedInOrder
<1> QED BY <1>1, Inductive, PTL

(* Between requests the input bit of a client is set exactly when all of   *)
(* its next request has been read, so that select() is asked for the rest  *)
(* and for nothing that is already there: the three places of os/io.c that *)
(* set and clear ClientsWithInput.                                         *)
THEOREM InputBit ==
    ASSUME NoBigPutBack
    PROVE  Spec => []InputBitExact
<1>1. ASSUME IInv PROVE InputBitExact
  <2> SUFFICES ASSUME current = None, NEW c \in Clients
               PROVE  c \in ClientsWithInput <=>
                        /\ connected[c] = "yes" /\ executed[c] <= Len(Requests[c])
                        /\ got[c] >= End(c, executed[c])
    BY DEF InputBitExact
  <2>1. TypeInv /\ ClientInv(c) /\ ~Executing(c)
    BY <1>1 DEF IInv, Executing
  <2>2. CASE connected[c] # "yes"
    <3>1. connected[c] \in {"no", "closed"}
      BY <2>1, <2>2 DEF TypeInv
    <3> QED BY <2>1, <3>1 DEF ClientInv
  <2>3. CASE connected[c] = "yes"
    <3>1. c \in ClientsWithInput <=> Whole(c, executed[c])
      BY <2>1, <2>3 DEF ClientInv, Waiting
    <3>2. ASSUME executed[c] <= Len(Requests[c])
          PROVE  got[c] + 1 >= Before(c, executed[c] + 1) <=> got[c] >= End(c, executed[c])
      <4>1. executed[c] \in 0 .. Len(Requests[c]) /\ got[c] \in Nat
        BY <2>1, <3>2, RequestsLength DEF TypeInv
      <4>2. End(c, executed[c]) = Before(c, executed[c] + 1) - 1
        BY <4>1, EndIsBefore
      <4>3. Before(c, executed[c] + 1) \in Nat
        BY <4>1, BeforeStep
      <4> QED BY ONLY <4>1, <4>2, <4>3
    <3> QED BY <2>3, <3>1, <3>2 DEF Whole
  <2> QED BY <2>2, <2>3
<1> QED BY <1>1, Inductive, PTL

=============================================================================

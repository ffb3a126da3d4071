----------------------- MODULE ResourceTable_proofs -----------------------
(***************************************************************************)
(* Proofs about the resource table, for any clients, resources, hash       *)
(* functions and delete functions that keep the assumptions of             *)
(* ResourceTable: chains are whole and newest first, no loop goes on from  *)
(* a resource that is not there, none is deleted twice, and nothing is     *)
(* left of what was freed.                                                 *)
(***************************************************************************)
EXTENDS ResourceTable, SequenceTheorems, WellFoundedInduction, TLAPS

---------------------------------------------------------------------------
(* Sequences.                                                              *)

(* x comes before y in s.                                                  *)
Precedes(s, x, y) == \E i, j \in DOMAIN s : i < j /\ s[i] = x /\ s[j] = y

NatLess == {ss \in Nat \X Nat : ss[1] < ss[2]}

LEMMA LeastExists ==
    ASSUME NEW T, T \subseteq Nat, T # {}
    PROVE  \E x \in T : \A y \in T : x <= y
<1>1. IsWellFoundedOn(NatLess, Nat)
  BY NatLessThanWellFounded DEF OpToRel, NatLess
<1>2. PICK x \in T : \A y \in T : ~ (<<y, x>> \in NatLess)
  BY <1>1, WFMin
<1>3. ASSUME NEW y \in T PROVE x <= y
  <2>1. y \in Nat /\ x \in Nat
    OBVIOUS
  <2>2. y < x => <<y, x>> \in NatLess
    BY <2>1 DEF NatLess
  <2> QED BY <1>2, <2>1, <2>2
<1> QED BY <1>3

(* What holds of 0 and goes from a number to the next holds of N.          *)
LEMMA StepByStep ==
    ASSUME NEW N \in Nat, NEW T, T \subseteq 0 .. N, 0 \in T,
           \A m \in 1 .. N : m - 1 \in T => m \in T
    PROVE  N \in T
<1> SUFFICES ASSUME N \notin T PROVE FALSE
  OBVIOUS
<1>1. (0 .. N) \ T \subseteq Nat /\ (0 .. N) \ T # {}
  OBVIOUS
<1>2. PICK x \in (0 .. N) \ T : \A y \in (0 .. N) \ T : x <= y
  BY <1>1, LeastExists
<1>3. x \in 1 .. N /\ x - 1 \in 0 .. N /\ ~(x <= x - 1)
  BY <1>2
<1>4. x - 1 \in T
  BY <1>2, <1>3
<1> QED BY <1>2, <1>3, <1>4

LEMMA PlaceFacts ==
    ASSUME NEW s, IsInjective(s), NEW i \in DOMAIN s
    PROVE  Place(s, s[i]) = i
  BY DEF Place, IsInjective

(* A resource r at place p is taken out of s.                              *)
LEMMA WithoutFacts ==
    ASSUME NEW S, NEW s \in Seq(S), IsInjective(s), NEW p \in DOMAIN s
    PROVE  LET v == Without(s, s[p])
           IN /\ v \in Seq(S) /\ IsInjective(v) /\ Range(v) = Range(s) \ {s[p]}
              /\ Len(v) = Len(s) - 1
              /\ \A i \in 1 .. Len(v) : v[i] = IF i < p THEN s[i] ELSE s[i + 1]
<1> DEFINE r == s[p]
           v == Without(s, r)
<1>1. v = SubSeq(s, 1, p - 1) \o SubSeq(s, p + 1, Len(s))
  BY PlaceFacts DEF Without, RemoveAt, Range
<1>2. p \in 1 .. Len(s) /\ Len(s) \in Nat /\ DOMAIN s = 1 .. Len(s)
  OBVIOUS
<1> DEFINE x == SubSeq(s, 1, p - 1)
           y == SubSeq(s, p + 1, Len(s))
<1> HIDE DEF v
<1>3. x \in Seq(S) /\ Len(x) = p - 1 /\ \A i \in 1 .. p - 1 : x[i] = s[i]
  <2>1. \A i \in 1 .. p - 1 : s[i] \in S /\ 1 + i - 1 = i
    BY <1>2
  <2>2. /\ x \in Seq(S) /\ Len(x) = IF 1 <= p - 1 THEN p - 1 - 1 + 1 ELSE 0
        /\ \A i \in 1 .. p - 1 - 1 + 1 : x[i] = s[1 + i - 1]
    BY <1>2, <2>1, SubSeqProperties
  <2>3. p - 1 - 1 + 1 = p - 1 /\ (1 <= p - 1 \/ p - 1 = 0)
    BY <1>2
  <2> QED BY <2>1, <2>2, <2>3
<1>4. y \in Seq(S) /\ Len(y) = Len(s) - p /\ \A i \in 1 .. Len(s) - p : y[i] = s[p + i]
  <2>1. \A i \in p + 1 .. Len(s) : s[i] \in S
    BY <1>2
  <2>2. /\ y \in Seq(S) /\ Len(y) = IF p + 1 <= Len(s) THEN Len(s) - (p + 1) + 1 ELSE 0
        /\ \A i \in 1 .. Len(s) - (p + 1) + 1 : y[i] = s[p + 1 + i - 1]
    BY <1>2, <2>1, SubSeqProperties
  <2>3. Len(s) - (p + 1) + 1 = Len(s) - p /\ (p + 1 <= Len(s) \/ Len(s) - p = 0)
        /\ \A i \in 1 .. Len(s) - p : p + 1 + i - 1 = p + i
    BY <1>2
  <2> QED BY <2>2, <2>3
<1> HIDE DEF x, y
<1>5. /\ v \in Seq(S) /\ Len(v) = Len(x) + Len(y)
      /\ \A i \in 1 .. Len(x) + Len(y) : v[i] = IF i <= Len(x) THEN x[i] ELSE y[i - Len(x)]
  BY <1>1, <1>3, <1>4, ConcatProperties DEF x, y
<1>6. v \in Seq(S) /\ Len(v) = Len(s) - 1
  BY <1>2, <1>3, <1>4, <1>5
<1>7. ASSUME NEW i \in 1 .. Len(v) PROVE v[i] = IF i < p THEN s[i] ELSE s[i + 1]
  <2>1. v[i] = IF i <= Len(x) THEN x[i] ELSE y[i - Len(x)]
    BY <1>5
  <2>2. CASE i < p
    <3>1. i <= Len(x) /\ i \in 1 .. p - 1
      BY <1>2, <1>3, <1>6, <2>2
    <3> QED BY <1>3, <2>1, <2>2, <3>1
  <2>3. CASE ~(i < p)
    <3>1. ~(i <= Len(x)) /\ i - Len(x) \in 1 .. Len(s) - p /\ p + (i - Len(x)) = i + 1
      BY <1>2, <1>3, <1>6, <2>3
    <3> QED BY <1>4, <2>1, <2>3, <3>1
  <2> QED BY <2>2, <2>3
<1>8. \A i \in 1 .. Len(v) : i \in DOMAIN s /\ i + 1 \in DOMAIN s /\ i + 1 # i
  BY <1>2, <1>6
<1>9. IsInjective(v)
  <2> SUFFICES ASSUME NEW i \in 1 .. Len(v), NEW j \in 1 .. Len(v), v[i] = v[j] PROVE i = j
    BY <1>6 DEF IsInjective
  <2> DEFINE k(m) == IF m < p THEN m ELSE m + 1
  <2>1. k(i) \in DOMAIN s /\ k(j) \in DOMAIN s /\ s[k(i)] = s[k(j)]
    BY <1>7, <1>8
  <2>2. k(i) = k(j)
    BY <2>1 DEF IsInjective
  <2> QED BY <1>2, <1>6, <2>2
<1>10. Range(v) \subseteq Range(s) \ {r}
  <2> SUFFICES ASSUME NEW i \in 1 .. Len(v) PROVE v[i] \in Range(s) /\ v[i] # r
    BY <1>6 DEF Range
  <2>1. PICK k \in DOMAIN s : v[i] = s[k] /\ k # p
    <3>1. CASE i < p
      BY <1>2, <1>7, <1>8, <3>1
    <3>2. CASE ~(i < p)
      BY <1>2, <1>6, <1>7, <1>8, <3>2
    <3> QED BY <3>1, <3>2
  <2> QED BY <2>1 DEF Range, IsInjective
<1>11. Range(s) \ {r} \subseteq Range(v)
  <2> SUFFICES ASSUME NEW k \in DOMAIN s, s[k] # r PROVE s[k] \in Range(v)
    BY DEF Range
  <2>1. k # p /\ k \in 1 .. Len(s)
    BY <1>2
  <2>2. CASE k < p
    <3>1. k \in 1 .. Len(v) /\ v[k] = s[k]
      BY <1>2, <1>6, <1>7, <2>1, <2>2
    <3> QED BY <1>6, <3>1 DEF Range
  <2>3. CASE k > p
    <3>1. k - 1 \in 1 .. Len(v) /\ ~(k - 1 < p) /\ (k - 1) + 1 = k
      BY <1>2, <1>6, <2>1, <2>3
    <3>2. v[k - 1] = s[k]
      BY <1>7, <3>1
    <3> QED BY <1>6, <3>1, <3>2 DEF Range
  <2> QED BY <1>2, <2>1, <2>2, <2>3
<1> QED BY <1>6, <1>7, <1>9, <1>10, <1>11 DEF v

LEMMA WithoutPrecedes ==
    ASSUME NEW S, NEW s \in Seq(S), IsInjective(s), NEW r \in Range(s), NEW x, NEW y
    PROVE  /\ Precedes(Without(s, r), x, y) => Precedes(s, x, y)
           /\ Precedes(s, x, y) /\ x # r /\ y # r => Precedes(Without(s, r), x, y)
<1> DEFINE v == Without(s, r)
<1>1. PICK p \in DOMAIN s : s[p] = r
  BY DEF Range
<1>2. /\ v \in Seq(S) /\ Len(v) = Len(s) - 1
      /\ \A i \in 1 .. Len(v) : v[i] = IF i < p THEN s[i] ELSE s[i + 1]
  BY <1>1, WithoutFacts
<1> HIDE DEF v
<1>3. DOMAIN s = 1 .. Len(s) /\ Len(s) \in Nat /\ p \in 1 .. Len(s) /\ DOMAIN v = 1 .. Len(v)
  BY <1>2
<1>4. ASSUME NEW i \in DOMAIN v, NEW j \in DOMAIN v, i < j, v[i] = x, v[j] = y
      PROVE  Precedes(s, x, y)
  <2> DEFINE k(m) == IF m < p THEN m ELSE m + 1
  <2>1. k(i) \in DOMAIN s /\ k(j) \in DOMAIN s /\ k(i) < k(j)
    BY <1>2, <1>3, <1>4
  <2>2. s[k(i)] = x /\ s[k(j)] = y
    BY <1>2, <1>3, <1>4
  <2> QED BY <2>1, <2>2 DEF Precedes
<1>5. ASSUME NEW i \in DOMAIN s, NEW j \in DOMAIN s, i < j, s[i] = x, s[j] = y, x # r, y # r
      PROVE  Precedes(v, x, y)
  <2> DEFINE k(m) == IF m < p THEN m ELSE m - 1
  <2>1. i # p /\ j # p
    BY <1>1, <1>5
  <2>2. k(i) \in DOMAIN v /\ k(j) \in DOMAIN v /\ k(i) < k(j)
    BY <1>2, <1>3, <1>5, <2>1
  <2>3. v[k(i)] = s[i] /\ v[k(j)] = s[j]
    BY <1>2, <1>3, <2>1, <2>2
  <2> QED BY <1>5, <2>2, <2>3 DEF Precedes
<1> QED BY <1>4, <1>5 DEF Precedes, v

LEMMA AppendFacts ==
    ASSUME NEW S, NEW s \in Seq(S), IsInjective(s), NEW r \in S, r \notin Range(s)
    PROVE  /\ Append(s, r) \in Seq(S) /\ IsInjective(Append(s, r))
           /\ Range(Append(s, r)) = Range(s) \cup {r}
           /\ \A x, y : \/ Precedes(s, x, y)
                        \/ x \in Range(s) /\ y = r
                        => Precedes(Append(s, r), x, y)
<1> DEFINE v == Append(s, r)
<1>1. /\ v \in Seq(S) /\ Len(v) = Len(s) + 1 /\ Len(s) \in Nat /\ v[Len(s) + 1] = r
      /\ DOMAIN v = 1 .. Len(s) + 1 /\ DOMAIN s = 1 .. Len(s)
      /\ \A i \in 1 .. Len(s) : v[i] = s[i]
  OBVIOUS
<1> HIDE DEF v
<1>2. IsInjective(v)
  BY <1>1 DEF IsInjective, Range
<1>3. Range(v) = Range(s) \cup {r}
  <2>1. Range(v) \subseteq Range(s) \cup {r}
    BY <1>1 DEF Range
  <2>2. Range(s) \cup {r} \subseteq Range(v)
    BY <1>1 DEF Range
  <2> QED BY <2>1, <2>2
<1>4. \A x, y : Precedes(s, x, y) => Precedes(v, x, y)
  BY <1>1 DEF Precedes
<1>5. ASSUME NEW x \in Range(s) PROVE Precedes(v, x, r)
  <2>1. PICK i \in DOMAIN s : s[i] = x
    BY DEF Range
  <2>2. i \in DOMAIN v /\ Len(s) + 1 \in DOMAIN v /\ i < Len(s) + 1
    BY <1>1, <2>1
  <2> QED BY <1>1, <2>1, <2>2 DEF Precedes
<1> QED BY <1>1, <1>2, <1>3, <1>4, <1>5 DEF v

---------------------------------------------------------------------------
(* The tables.                                                             *)

(* Chain b of n of the client c.                                           *)
ChainOk(c, n, b, chain) ==
    /\ chain \in Seq(Resources) /\ IsInjective(chain)
    /\ \A r \in Range(chain) : Owner[r.id] = c /\ Hash(r.id, n) = b

(* Of an id, the chain has the resources that were added last first.       *)
Newest(chain, a) ==
    \A i, j \in DOMAIN chain :
        i < j /\ chain[i].id = chain[j].id => Precedes(a, chain[j], chain[i])

Tables(n) == [resources : [0 .. n - 1 -> Seq(Resources)], elements : Int, buckets : {n}]

TableOk(c, t, a) ==
    /\ t.buckets \in Sizes \cup {0} /\ t \in Tables(t.buckets)
    /\ \A b \in 0 .. t.buckets - 1 :
         ChainOk(c, t.buckets, b, t.resources[b]) /\ Newest(t.resources[b], a)

HasIn(t, r) == t.buckets > 0 /\ r \in Range(t.resources[Hash(r.id, t.buckets)])

(* The tables are whole, and a has their resources in the order added.     *)
TablesInv(T, a) ==
    /\ T = [c \in Clients |-> T[c]] /\ \A c \in Clients : TableOk(c, T[c], a)
    /\ a \in Seq(Resources) /\ IsInjective(a) /\ Range(a) = {r \in Resources : InTable(T, r)}

LEMMA ConstantFacts ==
    /\ \A n \in Sizes : n \in Nat /\ n > 0 /\ (n < MAXBUCKETS => 2 * n \in Sizes)
    /\ INITBUCKETS \in Sizes /\ 0 \notin Sizes
    /\ \A r \in Resources : /\ r.id \in Ids /\ r.type \in Types /\ Owner[r.id] \in Clients
                            /\ \A n \in Sizes : Hash(r.id, n) \in 0 .. n - 1
    /\ None \notin Resources
<1>1. \A r \in Resources : r.id \in Ids /\ r.type \in Types
  BY DEF Ids, Types
<1>2. \A n \in Sizes : n \in 1 .. MAXBUCKETS
  BY DEF Sizes
<1> QED BY <1>1, <1>2, ResourceTableAssumption DEF Hash

LEMMA SelfType ==
    ASSUME NEW c, NEW t, NEW a, TableOk(c, t, a)
    PROVE  /\ t = [resources |-> t.resources, elements |-> t.elements, buckets |-> t.buckets]
           /\ t.resources \in [0 .. t.buckets - 1 -> Seq(Resources)] /\ t.elements \in Int
           /\ t.buckets \in Nat
  BY ConstantFacts DEF TableOk, Tables

LEMMA EmptyOk ==
    ASSUME NEW c, NEW n \in Sizes \cup {0}, NEW a
    PROVE  /\ TableOk(c, EmptyTable(n), a)
           /\ \A r \in Resources : ~HasIn(EmptyTable(n), r)
<1> DEFINE t == EmptyTable(n)
<1>1. n \in Nat /\ t.buckets = n /\ t \in Tables(n)
  BY ConstantFacts DEF EmptyTable, Tables
<1>2. \A b \in 0 .. n - 1 : t.resources[b] = <<>>
  BY DEF EmptyTable
<1>3. \A b \in 0 .. n - 1 : ChainOk(c, n, b, <<>>) /\ Newest(<<>>, a)
  BY DEF ChainOk, Newest, IsInjective, Range
<1>4. TableOk(c, t, a)
  BY <1>1, <1>2, <1>3 DEF TableOk
<1>5. ASSUME NEW r \in Resources, n > 0 PROVE Hash(r.id, n) \in 0 .. n - 1
  BY <1>5, ConstantFacts
<1>6. \A r \in Resources : ~HasIn(t, r)
  BY <1>1, <1>2, <1>5 DEF HasIn, Range
<1> QED BY <1>4, <1>6

---------------------------------------------------------------------------
(* RebuildTable.  The new chains X have what was moved, D.                 *)

MovedTo(X, c, n, a, D) ==
    /\ X \in [0 .. n - 1 -> Seq(Resources)]
    /\ \A b \in 0 .. n - 1 : /\ ChainOk(c, n, b, X[b]) /\ Newest(X[b], a)
                             /\ Range(X[b]) = {r \in D : Hash(r.id, n) = b}

LEMMA MoveOne ==
    ASSUME NEW c, NEW n \in Sizes, NEW a, NEW X, NEW D, MovedTo(X, c, n, a, D),
           NEW r \in Resources, Owner[r.id] = c, r \notin D,
           \A x \in D : x.id = r.id => Precedes(a, r, x)
    PROVE  MovedTo(Moved(X, r, n), c, n, a, D \cup {r})
<1> DEFINE h == Hash(r.id, n)
           Y == Moved(X, r, n)
<1>1. h \in 0 .. n - 1
  BY ConstantFacts
<1>2. /\ X[h] \in Seq(Resources) /\ IsInjective(X[h]) /\ Newest(X[h], a)
      /\ Range(X[h]) = {x \in D : Hash(x.id, n) = h} /\ r \notin Range(X[h])
      /\ \A x \in Range(X[h]) : Owner[x.id] = c /\ Hash(x.id, n) = h
  BY <1>1 DEF MovedTo, ChainOk
<1>3. /\ Append(X[h], r) \in Seq(Resources) /\ IsInjective(Append(X[h], r))
      /\ Range(Append(X[h], r)) = Range(X[h]) \cup {r}
  BY <1>2, AppendFacts
<1>4. Newest(Append(X[h], r), a)
  <2>1. SUFFICES ASSUME NEW i \in 1 .. Len(X[h]) + 1, NEW j \in 1 .. Len(X[h]) + 1, i < j,
                        Append(X[h], r)[i].id = Append(X[h], r)[j].id
                 PROVE  Precedes(a, Append(X[h], r)[j], Append(X[h], r)[i])
    BY <1>2 DEF Newest
  <2>2. i \in 1 .. Len(X[h]) /\ Append(X[h], r)[i] = X[h][i] /\ DOMAIN X[h] = 1 .. Len(X[h])
    BY <1>2, <2>1
  <2>3. CASE j \in 1 .. Len(X[h])
    <3>1. Append(X[h], r)[j] = X[h][j]
      BY <1>2, <2>3
    <3> QED BY <1>2, <2>1, <2>2, <2>3, <3>1 DEF Newest
  <2>4. CASE j = Len(X[h]) + 1
    <3>1. Append(X[h], r)[j] = r
      BY <1>2, <2>4
    <3>2. X[h][i] \in D
      BY <1>2, <2>2 DEF Range
    <3> QED BY <2>1, <2>2, <3>1, <3>2
  <2> QED BY <1>2, <2>1, <2>3, <2>4
<1>5. /\ Y \in [0 .. n - 1 -> Seq(Resources)] /\ Y[h] = Append(X[h], r)
      /\ \A b \in 0 .. n - 1 : b # h => Y[b] = X[b]
  BY <1>1, <1>3 DEF MovedTo, Moved
<1> HIDE DEF Y
<1>6. ChainOk(c, n, h, Y[h]) /\ Newest(Y[h], a) /\ Range(Y[h]) = {x \in D \cup {r} : Hash(x.id, n) = h}
  BY <1>2, <1>3, <1>4, <1>5 DEF ChainOk
<1>7. ASSUME NEW b \in 0 .. n - 1, b # h
      PROVE  /\ ChainOk(c, n, b, Y[b]) /\ Newest(Y[b], a)
             /\ Range(Y[b]) = {x \in D \cup {r} : Hash(x.id, n) = b}
  BY <1>5, <1>7 DEF MovedTo
<1>8. MovedTo(Y, c, n, a, D \cup {r})
  BY <1>5, <1>6, <1>7 DEF MovedTo
<1> QED BY <1>8 DEF Y

(* The loop over a chain.                                                  *)
ChainLoop(g, m, X, chain, n) ==
    g = [k \in 0 .. m |-> IF k = 0 THEN X ELSE Moved(g[k - 1], chain[k], n)]

LEMMA DistributedFacts ==
    ASSUME NEW c, NEW n \in Sizes, NEW a, NEW X, NEW D, MovedTo(X, c, n, a, D),
           NEW chain \in Seq(Resources), IsInjective(chain), Newest(chain, a),
           \A r \in Range(chain) : Owner[r.id] = c /\ \A x \in D : x.id # r.id
    PROVE  MovedTo(Distributed(X, chain, n), c, n, a, D \cup Range(chain))
<1> DEFINE N == Len(chain)
           First(m) == {chain[i] : i \in 1 .. m}
           Done(m) == /\ \E g : ChainLoop(g, m, X, chain, n)
                      /\ \A g : ChainLoop(g, m, X, chain, n) =>
                                  MovedTo(g[m], c, n, a, D \cup First(m))
           T == {m \in 0 .. N : Done(m)}
<1>1. N \in Nat /\ DOMAIN chain = 1 .. N /\ First(N) = Range(chain) /\ First(0) = {}
  BY DEF Range
<1> HIDE DEF N
<1>2. Done(0)
  <2>1. ChainLoop([k \in 0 .. 0 |-> X], 0, X, chain, n)
    BY DEF ChainLoop
  <2>2. ASSUME NEW g, ChainLoop(g, 0, X, chain, n) PROVE g[0] = X
    BY <2>2 DEF ChainLoop
  <2>3. D \cup First(0) = D
    BY <1>1
  <2> QED BY <2>1, <2>2, <2>3
<1>3. ASSUME NEW m \in 1 .. N, Done(m - 1) PROVE Done(m)
  <2>1. \E g : ChainLoop(g, m, X, chain, n)
    <3>1. PICK g : ChainLoop(g, m - 1, X, chain, n)
      BY <1>3
    <3> DEFINE h == [k \in 0 .. m |-> IF k = 0 THEN X ELSE Moved(g[k - 1], chain[k], n)]
    <3>2. \A k \in 0 .. m - 1 : h[k] = g[k]
      BY <1>1, <1>3, <3>1 DEF ChainLoop
    <3>3. \A k \in 0 .. m : k # 0 => k - 1 \in 0 .. m - 1
      BY <1>1, <1>3
    <3>4. ChainLoop(h, m, X, chain, n)
      BY <3>2, <3>3 DEF ChainLoop
    <3> QED BY <3>4
  <2>2. ASSUME NEW g, ChainLoop(g, m, X, chain, n) PROVE MovedTo(g[m], c, n, a, D \cup First(m))
    <3> DEFINE h == [k \in 0 .. m - 1 |-> g[k]]
               E == D \cup First(m - 1)
    <3>1. ChainLoop(h, m - 1, X, chain, n) /\ h[m - 1] = g[m - 1]
      <4>1. \A k \in 0 .. m - 1 : k \in 0 .. m /\ (k # 0 => k - 1 \in 0 .. m - 1)
        BY <1>1, <1>3
      <4>2. m - 1 \in 0 .. m - 1
        BY <1>1, <1>3
      <4> QED BY <2>2, <4>1, <4>2 DEF ChainLoop
    <3>2. MovedTo(g[m - 1], c, n, a, E)
      BY <1>3, <3>1
    <3>3. g[m] = Moved(g[m - 1], chain[m], n)
      BY <1>1, <1>3, <2>2 DEF ChainLoop
    <3>4. /\ chain[m] \in Resources /\ m \in DOMAIN chain /\ Owner[chain[m].id] = c
          /\ \A x \in D : x.id # chain[m].id
      BY <1>1, <1>3 DEF Range
    <3>5. ASSUME NEW i \in 1 .. m - 1
          PROVE  chain[i] # chain[m] /\ (chain[i].id = chain[m].id => Precedes(a, chain[m], chain[i]))
      <4>1. i \in DOMAIN chain /\ i < m
        BY <1>1, <1>3
      <4> QED BY <3>4, <4>1 DEF IsInjective, Newest
    <3>6. chain[m] \notin E /\ \A x \in E : x.id = chain[m].id => Precedes(a, chain[m], x)
      BY <3>4, <3>5
    <3>7. D \cup First(m) = E \cup {chain[m]}
      <4>1. 1 .. m = (1 .. m - 1) \cup {m}
        BY <1>1, <1>3
      <4> QED BY <4>1
    <3> HIDE DEF E
    <3>8. MovedTo(g[m], c, n, a, E \cup {chain[m]})
      BY <3>2, <3>3, <3>4, <3>6, MoveOne
    <3> QED BY <3>7, <3>8
  <2> QED BY <2>1, <2>2
<1> HIDE DEF Done
<1>4. N \in T
  <2>1. T \subseteq 0 .. N /\ 0 \in T /\ \A m \in 1 .. N : m - 1 \in T => m \in T
    BY <1>1, <1>2, <1>3
  <2> HIDE DEF T
  <2> QED BY <1>1, <2>1, StepByStep
<1> DEFINE upTo == CHOOSE g : ChainLoop(g, N, X, chain, n)
<1>5. Distributed(X, chain, n) = upTo[N]
  BY DEF Distributed, N, ChainLoop
<1>6. ChainLoop(upTo, N, X, chain, n) /\ Done(N)
  BY <1>4 DEF Done
<1>7. MovedTo(upTo[N], c, n, a, D \cup First(N))
  <2> HIDE DEF upTo
  <2> QED BY <1>6 DEF Done
<1> HIDE DEF upTo, First
<1> QED BY <1>1, <1>5, <1>7

(* The loop over the chains.                                               *)
TableLoop(g, m, t, n) ==
    g = [b \in 0 .. m |-> IF b = 0 THEN EmptyTable(n).resources
                          ELSE Distributed(g[b - 1], t.resources[b - 1], n)]

LEMMA RebuildFacts ==
    ASSUME NEW c, NEW t, NEW a, TableOk(c, t, a), t.buckets > 0, t.buckets < MAXBUCKETS
    PROVE  LET u == RebuildTable(t)
           IN /\ TableOk(c, u, a) /\ u.buckets > 0 /\ u.elements = t.elements
              /\ \A r \in Resources : Owner[r.id] = c => (HasIn(u, r) <=> HasIn(t, r))
<1> DEFINE N == t.buckets
           n == 2 * N
           All(m) == UNION {Range(t.resources[b]) : b \in 0 .. m - 1}
           Done(m) == /\ \E g : TableLoop(g, m, t, n)
                      /\ \A g : TableLoop(g, m, t, n) => MovedTo(g[m], c, n, a, All(m))
           T == {m \in 0 .. N : Done(m)}
<1>1. /\ N \in Sizes /\ N \in Nat /\ n \in Sizes /\ n \in Nat /\ n > 0
      /\ t \in Tables(N)
      /\ \A b \in 0 .. N - 1 : ChainOk(c, N, b, t.resources[b]) /\ Newest(t.resources[b], a)
  BY ConstantFacts DEF TableOk
<1> HIDE DEF N, n
<1>2. Done(0)
  <2>1. TableLoop([b \in 0 .. 0 |-> EmptyTable(n).resources], 0, t, n)
    BY DEF TableLoop
  <2>2. ASSUME NEW g, TableLoop(g, 0, t, n) PROVE g[0] = EmptyTable(n).resources
    BY <2>2 DEF TableLoop
  <2>3. All(0) = {}
    OBVIOUS
  <2>4. MovedTo(EmptyTable(n).resources, c, n, a, {})
    BY <1>1 DEF MovedTo, EmptyTable, ChainOk, Newest, IsInjective, Range
  <2> QED BY <2>1, <2>2, <2>3, <2>4
<1>3. ASSUME NEW m \in 1 .. N, Done(m - 1) PROVE Done(m)
  <2>1. \E g : TableLoop(g, m, t, n)
    <3>1. PICK g : TableLoop(g, m - 1, t, n)
      BY <1>3
    <3> DEFINE h == [b \in 0 .. m |-> IF b = 0 THEN EmptyTable(n).resources
                                      ELSE Distributed(g[b - 1], t.resources[b - 1], n)]
    <3>2. \A b \in 0 .. m - 1 : h[b] = g[b]
      BY <1>1, <1>3, <3>1 DEF TableLoop
    <3>3. \A b \in 0 .. m : b # 0 => b - 1 \in 0 .. m - 1
      BY <1>1, <1>3
    <3>4. TableLoop(h, m, t, n)
      BY <3>2, <3>3 DEF TableLoop
    <3> QED BY <3>4
  <2>2. ASSUME NEW g, TableLoop(g, m, t, n) PROVE MovedTo(g[m], c, n, a, All(m))
    <3> DEFINE h == [b \in 0 .. m - 1 |-> g[b]]
               E == All(m - 1)
               chain == t.resources[m - 1]
    <3>1. TableLoop(h, m - 1, t, n) /\ h[m - 1] = g[m - 1]
      <4>1. \A b \in 0 .. m - 1 : b \in 0 .. m /\ (b # 0 => b - 1 \in 0 .. m - 1)
        BY <1>1, <1>3
      <4>2. m - 1 \in 0 .. m - 1
        BY <1>1, <1>3
      <4> QED BY <2>2, <4>1, <4>2 DEF TableLoop
    <3>2. MovedTo(g[m - 1], c, n, a, E)
      BY <1>3, <3>1
    <3>3. g[m] = Distributed(g[m - 1], chain, n)
      BY <1>1, <1>3, <2>2 DEF TableLoop
    <3>4. m - 1 \in 0 .. N - 1
      BY <1>1, <1>3
    <3>5. /\ chain \in Seq(Resources) /\ IsInjective(chain) /\ Newest(chain, a)
          /\ \A r \in Range(chain) : Owner[r.id] = c /\ Hash(r.id, N) = m - 1
      BY <1>1, <3>4 DEF ChainOk
    <3>6. ASSUME NEW r \in Range(chain), NEW x \in E PROVE x.id # r.id
      <4>1. PICK b \in 0 .. (m - 1) - 1 : x \in Range(t.resources[b])
        OBVIOUS
      <4>2. b \in 0 .. N - 1 /\ b # m - 1
        BY <1>1, <1>3
      <4>3. Hash(x.id, N) = b
        BY <1>1, <4>1, <4>2 DEF ChainOk
      <4> QED BY <3>5, <4>2, <4>3
    <3>7. All(m) = E \cup Range(chain)
      <4>1. 0 .. m - 1 = (0 .. (m - 1) - 1) \cup {m - 1}
        BY <1>1, <1>3
      <4> QED BY <4>1
    <3> HIDE DEF E, chain
    <3>8. MovedTo(g[m], c, n, a, E \cup Range(chain))
      BY <1>1, <3>2, <3>3, <3>5, <3>6, DistributedFacts
    <3> QED BY <3>7, <3>8
  <2> QED BY <2>1, <2>2
<1> HIDE DEF Done
<1>4. N \in T
  <2>1. T \subseteq 0 .. N /\ 0 \in T /\ \A m \in 1 .. N : m - 1 \in T => m \in T
    BY <1>1, <1>2, <1>3
  <2> HIDE DEF T
  <2> QED BY <1>1, <2>1, StepByStep
<1> DEFINE upTo == CHOOSE g : TableLoop(g, N, t, n)
           u == RebuildTable(t)
<1>5. u = [t EXCEPT !.buckets = n, !.resources = upTo[N]]
  BY DEF RebuildTable, N, n, TableLoop
<1>6. TableLoop(upTo, N, t, n) /\ Done(N)
  BY <1>4 DEF Done
<1>7. MovedTo(upTo[N], c, n, a, All(N))
  <2> HIDE DEF upTo
  <2> QED BY <1>6 DEF Done
<1> HIDE DEF upTo, u, All
<1>8. /\ u \in Tables(n) /\ u.buckets = n /\ u.elements = t.elements /\ u.resources = upTo[N]
  BY <1>1, <1>5, <1>7 DEF MovedTo, Tables
<1>9. TableOk(c, u, a)
  BY <1>1, <1>7, <1>8 DEF MovedTo, TableOk
<1>10. ASSUME NEW r \in Resources, Owner[r.id] = c PROVE HasIn(u, r) <=> HasIn(t, r)
  <2>1. Hash(r.id, n) \in 0 .. n - 1 /\ Hash(r.id, N) \in 0 .. N - 1
    BY <1>1, ConstantFacts
  <2>2. HasIn(u, r) <=> r \in All(N)
    BY <1>1, <1>7, <1>8, <2>1 DEF HasIn, MovedTo
  <2>3. r \in All(N) <=> r \in Range(t.resources[Hash(r.id, N)])
    BY <1>1, <2>1 DEF All, ChainOk
  <2> QED BY <1>1, <2>2, <2>3 DEF HasIn, N
<1> QED BY <1>1, <1>8, <1>9, <1>10 DEF u

---------------------------------------------------------------------------
(* AddResource.                                                            *)

LEMMA PrependFacts ==
    ASSUME NEW S, NEW s \in Seq(S), IsInjective(s), NEW r \in S, r \notin Range(s)
    PROVE  /\ <<r>> \o s \in Seq(S) /\ IsInjective(<<r>> \o s)
           /\ Range(<<r>> \o s) = Range(s) \cup {r}
           /\ \A i, j \in DOMAIN (<<r>> \o s) :
                i < j => /\ j - 1 \in DOMAIN s /\ (<<r>> \o s)[j] = s[j - 1]
                         /\ \/ i = 1 /\ (<<r>> \o s)[i] = r
                            \/ i - 1 \in DOMAIN s /\ (<<r>> \o s)[i] = s[i - 1] /\ i - 1 < j - 1
<1> DEFINE v == <<r>> \o s
<1>1. /\ v \in Seq(S) /\ Len(v) = Len(s) + 1 /\ Len(s) \in Nat /\ v[1] = r
      /\ DOMAIN v = 1 .. Len(s) + 1 /\ DOMAIN s = 1 .. Len(s)
      /\ \A i \in 1 .. Len(s) : v[i + 1] = s[i]
  OBVIOUS
<1>2. \A i \in DOMAIN v : i = 1 \/ (i - 1 \in DOMAIN s /\ v[i] = s[i - 1])
  <2> SUFFICES ASSUME NEW i \in DOMAIN v, i # 1 PROVE i - 1 \in DOMAIN s /\ v[i] = s[i - 1]
    OBVIOUS
  <2>1. i - 1 \in 1 .. Len(s) /\ (i - 1) + 1 = i
    BY <1>1
  <2> QED BY <1>1, <2>1
<1> HIDE DEF v
<1>3. IsInjective(v)
  <2> SUFFICES ASSUME NEW i \in DOMAIN v, NEW j \in DOMAIN v, v[i] = v[j] PROVE i = j
    BY DEF IsInjective
  <2>1. CASE i = 1 \/ j = 1
    BY <1>1, <1>2, <2>1 DEF Range
  <2>2. CASE i # 1 /\ j # 1
    <3>1. i - 1 = j - 1
      BY <1>2, <2>2 DEF IsInjective
    <3> QED BY <1>1, <3>1
  <2> QED BY <2>1, <2>2
<1>4. Range(v) \subseteq Range(s) \cup {r}
  BY <1>1, <1>2 DEF Range
<1>5. Range(s) \cup {r} \subseteq Range(v)
  <2>1. ASSUME NEW i \in DOMAIN s PROVE s[i] \in Range(v)
    <3>1. i + 1 \in DOMAIN v /\ v[i + 1] = s[i]
      BY <1>1
    <3> QED BY <3>1 DEF Range
  <2>2. r \in Range(v)
    BY <1>1 DEF Range
  <2> QED BY <2>1, <2>2 DEF Range
<1>6. \A i, j \in DOMAIN v :
        i < j => /\ j - 1 \in DOMAIN s /\ v[j] = s[j - 1]
                 /\ \/ i = 1 /\ v[i] = r
                    \/ i - 1 \in DOMAIN s /\ v[i] = s[i - 1] /\ i - 1 < j - 1
  BY <1>1, <1>2
<1> QED BY <1>1, <1>3, <1>4, <1>5, <1>6 DEF v

LEMMA LaterNewest ==
    ASSUME NEW c, NEW t, NEW a, NEW b, TableOk(c, t, a),
           \A x, y : Precedes(a, x, y) => Precedes(b, x, y)
    PROVE  TableOk(c, t, b)
  BY DEF TableOk, Newest

LEMMA AddFacts ==
    ASSUME NEW T, NEW a, TablesInv(T, a), NEW r \in Resources,
           T[Owner[r.id]].buckets > 0, ~InTable(T, r)
    PROVE  LET U == AddResource(T, r)
           IN /\ TablesInv(U, Append(a, r))
              /\ \A c \in Clients : U[c].buckets > 0 <=> T[c].buckets > 0
              /\ \A q \in Resources : InTable(U, q) <=> InTable(T, q) \/ q = r
<1> DEFINE c == Owner[r.id]
           t1 == IF T[c].elements >= Load * T[c].buckets /\ T[c].buckets < MAXBUCKETS
                 THEN RebuildTable(T[c]) ELSE T[c]
           h == Hash(r.id, t1.buckets)
           v == [resources |-> [t1.resources EXCEPT ![h] = <<r>> \o @],
                 elements |-> t1.elements + 1, buckets |-> t1.buckets]
           U == AddResource(T, r)
           b == Append(a, r)
<1>1. c \in Clients /\ TableOk(c, T[c], a) /\ T[c].buckets > 0 /\ ~HasIn(T[c], r)
  BY ConstantFacts DEF TablesInv, InTable, HasIn
<1>2. /\ TableOk(c, t1, a) /\ t1.buckets > 0
      /\ \A q \in Resources : Owner[q.id] = c => (HasIn(t1, q) <=> HasIn(T[c], q))
  BY <1>1, RebuildFacts
<1>3. U = [T EXCEPT ![c] = v]
  BY DEF AddResource
<1> HIDE DEF t1
<1>4. /\ t1.buckets \in Sizes /\ t1.buckets \in Nat /\ t1 \in Tables(t1.buckets)
      /\ h \in 0 .. t1.buckets - 1
      /\ ChainOk(c, t1.buckets, h, t1.resources[h]) /\ Newest(t1.resources[h], a)
  <2>1. t1.buckets \in Sizes
    BY <1>2, ConstantFacts DEF TableOk
  <2> QED BY <1>2, <2>1, ConstantFacts DEF TableOk
<1>5. r \notin Range(t1.resources[h]) /\ t1.resources[h] \in Seq(Resources) /\ IsInjective(t1.resources[h])
  BY <1>1, <1>2, <1>4 DEF HasIn, ChainOk
<1>6. /\ b \in Seq(Resources) /\ IsInjective(b) /\ Range(b) = Range(a) \cup {r}
      /\ \A x, y : Precedes(a, x, y) \/ (x \in Range(a) /\ y = r) => Precedes(b, x, y)
  <2>1. a \in Seq(Resources) /\ IsInjective(a) /\ r \notin Range(a)
    BY DEF TablesInv
  <2> QED BY <2>1, AppendFacts
<1> HIDE DEF b
<1>7. ASSUME NEW x \in Range(t1.resources[h]) PROVE x \in Range(a)
  <2>1. x \in Resources /\ Owner[x.id] = c /\ Hash(x.id, t1.buckets) = h
    BY <1>4, <1>7 DEF ChainOk, Range
  <2>2. HasIn(T[c], x)
    BY <1>2, <1>7, <2>1 DEF HasIn
  <2> QED BY <2>1, <2>2 DEF TablesInv, InTable, HasIn
<1> DEFINE old == t1.resources[h]
           new == <<r>> \o old
<1>8. /\ new \in Seq(Resources) /\ IsInjective(new) /\ Range(new) = Range(old) \cup {r}
      /\ \A i, j \in DOMAIN new :
           i < j => /\ j - 1 \in DOMAIN old /\ new[j] = old[j - 1]
                    /\ \/ i = 1 /\ new[i] = r
                       \/ i - 1 \in DOMAIN old /\ new[i] = old[i - 1] /\ i - 1 < j - 1
  BY <1>5, PrependFacts
<1>9. /\ v = [resources |-> [t1.resources EXCEPT ![h] = new], elements |-> t1.elements + 1,
              buckets |-> t1.buckets]
      /\ v \in Tables(t1.buckets)
  <2>1. v = [resources |-> [t1.resources EXCEPT ![h] = new], elements |-> t1.elements + 1,
             buckets |-> t1.buckets]
    OBVIOUS
  <2> HIDE DEF v, new
  <2> QED BY <1>4, <1>8, <2>1 DEF Tables
<1> HIDE DEF v, new
<1>10. ChainOk(c, t1.buckets, h, new)
  BY <1>4, <1>8 DEF ChainOk
<1>11. Newest(new, b)
  <2> SUFFICES ASSUME NEW i \in DOMAIN new, NEW j \in DOMAIN new, i < j, new[i].id = new[j].id
               PROVE  Precedes(b, new[j], new[i])
    BY DEF Newest
  <2>1. CASE new[i] = r
    <3>1. new[j] \in Range(old)
      BY <1>8 DEF Range
    <3> QED BY <1>6, <1>7, <2>1, <3>1
  <2>2. CASE i - 1 \in DOMAIN old /\ new[i] = old[i - 1] /\ i - 1 < j - 1
    BY <1>4, <1>6, <1>8, <2>2 DEF Newest
  <2> QED BY <1>8, <2>1, <2>2
<1>12. /\ v.buckets = t1.buckets /\ v.resources[h] = new
       /\ \A k \in 0 .. t1.buckets - 1 : k # h => v.resources[k] = t1.resources[k]
  BY <1>4, <1>9 DEF Tables
<1>13. TableOk(c, v, b)
  <2>1. TableOk(c, t1, b)
    BY <1>2, <1>6, LaterNewest
  <2> QED BY <1>4, <1>9, <1>10, <1>11, <1>12, <2>1 DEF TableOk
<1>14. /\ U = [d \in Clients |-> IF d = c THEN v ELSE T[d]]
       /\ \A d \in Clients : TableOk(d, U[d], b)
  <2>1. U = [d \in Clients |-> IF d = c THEN v ELSE T[d]]
    BY <1>1, <1>3 DEF TablesInv
  <2>2. \A d \in Clients : TableOk(d, T[d], b)
    BY <1>6, LaterNewest DEF TablesInv
  <2> QED BY <1>13, <2>1, <2>2
<1>15. ASSUME NEW q \in Resources PROVE InTable(U, q) <=> InTable(T, q) \/ q = r
  <2>1. Owner[q.id] \in Clients /\ (Owner[q.id] = c => Hash(q.id, t1.buckets) \in 0 .. t1.buckets - 1)
    BY <1>4, ConstantFacts
  <2>2. CASE Owner[q.id] # c
    BY <1>14, <2>1, <2>2 DEF InTable
  <2>3. CASE Owner[q.id] = c
    <3>1. InTable(U, q) <=> HasIn(v, q)
      BY <1>1, <1>14, <2>3 DEF InTable, HasIn
    <3>2. HasIn(v, q) <=> HasIn(t1, q) \/ q = r
      BY <1>2, <1>8, <1>12, <2>1, <2>3 DEF HasIn
    <3>3. HasIn(t1, q) <=> InTable(T, q)
      BY <1>2, <2>3 DEF InTable, HasIn
    <3> QED BY <3>1, <3>2, <3>3
  <2> QED BY <2>2, <2>3
<1>16. \A d \in Clients : U[d].buckets > 0 <=> T[d].buckets > 0
  BY <1>1, <1>2, <1>12, <1>14
<1>17. TablesInv(U, b)
  <2>1. Range(b) = {q \in Resources : InTable(U, q)}
    BY <1>6, <1>15 DEF TablesInv
  <2> QED BY <1>6, <1>14, <2>1 DEF TablesInv
<1> QED BY <1>15, <1>16, <1>17 DEF b

(* The loop over the resources of a request.                               *)
AddLoop(g, m, T, s) == g = [k \in 0 .. m |-> IF k = 0 THEN T ELSE AddResource(g[k - 1], s[k])]

(* The first m of s have been added to T.                                  *)
AddedTo(T, a, s, m, U) ==
    /\ TablesInv(U, a \o SubSeq(s, 1, m))
    /\ \A c \in Clients : U[c].buckets > 0 <=> T[c].buckets > 0
    /\ \A q \in Resources : InTable(U, q) <=> InTable(T, q) \/ \E i \in 1 .. m : q = s[i]

LEMMA AddAllFacts ==
    ASSUME NEW T, NEW a, TablesInv(T, a), NEW s \in Seq(Resources), IsInjective(s),
           \A i \in DOMAIN s : T[Owner[s[i].id]].buckets > 0 /\ ~InTable(T, s[i])
    PROVE  AddedTo(T, a, s, Len(s), AddResources(T, s))
<1> DEFINE N == Len(s)
           Done(m) == /\ \E g : AddLoop(g, m, T, s)
                      /\ \A g : AddLoop(g, m, T, s) => AddedTo(T, a, s, m, g[m])
           M == {m \in 0 .. N : Done(m)}
<1>1. N \in Nat /\ DOMAIN s = 1 .. N /\ a \in Seq(Resources)
  BY DEF TablesInv
<1> HIDE DEF N
<1>2. Done(0)
  <2>1. AddLoop([k \in 0 .. 0 |-> T], 0, T, s)
    BY DEF AddLoop
  <2>2. ASSUME NEW g, AddLoop(g, 0, T, s) PROVE g[0] = T
    BY <2>2 DEF AddLoop
  <2>3. a \o SubSeq(s, 1, 0) = a
    BY <1>1
  <2>4. AddedTo(T, a, s, 0, T)
    <3>1. TablesInv(T, a \o SubSeq(s, 1, 0))
      BY <2>3, Zenon
    <3>2. \A q : ~ \E i \in 1 .. 0 : q = s[i]
      OBVIOUS
    <3> QED BY <3>1, <3>2, Zenon DEF AddedTo
  <2> QED BY <2>1, <2>2, <2>4
<1>3. ASSUME NEW m \in 1 .. N, Done(m - 1) PROVE Done(m)
  <2>1. \E g : AddLoop(g, m, T, s)
    <3>1. PICK g : AddLoop(g, m - 1, T, s)
      BY <1>3
    <3> DEFINE h == [k \in 0 .. m |-> IF k = 0 THEN T ELSE AddResource(g[k - 1], s[k])]
    <3>2. \A k \in 0 .. m - 1 : h[k] = g[k]
      BY <1>1, <1>3, <3>1 DEF AddLoop
    <3>3. \A k \in 0 .. m : k # 0 => k - 1 \in 0 .. m - 1
      BY <1>1, <1>3
    <3>4. AddLoop(h, m, T, s)
      BY <3>2, <3>3 DEF AddLoop
    <3> QED BY <3>4
  <2>2. ASSUME NEW g, AddLoop(g, m, T, s) PROVE AddedTo(T, a, s, m, g[m])
    <3> DEFINE h == [k \in 0 .. m - 1 |-> g[k]]
               b == a \o SubSeq(s, 1, m - 1)
    <3>1. AddLoop(h, m - 1, T, s) /\ h[m - 1] = g[m - 1]
      <4>1. \A k \in 0 .. m - 1 : k \in 0 .. m /\ (k # 0 => k - 1 \in 0 .. m - 1)
        BY <1>1, <1>3
      <4>2. m - 1 \in 0 .. m - 1
        BY <1>1, <1>3
      <4> QED BY <2>2, <4>1, <4>2 DEF AddLoop
    <3>2. AddedTo(T, a, s, m - 1, g[m - 1])
      BY <1>3, <3>1
    <3>3. g[m] = AddResource(g[m - 1], s[m])
      BY <1>1, <1>3, <2>2 DEF AddLoop
    <3>4. s[m] \in Resources /\ m \in DOMAIN s /\ Owner[s[m].id] \in Clients
      BY <1>1, <1>3, ConstantFacts
    <3>5. \A i \in 1 .. m - 1 : s[m] # s[i]
      BY <1>1, <3>4 DEF IsInjective
    <3>6. g[m - 1][Owner[s[m].id]].buckets > 0 /\ ~InTable(g[m - 1], s[m])
      BY <3>2, <3>4, <3>5 DEF AddedTo
    <3>7. Append(b, s[m]) = a \o SubSeq(s, 1, m)
      <4>1. SubSeq(s, 1, m) = Append(SubSeq(s, 1, m - 1), s[m])
        BY <1>1, <1>3
      <4>2. SubSeq(s, 1, m - 1) \in Seq(Resources)
        BY <1>1, <1>3
      <4> DEFINE u == SubSeq(s, 1, m - 1)
      <4>3. /\ Append(a \o u, s[m]) = (a \o u) \o <<s[m]>> /\ Append(u, s[m]) = u \o <<s[m]>>
            /\ <<s[m]>> \in Seq(Resources)
        <5>1. u \in Seq(Resources) /\ a \o u \in Seq(Resources) /\ s[m] \in Resources
          BY <1>1, <3>4, <4>2, ConcatProperties
        <5> HIDE DEF u
        <5> QED BY <5>1, AppendIsConcat
      <4>4. (a \o u) \o <<s[m]>> = a \o (u \o <<s[m]>>)
        <5> HIDE DEF u
        <5> QED BY <1>1, <4>2, <4>3, ConcatAssociative
      <4> QED BY <4>1, <4>3, <4>4
    <3>8. 1 .. m = (1 .. m - 1) \cup {m}
      BY <1>1, <1>3
    <3>9. TablesInv(g[m - 1], b)
      BY <3>2 DEF AddedTo
    <3> HIDE DEF b
    <3>10. /\ TablesInv(g[m], Append(b, s[m]))
           /\ \A c \in Clients : g[m][c].buckets > 0 <=> g[m - 1][c].buckets > 0
           /\ \A q \in Resources : InTable(g[m], q) <=> InTable(g[m - 1], q) \/ q = s[m]
      BY <3>3, <3>4, <3>6, <3>9, AddFacts
    <3> QED BY <3>2, <3>7, <3>8, <3>10 DEF AddedTo
  <2> QED BY <2>1, <2>2
<1> HIDE DEF Done
<1>4. N \in M
  <2>1. M \subseteq 0 .. N /\ 0 \in M /\ \A m \in 1 .. N : m - 1 \in M => m \in M
    BY <1>1, <1>2, <1>3
  <2> HIDE DEF M
  <2> QED BY <1>1, <2>1, StepByStep
<1> DEFINE upTo == CHOOSE g : AddLoop(g, N, T, s)
<1>5. AddResources(T, s) = upTo[N]
  BY DEF AddResources, N, AddLoop
<1>6. AddLoop(upTo, N, T, s) /\ Done(N)
  BY <1>4 DEF Done
<1>7. AddedTo(T, a, s, N, upTo[N])
  <2> HIDE DEF upTo
  <2> QED BY <1>6 DEF Done
<1> HIDE DEF upTo
<1> QED BY <1>5, <1>7 DEF N

---------------------------------------------------------------------------
(* A resource is unlinked: r is taken out of chain b of the client c.      *)

TakenOut(T, a, c, b, r, U) ==
    /\ TablesInv(U, Without(a, r))
    /\ r \in Resources /\ Owner[r.id] = c /\ InTable(T, r)
    /\ \A q \in Resources : InTable(U, q) <=> InTable(T, q) /\ q # r
    /\ \A d \in Clients : U[d].buckets = T[d].buckets /\ (d # c => U[d] = T[d])
    /\ \A d \in Clients : \A k \in 0 .. T[d].buckets - 1 :
         Range(U[d].resources[k]) \subseteq Range(T[d].resources[k])
    /\ U[c].resources[b] = Without(T[c].resources[b], r)

LEMMA UnlinkFacts ==
    ASSUME NEW T, NEW a, TablesInv(T, a), NEW c \in Clients, NEW b \in 0 .. T[c].buckets - 1,
           NEW p \in DOMAIN T[c].resources[b], NEW e \in Int
    PROVE  LET r == T[c].resources[b][p]
               U == [T EXCEPT ![c] =
                       [resources |-> [T[c].resources EXCEPT ![b] = Without(@, r)],
                        elements |-> e, buckets |-> T[c].buckets]]
           IN TakenOut(T, a, c, b, r, U) /\ U[c].elements = e
<1> DEFINE t == T[c]
           n == t.buckets
           s == t.resources[b]
           r == s[p]
           v == Without(s, r)
           t1 == [resources |-> [t.resources EXCEPT ![b] = v], elements |-> e, buckets |-> n]
           U == [T EXCEPT ![c] = t1]
           w == Without(a, r)
<1>1. /\ TableOk(c, t, a) /\ n \in Sizes /\ n \in Nat /\ n > 0
      /\ t.resources \in [0 .. n - 1 -> Seq(Resources)]
      /\ T = [d \in Clients |-> T[d]] /\ \A d \in Clients : TableOk(d, T[d], a)
      /\ a \in Seq(Resources) /\ IsInjective(a) /\ Range(a) = {q \in Resources : InTable(T, q)}
  <2>1. TableOk(c, t, a)
    BY DEF TablesInv
  <2>2. n \in Nat /\ t.resources \in [0 .. n - 1 -> Seq(Resources)]
    BY <2>1, SelfType
  <2>3. n \in Sizes \cup {0} /\ n # 0
    BY <2>1, <2>2 DEF TableOk
  <2> QED BY <2>1, <2>2, <2>3 DEF TablesInv
<1>2. ChainOk(c, n, b, s) /\ Newest(s, a) /\ s \in Seq(Resources) /\ IsInjective(s)
  BY <1>1 DEF TableOk, ChainOk
<1>3. r \in Resources /\ r \in Range(s) /\ Owner[r.id] = c /\ Hash(r.id, n) = b /\ InTable(T, r)
  <2>1. r \in Resources /\ r \in Range(s)
    BY <1>2 DEF Range
  <2>2. Owner[r.id] = c /\ Hash(r.id, n) = b
    BY <1>2, <2>1 DEF ChainOk
  <2> QED BY <1>1, <2>1, <2>2 DEF InTable
<1>4. /\ v \in Seq(Resources) /\ IsInjective(v) /\ Range(v) = Range(s) \ {r}
      /\ \A x, y : Precedes(v, x, y) => Precedes(s, x, y)
  BY <1>2, <1>3, WithoutFacts, WithoutPrecedes
<1>5. /\ w \in Seq(Resources) /\ IsInjective(w) /\ Range(w) = Range(a) \ {r}
      /\ \A x, y : Precedes(a, x, y) /\ x # r /\ y # r => Precedes(w, x, y)
  <2>1. r \in Range(a)
    BY <1>1, <1>3
  <2>2. PICK k \in DOMAIN a : a[k] = r
    BY <2>1 DEF Range
  <2>3. w \in Seq(Resources) /\ IsInjective(w) /\ Range(w) = Range(a) \ {r}
    BY <1>1, <2>2, WithoutFacts
  <2>4. \A x, y : Precedes(a, x, y) /\ x # r /\ y # r => Precedes(w, x, y)
    BY <1>1, <2>1, WithoutPrecedes
  <2> QED BY <2>3, <2>4
<1> HIDE DEF v, w
<1>6. ChainOk(c, n, b, v)
  BY <1>2, <1>4 DEF ChainOk
<1>7. Newest(v, w)
  <2> SUFFICES ASSUME NEW i \in DOMAIN v, NEW j \in DOMAIN v, i < j, v[i].id = v[j].id
               PROVE  Precedes(w, v[j], v[i])
    BY DEF Newest
  <2>1. Precedes(s, v[i], v[j]) /\ v[i] # r /\ v[j] # r
    <3>1. Precedes(v, v[i], v[j]) /\ v[i] \in Range(v) /\ v[j] \in Range(v)
      BY DEF Precedes, Range
    <3> QED BY <1>4, <3>1
  <2>2. Precedes(a, v[j], v[i])
    BY <1>2, <2>1 DEF Precedes, Newest
  <2> QED BY <1>5, <2>1, <2>2
<1>8. ASSUME NEW d \in Clients, NEW k \in 0 .. T[d].buckets - 1, d # c \/ k # b
      PROVE  Newest(T[d].resources[k], w)
  <2>1. TableOk(d, T[d], a) /\ T[d].buckets \in Sizes
    <3>1. TableOk(d, T[d], a) /\ T[d].buckets # 0
      BY <1>1
    <3> QED BY <3>1 DEF TableOk
  <2>2. ChainOk(d, T[d].buckets, k, T[d].resources[k]) /\ Newest(T[d].resources[k], a)
    BY <2>1 DEF TableOk
  <2>3. r \notin Range(T[d].resources[k])
    BY <1>3, <1>8, <2>2 DEF ChainOk
  <2> QED BY <1>5, <2>2, <2>3 DEF Newest, Range
<1>9. /\ t1.buckets = n /\ t1.elements = e /\ t1.resources = [t.resources EXCEPT ![b] = v]
      /\ t1.resources[b] = v /\ \A k \in 0 .. n - 1 : k # b => t1.resources[k] = t.resources[k]
      /\ t1 \in Tables(n)
  BY <1>1, <1>4 DEF Tables
<1> HIDE DEF t1
<1>10. TableOk(c, t1, w)
  BY <1>1, <1>6, <1>7, <1>8, <1>9 DEF TableOk
<1>11. U = [d \in Clients |-> IF d = c THEN t1 ELSE T[d]]
  BY <1>1
<1>12. \A d \in Clients : TableOk(d, U[d], w)
  <2>1. ASSUME NEW d \in Clients, d # c PROVE TableOk(d, T[d], w)
    BY <1>1, <1>8, <2>1 DEF TableOk
  <2> QED BY <1>10, <1>11, <2>1
<1>13. ASSUME NEW q \in Resources PROVE InTable(U, q) <=> InTable(T, q) /\ q # r
  <2>1. Owner[q.id] \in Clients
    BY ConstantFacts
  <2>2. CASE Owner[q.id] # c
    BY <1>3, <1>11, <2>1, <2>2 DEF InTable
  <2>3. CASE Owner[q.id] = c
    <3>1. Hash(q.id, n) \in 0 .. n - 1
      BY <1>1, ConstantFacts
    <3>2. InTable(U, q) <=> q \in Range(t1.resources[Hash(q.id, n)])
      BY <1>1, <1>9, <1>11, <2>3 DEF InTable
    <3>3. InTable(T, q) <=> q \in Range(t.resources[Hash(q.id, n)])
      BY <1>1, <2>3 DEF InTable
    <3>4. CASE Hash(q.id, n) = b
      BY <1>4, <1>9, <3>2, <3>3, <3>4
    <3>5. CASE Hash(q.id, n) # b
      BY <1>3, <1>9, <3>1, <3>2, <3>3, <3>5
    <3> QED BY <3>4, <3>5
  <2> QED BY <2>2, <2>3
<1>14. TablesInv(U, w)
  <2>1. Range(w) = {q \in Resources : InTable(U, q)}
    BY <1>1, <1>5, <1>13
  <2> QED BY <1>5, <1>11, <1>12, <2>1 DEF TablesInv
<1>15. /\ \A d \in Clients : U[d].buckets = T[d].buckets /\ (d # c => U[d] = T[d])
       /\ U[c].elements = e /\ U[c].resources[b] = v
  BY <1>9, <1>11
<1>16. ASSUME NEW d \in Clients, NEW k \in 0 .. T[d].buckets - 1
       PROVE  Range(U[d].resources[k]) \subseteq Range(T[d].resources[k])
  <2>1. CASE d # c
    BY <1>11, <2>1
  <2>2. CASE d = c /\ k # b
    BY <1>9, <1>11, <2>2
  <2>3. CASE d = c /\ k = b
    BY <1>4, <1>9, <1>11, <2>3
  <2> QED BY <2>1, <2>2, <2>3
<1> QED BY <1>3, <1>13, <1>14, <1>15, <1>16 DEF TakenOut, v, w, t1

---------------------------------------------------------------------------
(* The loops and delete functions.                                         *)

Calls == [op : {"FreeResource"}, id : Ids, type : Types \cup {RT_NONE}]

Loops == {"FreeResource", "FreeResourceByType", "NeverRetain", "ClientResources"}

Frames ==
    [op : Loops \cup {"delete"}, cid : Clients, bucket : Nat, id : Ids \cup {None},
     type : Types \cup {RT_NONE, None}, prev : Resources \cup {None},
     res : Resources \cup {None}, elements : Int, calls : Seq(Calls)]

ChainOf(f, T) == T[f.cid].resources[f.bucket]

GoneFrom(T, id) == \A r \in Resources : r.id = id => ~InTable(T, r)

(* The loop f has passed prev and what is before it, and nothing of that   *)
(* is what it looks for.                                                   *)
Passed(f, T) ==
    \E p \in DOMAIN ChainOf(f, T) :
        /\ ChainOf(f, T)[p] = f.prev
        /\ \A j \in 1 .. p : ~Matches(f, ChainOf(f, T)[j])

(* A loop that will not use prev any more: FreeResourceByType frees one,   *)
(* and FreeResource starts again, for others were freed.                   *)
Stale(f, T) ==
    /\ f.res # None
    /\ \/ f.op = "FreeResourceByType"
       \/ f.op = "FreeResource" /\ T[f.cid].elements < f.elements

LoopInv(f, T) ==
    /\ f.op \in Loops /\ f.bucket \in 0 .. T[f.cid].buckets - 1
    /\ f.op \in {"FreeResource", "FreeResourceByType"} =>
         f.id \in Ids /\ f.cid = Owner[f.id] /\ f.bucket = Hash(f.id, T[f.cid].buckets)
    /\ f.op = "FreeResource" /\ f.res # None => T[f.cid].elements <= f.elements
    /\ f.op = "FreeResourceByType" => f.type = "driDrawable"
    /\ f.op = "NeverRetain" /\ f.res # None => f.res.type \in NeverRetained
    /\ f.op = "ClientResources" => f.prev = None
    /\ f.op \in {"NeverRetain", "ClientResources"} =>
         \A b \in 0 .. f.bucket - 1 : \A r \in Range(T[f.cid].resources[b]) : ~Matches(f, r)
    /\ f.prev # None /\ ~Stale(f, T) => Passed(f, T)

(* The delete function of a resource, which cannot be found any more.      *)
DeleteInv(f, T) ==
    /\ f.op = "delete" /\ f.res \in Resources /\ ~InTable(T, f.res)
    /\ \A j \in DOMAIN f.calls : f.calls[j] \in Range(Dependents[f.res])

FrameInv(f, T) == LoopInv(f, T) \/ DeleteInv(f, T)

(* g called f: a loop a delete function, or that a loop.                   *)
CalledBy(f, g) ==
    \/ /\ f.op = "delete" /\ g.op \in Loops /\ g.res = f.res
    \/ /\ f.op = "FreeResource" /\ g.op = "delete"
       /\ \E m \in DOMAIN Dependents[g.res] :
            Dependents[g.res][m].id = f.id /\ Dependents[g.res][m].type = f.type

(* No delete function of the outermost loop is skipped.                    *)
OutermostOk(f) == f.op # "delete" /\ (f.op = "FreeResource" => f.type = RT_NONE)

Shape(st) ==
    /\ st \in Seq(Frames)
    /\ \A i \in 1 .. Len(st) - 1 : CalledBy(st[i], st[i + 1])
    /\ \A i \in 2 .. Len(st) : st[i].res # None
    /\ st # <<>> => OutermostOk(st[Len(st)])
    /\ \A i, j \in 1 .. Len(st) :
         st[i].op = "delete" /\ st[j].op = "delete" /\ st[i].res = st[j].res => i = j

(* What a delete function frees it still will free, or is freeing, or is   *)
(* gone.                                                                   *)
WillCall(f, id) == \E j \in DOMAIN f.calls : f.calls[j].id = id

Handled(st, i, T, id) ==
    \/ WillCall(st[i], id)
    \/ i > 1 /\ st[i - 1].id = id
    \/ GoneFrom(T, id)

CallsInv(st, T) ==
    \A i \in 1 .. Len(st) : st[i].op = "delete" =>
        \A m \in DOMAIN Dependents[st[i].res] : Handled(st, i, T, Dependents[st[i].res][m].id)

(* f will free r.                                                          *)
Frees1(f, r) ==
    \/ f.op = "delete" /\ WillCall(f, r.id)
    \/ f.op = "FreeResource" /\ f.id = r.id
    \/ f.op = "ClientResources" /\ f.cid = Owner[r.id]

(* What needs a resource that is not there will be freed.                  *)
OrphansInv(st, T) ==
    \A r \in Resources : InTable(T, r) =>
        \A s \in Needs[r] : InTable(T, s) \/ \E i \in 1 .. Len(st) : Frees1(st[i], r)

StackInv(st, T) ==
    /\ Shape(st) /\ \A i \in 1 .. Len(st) : FrameInv(st[i], T)
    /\ CallsInv(st, T) /\ OrphansInv(st, T)

RetainedInv(kept, T) ==
    /\ kept \subseteq Clients
    /\ \A r \in Resources : InTable(T, r) /\ Owner[r.id] \in kept => r.type \notin NeverRetained

(* The inductive invariant.                                                *)
IInv ==
    /\ TablesInv(clientTable, added)
    /\ StackInv(stack, clientTable)
    /\ RetainedInv(retained, clientTable)

---------------------------------------------------------------------------
(* Stacks.                                                                 *)

LEMMA FrameFields ==
    ASSUME NEW f \in Frames
    PROVE  /\ f.op \in Loops \cup {"delete"} /\ f.cid \in Clients /\ f.bucket \in Nat
           /\ f.id \in Ids \cup {None} /\ f.type \in Types \cup {RT_NONE, None}
           /\ f.prev \in Resources \cup {None} /\ f.res \in Resources \cup {None}
           /\ f.elements \in Int /\ f.calls \in Seq(Calls)
  BY DEF Frames

LEMMA OneKind ==
    ASSUME NEW f, NEW T, FrameInv(f, T)
    PROVE  /\ f.op = "delete" => DeleteInv(f, T)
           /\ f.op # "delete" => LoopInv(f, T) /\ f.op \in Loops
  BY DEF FrameInv, LoopInv, DeleteInv, Loops

(* The innermost frame becomes g, still the same call.                     *)
SameCall(g, f) ==
    /\ g.op = f.op /\ g.id = f.id /\ g.type = f.type /\ g.cid = f.cid
    /\ f.op = "delete" => g.res = f.res

LEMMA TopFacts ==
    ASSUME NEW st, Shape(st), st # <<>>, NEW g \in Frames, SameCall(g, st[1])
    PROVE  LET v == [st EXCEPT ![1] = g]
           IN /\ Shape(v) /\ v \in Seq(Frames) /\ Len(v) = Len(st) /\ v[1] = g
              /\ Len(st) \in Nat /\ Len(st) > 0
              /\ \A i \in 1 .. Len(st) : i # 1 => v[i] = st[i]
              /\ \A i \in 1 .. Len(st) : SameCall(v[i], st[i])
<1> DEFINE v == [st EXCEPT ![1] = g]
           n == Len(st)
<1>1. /\ st \in Seq(Frames) /\ n \in Nat /\ n > 0 /\ v \in Seq(Frames) /\ Len(v) = n /\ v[1] = g
      /\ \A i \in 1 .. n : i # 1 => v[i] = st[i]
  BY DEF Shape
<1> HIDE DEF v
<1>2. \A i \in 1 .. n : SameCall(v[i], st[i])
  BY <1>1 DEF SameCall
<1>3. \A i \in 1 .. n - 1 : CalledBy(v[i], v[i + 1])
  <2> SUFFICES ASSUME NEW i \in 1 .. n - 1 PROVE CalledBy(v[i], v[i + 1])
    OBVIOUS
  <2>1. CalledBy(st[i], st[i + 1]) /\ v[i + 1] = st[i + 1] /\ i \in 1 .. n
    BY <1>1 DEF Shape
  <2>2. SameCall(v[i], st[i])
    BY <1>2, <2>1
  <2> QED BY <2>1, <2>2 DEF CalledBy, SameCall
<1>4. \A i \in 2 .. n : v[i].res # None
  BY <1>1 DEF Shape
<1>5. OutermostOk(v[n])
  <2>1. SameCall(v[n], st[n]) /\ OutermostOk(st[n])
    BY <1>1, <1>2 DEF Shape
  <2> QED BY <2>1 DEF OutermostOk, SameCall
<1>6. \A i, j \in 1 .. n :
        v[i].op = "delete" /\ v[j].op = "delete" /\ v[i].res = v[j].res => i = j
  BY <1>2 DEF Shape, SameCall
<1>7. Shape(v)
  BY <1>1, <1>3, <1>4, <1>5, <1>6 DEF Shape
<1> QED BY <1>1, <1>2, <1>7 DEF v

(* The innermost loop goes on.                                             *)
LEMMA LoopGoesOn ==
    ASSUME NEW st, NEW T, StackInv(st, T), st # <<>>, NEW g \in Frames, LoopInv(g, T),
           SameCall(g, st[1])
    PROVE  StackInv([st EXCEPT ![1] = g], T)
<1> DEFINE v == [st EXCEPT ![1] = g]
           n == Len(st)
<1>1. /\ Shape(v) /\ v \in Seq(Frames) /\ Len(v) = n /\ v[1] = g /\ n \in Nat /\ n > 0
      /\ \A i \in 1 .. n : i # 1 => v[i] = st[i]
      /\ \A i \in 1 .. n : SameCall(v[i], st[i])
  BY TopFacts DEF StackInv
<1> HIDE DEF v
<1>2. g.op # "delete"
  BY DEF LoopInv, Loops
<1>3. \A i \in 1 .. n : v[i].op = st[i].op /\ (v[i].op = "delete" => v[i] = st[i])
                        /\ v[i].id = st[i].id /\ v[i].type = st[i].type /\ v[i].cid = st[i].cid
  BY <1>1, <1>2 DEF SameCall
<1>4. \A i \in 1 .. n : FrameInv(v[i], T)
  BY <1>1 DEF StackInv, FrameInv
<1>5. CallsInv(v, T)
  <2> SUFFICES ASSUME NEW i \in 1 .. n, v[i].op = "delete", NEW m \in DOMAIN Dependents[v[i].res]
               PROVE  Handled(v, i, T, Dependents[v[i].res][m].id)
    BY <1>1 DEF CallsInv
  <2>1. Handled(st, i, T, Dependents[v[i].res][m].id) /\ v[i] = st[i]
    BY <1>3 DEF StackInv, CallsInv
  <2>2. i > 1 => v[i - 1].id = st[i - 1].id
    BY <1>1, <1>3
  <2> QED BY <2>1, <2>2 DEF Handled
<1>6. OrphansInv(v, T)
  <2>1. \A i \in 1 .. n : \A r : Frees1(st[i], r) => Frees1(v[i], r)
    BY <1>3 DEF Frees1
  <2> QED BY <1>1, <2>1 DEF StackInv, OrphansInv
<1>7. StackInv(v, T)
  BY <1>1, <1>4, <1>5, <1>6 DEF StackInv
<1> QED BY <1>7 DEF v

LEMMA PopFacts ==
    ASSUME NEW st, Shape(st), st # <<>>
    PROVE  /\ Shape(Tail(st)) /\ Len(st) \in Nat /\ Len(st) > 0 /\ Len(Tail(st)) = Len(st) - 1
           /\ \A i \in 1 .. Len(st) - 1 : Tail(st)[i] = st[i + 1] /\ i + 1 \in 1 .. Len(st)
           /\ \A i \in 1 .. Len(st) : i > 1 => i - 1 \in 1 .. Len(st) - 1 /\ st[i] = Tail(st)[i - 1]
<1> DEFINE v == Tail(st)
           n == Len(st)
<1>1. /\ st \in Seq(Frames) /\ n \in Nat /\ n > 0 /\ v \in Seq(Frames) /\ Len(v) = n - 1
      /\ \A i \in 1 .. n - 1 : v[i] = st[i + 1] /\ i + 1 \in 1 .. n
  BY DEF Shape
<1>2. ASSUME NEW i \in 1 .. n, i > 1 PROVE i - 1 \in 1 .. n - 1 /\ st[i] = v[i - 1]
  <2>1. i - 1 \in 1 .. n - 1 /\ (i - 1) + 1 = i
    BY <1>1, <1>2
  <2> QED BY <1>1, <2>1
<1> HIDE DEF v
<1>3. \A i \in 1 .. Len(v) - 1 : CalledBy(v[i], v[i + 1])
  <2> SUFFICES ASSUME NEW i \in 1 .. Len(v) - 1 PROVE CalledBy(v[i], v[i + 1])
    OBVIOUS
  <2>1. /\ i \in 1 .. n - 1 /\ i + 1 \in 1 .. n - 1
    BY <1>1
  <2>2. CalledBy(st[i + 1], st[(i + 1) + 1])
    BY <2>1 DEF Shape
  <2> QED BY <1>1, <2>1, <2>2
<1>4. \A i \in 2 .. Len(v) : v[i].res # None
  BY <1>1 DEF Shape
<1>5. v # <<>> => OutermostOk(v[Len(v)])
  <2> SUFFICES ASSUME v # <<>> PROVE OutermostOk(v[n - 1])
    BY <1>1
  <2>1. Len(v) # 0
    BY <1>1, EmptySeq
  <2>2. n - 1 \in 1 .. n - 1 /\ (n - 1) + 1 = n
    BY <1>1, <2>1
  <2>3. v[n - 1] = st[n]
    BY <1>1, <2>2
  <2>4. OutermostOk(st[n])
    BY DEF Shape
  <2> QED BY <2>3, <2>4
<1>6. \A i, j \in 1 .. Len(v) :
        v[i].op = "delete" /\ v[j].op = "delete" /\ v[i].res = v[j].res => i = j
  BY <1>1 DEF Shape
<1>7. Shape(v)
  BY <1>1, <1>3, <1>4, <1>5, <1>6 DEF Shape
<1> QED BY <1>1, <1>2, <1>7 DEF v

(* The innermost loop or delete function returns, having freed all that it *)
(* is to free.                                                             *)
LEMMA Returns ==
    ASSUME NEW st, NEW T, StackInv(st, T), st # <<>>,
           \A r \in Resources : Frees1(st[1], r) => ~InTable(T, r),
           st[1].op = "FreeResource" => GoneFrom(T, st[1].id)
    PROVE  StackInv(Tail(st), T)
<1> DEFINE v == Tail(st)
           n == Len(st)
<1>1. /\ Shape(st) /\ Shape(v) /\ n \in Nat /\ n > 0 /\ Len(v) = n - 1
      /\ \A i \in 1 .. n - 1 : v[i] = st[i + 1] /\ i + 1 \in 1 .. n
      /\ \A i \in 1 .. n : i > 1 => i - 1 \in 1 .. n - 1 /\ st[i] = v[i - 1]
  BY PopFacts DEF StackInv
<1> HIDE DEF v
<1>2. \A i \in 1 .. n - 1 : FrameInv(v[i], T)
  BY <1>1 DEF StackInv
<1>3. CallsInv(v, T)
  <2> SUFFICES ASSUME NEW i \in 1 .. n - 1, v[i].op = "delete",
                      NEW m \in DOMAIN Dependents[v[i].res]
               PROVE  Handled(v, i, T, Dependents[v[i].res][m].id)
    BY <1>1 DEF CallsInv
  <2> DEFINE id == Dependents[v[i].res][m].id
  <2>1. Handled(st, i + 1, T, id) /\ st[i + 1] = v[i]
    <3>1. CallsInv(st, T) /\ i + 1 \in 1 .. Len(st) /\ st[i + 1] = v[i]
      BY <1>1 DEF StackInv
    <3>2. st[i + 1].op = "delete" /\ m \in DOMAIN Dependents[st[i + 1].res]
      BY <3>1
    <3>3. Handled(st, i + 1, T, Dependents[st[i + 1].res][m].id)
      BY <3>1, <3>2 DEF CallsInv
    <3> QED BY <3>1, <3>3
  <2>2. CASE WillCall(v[i], id) \/ GoneFrom(T, id)
    BY <2>2 DEF Handled
  <2>3. CASE st[i].id = id
    <3>1. CASE i = 1
      <4>1. CalledBy(st[1], st[2])
        BY <1>1, <3>1 DEF Shape
      <4>2. st[1].op = "FreeResource"
        BY <2>1, <3>1, <4>1 DEF CalledBy, Loops
      <4> QED BY <2>3, <3>1, <4>2 DEF Handled
    <3>2. CASE i > 1
      <4>1. v[i - 1] = st[i]
        BY <1>1, <3>2
      <4> QED BY <2>3, <3>2, <4>1 DEF Handled
    <3> QED BY <3>1, <3>2
  <2>4. (i + 1) - 1 = i
    OBVIOUS
  <2> QED BY <2>1, <2>2, <2>3, <2>4 DEF Handled
<1>4. OrphansInv(v, T)
  <2> SUFFICES ASSUME NEW r \in Resources, InTable(T, r), NEW s \in Needs[r], ~InTable(T, s)
               PROVE  \E i \in 1 .. n - 1 : Frees1(v[i], r)
    BY <1>1 DEF OrphansInv
  <2>1. PICK i \in 1 .. n : Frees1(st[i], r)
    BY DEF StackInv, OrphansInv
  <2>2. i # 1
    BY <2>1
  <2>3. i - 1 \in 1 .. n - 1 /\ st[i] = v[i - 1]
    BY <1>1, <2>2
  <2> QED BY <2>1, <2>3
<1>5. StackInv(v, T)
  BY <1>1, <1>2, <1>3, <1>4 DEF StackInv
<1> QED BY <1>5 DEF v

(* f is called.                                                            *)
LEMMA PushFacts ==
    ASSUME NEW st, Shape(st), st # <<>>, st[1].res # None, NEW f \in Frames, CalledBy(f, st[1]),
           \A i \in 1 .. Len(st) :
             f.op = "delete" /\ st[i].op = "delete" => st[i].res # f.res
    PROVE  LET v == <<f>> \o st
           IN /\ Shape(v) /\ Len(v) = Len(st) + 1 /\ v[1] = f /\ Len(st) \in Nat /\ Len(st) > 0
              /\ \A i \in 1 .. Len(st) : v[i + 1] = st[i] /\ i + 1 \in 1 .. Len(v)
              /\ \A i \in 2 .. Len(v) : i - 1 \in 1 .. Len(st) /\ v[i] = st[i - 1]
<1> DEFINE v == <<f>> \o st
           n == Len(st)
<1>1. /\ st \in Seq(Frames) /\ n \in Nat /\ n > 0 /\ v \in Seq(Frames) /\ Len(v) = n + 1
      /\ v[1] = f /\ \A i \in 1 .. n : v[i + 1] = st[i] /\ i + 1 \in 1 .. n + 1
  BY DEF Shape
<1> HIDE DEF v
<1>2. ASSUME NEW i \in 2 .. n + 1 PROVE i - 1 \in 1 .. n /\ v[i] = st[i - 1]
  <2>1. i - 1 \in 1 .. n /\ (i - 1) + 1 = i
    BY <1>1
  <2> QED BY <1>1, <2>1
<1>3. ASSUME NEW i \in 1 .. n PROVE CalledBy(v[i], v[i + 1])
  <2>1. CASE i = 1
    BY <1>1, <2>1
  <2>2. CASE i # 1
    <3>1. i \in 2 .. n + 1 /\ i - 1 \in 1 .. n - 1 /\ (i - 1) + 1 = i
      BY <1>1, <2>2
    <3>2. CalledBy(st[i - 1], st[(i - 1) + 1])
      BY <3>1 DEF Shape
    <3> QED BY <1>1, <1>2, <3>1, <3>2
  <2> QED BY <2>1, <2>2
<1>4. \A i \in 1 .. n : st[i].res # None
  BY <1>1 DEF Shape
<1>5. \A i \in 2 .. n + 1 : v[i].res # None
  BY <1>2, <1>4
<1>6. OutermostOk(v[n + 1])
  <2>1. OutermostOk(st[n]) /\ n \in 1 .. n
    BY <1>1 DEF Shape
  <2> QED BY <1>1, <2>1
<1>7. ASSUME NEW i \in 1 .. n + 1, NEW j \in 1 .. n + 1, v[i].op = "delete", v[j].op = "delete",
             v[i].res = v[j].res
      PROVE  i = j
  <2>1. ASSUME NEW k \in 2 .. n + 1, v[1].op = "delete", v[k].op = "delete" PROVE v[k].res # v[1].res
    BY <1>1, <1>2, <2>1
  <2>2. CASE i = 1 \/ j = 1
    BY <1>1, <1>7, <2>1, <2>2
  <2>3. CASE i # 1 /\ j # 1
    <3>1. i \in 2 .. n + 1 /\ j \in 2 .. n + 1
      BY <1>1, <2>3
    <3>2. i - 1 \in 1 .. n /\ v[i] = st[i - 1] /\ j - 1 \in 1 .. n /\ v[j] = st[j - 1]
      BY <1>2, <3>1
    <3>3. i - 1 = j - 1
      BY <1>7, <3>2 DEF Shape
    <3> QED BY <3>3
  <2> QED BY <2>2, <2>3
<1>8. Shape(v)
  BY <1>1, <1>3, <1>5, <1>6, <1>7 DEF Shape
<1> QED BY <1>1, <1>2, <1>8 DEF v

---------------------------------------------------------------------------
(* Where a loop is.                                                        *)

LEMMA TopIsFirst ==
    ASSUME IInv, Running
    PROVE  /\ Top = stack[1] /\ Top \in Frames /\ Len(stack) \in Nat /\ Len(stack) > 0
           /\ stack # <<>> /\ Shape(stack) /\ FrameInv(stack[1], clientTable)
           /\ StackInv(stack, clientTable)
<1>1. /\ stack \in Seq(Frames) /\ stack # <<>> /\ Shape(stack)
      /\ StackInv(stack, clientTable)
  BY DEF IInv, StackInv, Shape, Running
<1>2. Top = stack[1] /\ Top \in Frames /\ Len(stack) \in Nat /\ Len(stack) > 0
  BY <1>1 DEF Top
<1> QED BY <1>1, <1>2 DEF StackInv

(* The chain of a loop is a chain of its client's table.                   *)
LEMMA ChainFacts ==
    ASSUME NEW f \in Frames, NEW T, NEW a, TablesInv(T, a), LoopInv(f, T)
    PROVE  /\ f.cid \in Clients /\ T[f.cid].buckets \in Nat /\ f.bucket \in 0 .. T[f.cid].buckets - 1
           /\ T[f.cid].buckets > 0 /\ T[f.cid].buckets \in Sizes
           /\ ChainOf(f, T) \in Seq(Resources) /\ IsInjective(ChainOf(f, T))
           /\ T[f.cid].elements \in Int
<1> DEFINE t == T[f.cid]
<1>1. f.cid \in Clients /\ f.bucket \in Nat
  BY FrameFields
<1>2. TableOk(f.cid, t, a)
  BY <1>1 DEF TablesInv
<1>3. t.buckets \in Nat /\ t.elements \in Int /\ t.buckets \in Sizes \cup {0}
  BY <1>2, SelfType DEF TableOk
<1>4. f.bucket \in 0 .. t.buckets - 1
  BY DEF LoopInv
<1>5. t.buckets > 0 /\ t.buckets \in Sizes
  BY <1>1, <1>3, <1>4
<1>6. ChainOk(f.cid, t.buckets, f.bucket, ChainOf(f, T))
  BY <1>2, <1>4 DEF TableOk, ChainOf
<1> QED BY <1>1, <1>3, <1>4, <1>5, <1>6 DEF ChainOk

LEMMA SubSeqRest ==
    ASSUME NEW S, NEW s \in Seq(S), NEW k \in 1 .. Len(s)
    PROVE  LET v == SubSeq(s, k + 1, Len(s))
           IN /\ v = <<>> <=> k = Len(s)
              /\ v # <<>> => Head(v) = s[k + 1]
<1> DEFINE v == SubSeq(s, k + 1, Len(s))
<1>1. Len(s) \in Nat /\ k \in Nat /\ k >= 1 /\ k <= Len(s)
  OBVIOUS
<1>2. v \in Seq(S) /\ Len(v) = Len(s) - k /\ \A i \in 1 .. Len(s) - k : v[i] = s[k + i]
  BY <1>1
<1> HIDE DEF v
<1>3. v = <<>> <=> k = Len(s)
  BY <1>1, <1>2, EmptySeq
<1>4. v # <<>> => Head(v) = s[k + 1]
  <2> SUFFICES ASSUME v # <<>> PROVE Head(v) = s[k + 1]
    OBVIOUS
  <2>1. Head(v) = v[1] /\ 1 \in 1 .. Len(s) - k
    BY <1>1, <1>2, <1>3
  <2> QED BY <1>2, <2>1
<1> QED BY <1>3, <1>4 DEF v

(* The loop looks at place p; nothing before it is what it looks for.      *)
LooksAt(p) ==
    /\ p \in 1 .. Len(Chain) + 1
    /\ \A j \in 1 .. p - 1 : ~Matches(Top, Chain[j])
    /\ Rest = <<>> <=> p = Len(Chain) + 1
    /\ Rest # <<>> => Head(Rest) = Chain[p]
    /\ Top.prev # None => p > 1 /\ Top.prev = Chain[p - 1]

LEMMA RestFacts ==
    ASSUME IInv, Scanning
    PROVE  /\ LoopInv(Top, clientTable) /\ Top.op \in Loops /\ Chain = ChainOf(Top, clientTable)
           /\ Chain \in Seq(Resources) /\ IsInjective(Chain)
           /\ \E p : LooksAt(p)
<1>1. Top = stack[1] /\ Top \in Frames /\ FrameInv(stack[1], clientTable)
  BY TopIsFirst DEF Scanning
<1>2. LoopInv(Top, clientTable) /\ Top.op \in Loops
  BY <1>1, OneKind DEF Scanning
<1>3. Chain = ChainOf(Top, clientTable) /\ Chain \in Seq(Resources) /\ IsInjective(Chain)
  BY <1>1, <1>2, ChainFacts DEF IInv, Chain, ChainOf
<1>4. CASE Top.prev = None
  <2>1. Rest = Chain
    BY <1>4 DEF Rest
  <2>2. Rest # <<>> => Head(Rest) = Chain[1]
    BY <1>3, <2>1
  <2>3. 1 \in 1 .. Len(Chain) + 1 /\ (Rest = <<>> <=> 1 = Len(Chain) + 1)
    BY <1>3, <2>1, EmptySeq
  <2>4. \A j \in 1 .. 1 - 1 : ~Matches(Top, Chain[j])
    OBVIOUS
  <2>5. LooksAt(1)
    BY <1>4, <2>2, <2>3, <2>4 DEF LooksAt
  <2> QED BY <1>2, <1>3, <2>5
<1>5. CASE Top.prev # None
  <2>1. Passed(Top, clientTable)
    BY <1>2, <1>5 DEF LoopInv, Stale, Scanning
  <2>2. PICK k \in DOMAIN Chain : /\ Chain[k] = Top.prev
                                  /\ \A j \in 1 .. k : ~Matches(Top, Chain[j])
    BY <1>3, <2>1 DEF Passed
  <2>3. k \in 1 .. Len(Chain) /\ Len(Chain) \in Nat /\ k \in Nat
    BY <1>3
  <2>4. Rest = SubSeq(Chain, k + 1, Len(Chain))
    <3>1. Place(Chain, Chain[k]) = k
      BY <1>3, PlaceFacts
    <3>2. Top.prev \in Range(Chain)
      BY <2>2 DEF Range
    <3> QED BY <1>5, <2>2, <3>1, <3>2 DEF Rest
  <2>5. (Rest = <<>> <=> k = Len(Chain)) /\ (Rest # <<>> => Head(Rest) = Chain[k + 1])
    BY <1>3, <2>3, <2>4, SubSeqRest
  <2>6. k + 1 \in 1 .. Len(Chain) + 1 /\ (k + 1) - 1 = k /\ k + 1 > 1
        /\ (Rest = <<>> <=> k + 1 = Len(Chain) + 1)
    BY <2>3, <2>5
  <2>7. LooksAt(k + 1)
    BY <2>2, <2>5, <2>6 DEF LooksAt
  <2> QED BY <1>2, <1>3, <2>7
<1> QED BY <1>4, <1>5

---------------------------------------------------------------------------
(* The steps.                                                              *)

LEMMA NextResourceStep ==
    ASSUME IInv, NextResource
    PROVE  IInv'
<1> DEFINE g == [Top EXCEPT !.prev = Head(Rest)]
           T == clientTable
<1>1. Scanning /\ Running /\ Rest # <<>> /\ ~Matches(Top, Head(Rest))
      /\ stack' = [stack EXCEPT ![1] = g] /\ T' = T /\ added' = added /\ retained' = retained
  BY DEF NextResource, Scanning
<1>2. /\ LoopInv(Top, T) /\ Top.op \in Loops /\ Chain = ChainOf(Top, T)
      /\ Chain \in Seq(Resources)
  BY <1>1, RestFacts
<1>3. PICK p : LooksAt(p)
  BY <1>1, RestFacts
<1>4. /\ Top = stack[1] /\ Top \in Frames /\ stack # <<>> /\ StackInv(stack, T)
  BY <1>1, TopIsFirst
<1>5. p \in DOMAIN Chain /\ Head(Rest) = Chain[p] /\ Chain[p] \in Resources
      /\ \A j \in 1 .. p : ~Matches(Top, Chain[j])
  <2>1. p \in 1 .. Len(Chain) /\ Len(Chain) \in Nat
    BY <1>1, <1>2, <1>3 DEF LooksAt
  <2>2. \A j \in 1 .. p : j = p \/ j \in 1 .. p - 1
    BY <2>1
  <2> QED BY <1>1, <1>2, <1>3, <2>1, <2>2 DEF LooksAt
<1>6. /\ g \in Frames /\ g.prev = Chain[p] /\ SameCall(g, Top) /\ g.res = Top.res
      /\ g.bucket = Top.bucket /\ g.elements = Top.elements
  BY <1>4, <1>5 DEF Frames, SameCall
<1> HIDE DEF g
<1>7. Passed(g, T)
  <2>1. ChainOf(g, T) = Chain
    BY <1>2, <1>6 DEF ChainOf, SameCall
  <2>2. \A r : Matches(g, r) <=> Matches(Top, r)
    BY <1>6 DEF Matches, SameCall
  <2> QED BY <1>5, <1>6, <2>1, <2>2 DEF Passed
<1>8. Top.op # "ClientResources"
  BY <1>1 DEF Matches
<1>9. LoopInv(g, T)
  <2>1. \A r : Matches(g, r) <=> Matches(Top, r)
    BY <1>6 DEF Matches, SameCall
  <2> QED BY <1>1, <1>2, <1>6, <1>7, <1>8, <2>1 DEF LoopInv, SameCall, Scanning
<1>10. StackInv([stack EXCEPT ![1] = g], T)
  BY <1>4, <1>6, <1>9, LoopGoesOn
<1> QED BY <1>1, <1>10 DEF IInv

LEMMA FreedStep ==
    ASSUME IInv, Freed
    PROVE  IInv'
<1> DEFINE g == [Top EXCEPT !.res = None, !.prev = PrevAgain(Top, clientTable[Top.cid].elements)]
           T == clientTable
<1>1. /\ Running /\ Top.op # "delete" /\ Top.res # None
      /\ stack' = IF Top.op = "FreeResourceByType" THEN Tail(stack) ELSE [stack EXCEPT ![1] = g]
      /\ T' = T /\ added' = added /\ retained' = retained
  BY DEF Freed
<1>2. /\ Top = stack[1] /\ Top \in Frames /\ stack # <<>> /\ StackInv(stack, T)
      /\ LoopInv(Top, T) /\ Top.op \in Loops
  BY <1>1, TopIsFirst, OneKind
<1>3. CASE Top.op = "FreeResourceByType"
  <2>1. \A r : ~Frees1(stack[1], r)
    BY <1>2, <1>3 DEF Frees1
  <2>2. StackInv(Tail(stack), T)
    BY <1>2, <1>3, <2>1, Returns
  <2> QED BY <1>1, <1>3, <2>2 DEF IInv
<1>4. CASE Top.op # "FreeResourceByType"
  <2>1. PrevAgain(Top, T[Top.cid].elements) \in {None, Top.prev}
    BY DEF PrevAgain
  <2>2. /\ g \in Frames /\ SameCall(g, Top) /\ g.res = None /\ g.bucket = Top.bucket
        /\ g.elements = Top.elements /\ g.prev = PrevAgain(Top, T[Top.cid].elements)
    BY <1>1, <1>2, <2>1 DEF Frames, SameCall
  <2> HIDE DEF g
  <2>3. \A r : Matches(g, r) <=> Matches(Top, r)
    BY <2>2 DEF Matches, SameCall
  <2>4. ASSUME g.prev # None PROVE Passed(g, T)
    <3>1. g.prev = Top.prev /\ (Top.op = "FreeResource" => T[Top.cid].elements = Top.elements)
      BY <2>1, <2>2, <2>4 DEF PrevAgain
    <3>2. T[Top.cid].elements \in Int
      BY <1>2, ChainFacts DEF IInv
    <3>3. ~Stale(Top, T)
      BY <1>4, <3>1, <3>2 DEF Stale
    <3>4. Passed(Top, T)
      BY <1>2, <2>4, <3>1, <3>3 DEF LoopInv
    <3> QED BY <2>2, <2>3, <3>1, <3>4 DEF Passed, ChainOf, SameCall
  <2>5. LoopInv(g, T)
    BY <1>2, <2>1, <2>2, <2>3, <2>4 DEF LoopInv, SameCall
  <2>6. StackInv([stack EXCEPT ![1] = g], T)
    BY <1>2, <2>2, <2>5, LoopGoesOn
  <2> QED BY <1>1, <1>4, <2>6 DEF IInv
<1> QED BY <1>3, <1>4

(* The loop has come to the end of its chain.                              *)
LEMMA NoneInChain ==
    ASSUME IInv, Scanning, Rest = <<>>
    PROVE  \A r \in Range(Chain) : ~Matches(Top, r)
<1>1. PICK p : LooksAt(p)
  BY RestFacts
<1>2. p = Len(Chain) + 1 /\ Chain \in Seq(Resources)
  BY <1>1, RestFacts DEF LooksAt
<1>3. \A j \in 1 .. Len(Chain) : j \in 1 .. p - 1
  BY <1>2
<1> QED BY <1>1, <1>2, <1>3 DEF LooksAt, Range

LEMMA EndOfChainStep ==
    ASSUME IInv, EndOfChain
    PROVE  IInv'
<1> DEFINE g == [Top EXCEPT !.bucket = @ + 1, !.prev = None]
           T == clientTable
           all == {"NeverRetain", "ClientResources"}
<1>1. /\ Scanning /\ Running /\ Rest = <<>> /\ (Top.op \in all => ~LastBucket)
      /\ stack' = IF Top.op \in all THEN [stack EXCEPT ![1] = g] ELSE Tail(stack)
      /\ T' = T /\ added' = added /\ retained' = retained
  BY DEF EndOfChain, Scanning
<1>2. /\ Top = stack[1] /\ Top \in Frames /\ stack # <<>> /\ StackInv(stack, T)
  BY <1>1, TopIsFirst
<1>3. LoopInv(Top, T) /\ Top.op \in Loops /\ Chain = ChainOf(Top, T)
  BY <1>1, RestFacts
<1>4. \A r \in Range(Chain) : ~Matches(Top, r)
  BY <1>1, NoneInChain
<1>5. /\ T[Top.cid].buckets \in Nat /\ Top.bucket \in 0 .. T[Top.cid].buckets - 1
      /\ T[Top.cid].buckets > 0
  BY <1>2, <1>3, ChainFacts DEF IInv
<1>6. CASE Top.op \in all
  <2>1. Top.bucket + 1 \in 0 .. T[Top.cid].buckets - 1
    BY <1>1, <1>5, <1>6 DEF LastBucket, Buckets
  <2>2. /\ g \in Frames /\ SameCall(g, Top) /\ g.res = None /\ g.bucket = Top.bucket + 1
        /\ g.prev = None
    <3>1. Top.bucket + 1 \in Nat /\ None \in Resources \cup {None}
      BY <1>5
    <3>2. g \in Frames
      BY <1>2, <3>1 DEF Frames
    <3>3. g.op = Top.op /\ g.id = Top.id /\ g.type = Top.type /\ g.cid = Top.cid /\ g.res = Top.res
      BY <1>2 DEF Frames
    <3>4. g.bucket = Top.bucket + 1 /\ g.prev = None
      BY <1>2 DEF Frames
    <3> QED BY <1>1, <3>2, <3>3, <3>4 DEF SameCall, Scanning
  <2> HIDE DEF g
  <2>3. \A r : Matches(g, r) <=> Matches(Top, r)
    BY <2>2 DEF Matches, SameCall
  <2>4. ASSUME NEW b \in 0 .. g.bucket - 1, NEW r \in Range(T[g.cid].resources[b])
        PROVE  ~Matches(g, r)
    <3>1. b \in 0 .. Top.bucket - 1 \/ b = Top.bucket
      BY <1>5, <2>2
    <3>2. CASE b = Top.bucket
      BY <1>3, <1>4, <2>2, <2>3, <3>2 DEF ChainOf, SameCall
    <3>3. CASE b \in 0 .. Top.bucket - 1
      BY <1>3, <1>6, <2>2, <2>3, <3>3 DEF LoopInv, SameCall
    <3> QED BY <3>1, <3>2, <3>3
  <2>5. LoopInv(g, T)
    BY <1>3, <1>6, <2>1, <2>2, <2>4 DEF LoopInv, SameCall
  <2>6. StackInv([stack EXCEPT ![1] = g], T)
    BY <1>2, <2>2, <2>5, LoopGoesOn
  <2> QED BY <1>1, <1>6, <2>6 DEF IInv
<1>7. CASE Top.op \notin all
  <2>1. Top.op = "FreeResource" => GoneFrom(T, Top.id)
    <3> SUFFICES ASSUME Top.op = "FreeResource", NEW r \in Resources, r.id = Top.id PROVE ~InTable(T, r)
      BY DEF GoneFrom
    <3>1. Top.cid = Owner[Top.id] /\ Top.bucket = Hash(Top.id, T[Top.cid].buckets)
      BY <1>3 DEF LoopInv
    <3>2. r \notin Range(Chain)
      BY <1>4 DEF Matches
    <3> QED BY <1>3, <3>1, <3>2 DEF InTable, ChainOf
  <2>2. \A r \in Resources : Frees1(stack[1], r) => ~InTable(T, r)
    BY <1>1, <1>2, <1>7, <2>1 DEF Frees1, GoneFrom, Scanning
  <2>3. StackInv(Tail(stack), T)
    BY <1>2, <2>1, <2>2, Returns
  <2> QED BY <1>1, <1>7, <2>3 DEF IInv
<1> QED BY <1>6, <1>7

(* The loop over all buckets has ended.                                    *)
LEMMA NoneOfClient ==
    ASSUME IInv, Scanning, Rest = <<>>, LastBucket, Top.op \in {"NeverRetain", "ClientResources"},
           NEW r \in Resources, Present(r), Owner[r.id] = Top.cid
    PROVE  ~Matches(Top, r)
<1> DEFINE t == clientTable[Top.cid]
           b == Hash(r.id, t.buckets)
<1>1. Top \in Frames
  BY TopIsFirst DEF Scanning
<1>2. LoopInv(Top, clientTable) /\ Chain = ChainOf(Top, clientTable)
  BY RestFacts
<1>3. t.buckets \in Sizes /\ t.buckets \in Nat /\ Top.bucket \in 0 .. t.buckets - 1
  BY <1>1, <1>2, ChainFacts DEF IInv
<1>4. b \in 0 .. t.buckets - 1 /\ r \in Range(t.resources[b])
  BY <1>3, ConstantFacts DEF Present, InTable
<1>5. b = Top.bucket \/ b \in 0 .. Top.bucket - 1
  BY <1>3, <1>4 DEF LastBucket, Buckets
<1>6. CASE b = Top.bucket
  BY <1>2, <1>4, <1>6, NoneInChain DEF ChainOf
<1>7. CASE b \in 0 .. Top.bucket - 1
  BY <1>2, <1>4, <1>7 DEF LoopInv
<1> QED BY <1>5, <1>6, <1>7

LEMMA EmptyStack ==
    ASSUME NEW T
    PROVE  StackInv(<<>>, T) <=>
             \A r \in Resources : InTable(T, r) => \A s \in Needs[r] : InTable(T, s)
<1>1. Shape(<<>>) /\ CallsInv(<<>>, T)
  BY DEF Shape, CallsInv
<1> QED BY <1>1 DEF StackInv, OrphansInv

LEMMA EndOfTableStep ==
    ASSUME IInv, EndOfTable
    PROVE  IInv'
<1> DEFINE T == clientTable
           c == Top.cid
<1>1. /\ Scanning /\ Running /\ Rest = <<>> /\ LastBucket
      /\ stack' = Tail(stack) /\ added' = added
  BY DEF EndOfTable, Scanning
<1>2. /\ Top = stack[1] /\ Top \in Frames /\ stack # <<>> /\ StackInv(stack, T)
      /\ Len(stack) \in Nat /\ Len(stack) > 0 /\ Shape(stack) /\ stack \in Seq(Frames)
  BY <1>1, TopIsFirst DEF Shape
<1>3. c \in Clients
  BY <1>2, FrameFields
<1>4. CASE /\ Top.op = "ClientResources" /\ T' = [T EXCEPT ![c] = EmptyTable(0)]
           /\ retained' = retained \ {c}
  <2>1. \A r \in Resources : InTable(T, r) => Owner[r.id] # c
    BY <1>1, <1>4, NoneOfClient DEF Matches, Present
  <2>2. T' = [d \in Clients |-> IF d = c THEN EmptyTable(0) ELSE T[d]]
    BY <1>3, <1>4 DEF IInv, TablesInv
  <2>3. EmptyTable(0).buckets = 0
    BY DEF EmptyTable
  <2>4. ASSUME NEW r \in Resources PROVE InTable(T', r) <=> InTable(T, r)
    <3>1. Owner[r.id] \in Clients
      BY ConstantFacts
    <3>2. CASE Owner[r.id] = c
      BY <2>1, <2>2, <2>3, <3>1, <3>2 DEF InTable
    <3>3. CASE Owner[r.id] # c
      BY <2>2, <3>1, <3>3 DEF InTable
    <3> QED BY <3>2, <3>3
  <2>5. TablesInv(T', added')
    <3>1. \A d \in Clients : TableOk(d, T'[d], added)
      BY <2>2, EmptyOk DEF IInv, TablesInv
    <3>2. Range(added) = {r \in Resources : InTable(T', r)}
      BY <2>4 DEF IInv, TablesInv
    <3> QED BY <1>1, <2>2, <3>1, <3>2 DEF IInv, TablesInv
  <2>6. Len(stack) = 1 /\ Tail(stack) = <<>>
    <3> DEFINE n == Len(stack)
    <3>1. n = 1
      <4>1. n \in Nat /\ n > 0
        BY <1>2
      <4>2. ASSUME n > 1 PROVE FALSE
        <5>1. CalledBy(stack[1], stack[1 + 1])
          BY <1>2, <4>2 DEF Shape
        <5> QED BY <1>2, <1>4, <5>1 DEF CalledBy
      <4> HIDE DEF n
      <4> QED BY <4>1, <4>2
    <3>2. Tail(stack) \in Seq(Frames) /\ Len(Tail(stack)) = 0
      BY <1>2, <3>1
    <3>3. Tail(stack) = <<>>
      BY <3>2, EmptySeq
    <3> QED BY <3>1, <3>3
  <2>7. StackInv(<<>>, T')
    <3> SUFFICES ASSUME NEW r \in Resources, InTable(T', r), NEW s \in Needs[r]
                 PROVE  InTable(T', s)
      BY EmptyStack
    <3>1. s \in Resources
      BY ResourceTableAssumption
    <3>2. InTable(T, s) \/ \E i \in 1 .. Len(stack) : Frees1(stack[i], r)
      BY <1>2, <2>4 DEF StackInv, OrphansInv
    <3>3. ~Frees1(stack[1], r)
      BY <1>2, <1>4, <2>1, <2>4 DEF Frees1
    <3> QED BY <2>4, <2>6, <3>1, <3>2, <3>3
  <2>8. RetainedInv(retained', T')
    BY <1>4, <2>4 DEF IInv, RetainedInv
  <2> QED BY <1>1, <2>5, <2>6, <2>7, <2>8 DEF IInv
<1>5. CASE Top.op = "NeverRetain" /\ retained' = retained \cup {c} /\ T' = T
  <2>1. \A r \in Resources : ~Frees1(stack[1], r)
    BY <1>2, <1>5 DEF Frees1
  <2>2. StackInv(Tail(stack), T)
    BY <1>2, <1>5, <2>1, Returns
  <2>3. \A r \in Resources : InTable(T, r) /\ Owner[r.id] = c => r.type \notin NeverRetained
    BY <1>1, <1>5, NoneOfClient DEF Matches, Present
  <2>4. RetainedInv(retained', T)
    BY <1>3, <1>5, <2>3 DEF IInv, RetainedInv
  <2> QED BY <1>1, <1>5, <2>2, <2>4 DEF IInv
<1> QED BY <1>4, <1>5 DEF EndOfTable

LEMMA DeleteReturnsStep ==
    ASSUME IInv, DeleteReturns
    PROVE  IInv'
<1>1. /\ Running /\ Top.op = "delete" /\ Top.calls = <<>> /\ stack' = Tail(stack)
      /\ clientTable' = clientTable /\ added' = added /\ retained' = retained
  BY DEF DeleteReturns
<1>2. /\ Top = stack[1] /\ stack # <<>> /\ StackInv(stack, clientTable)
  BY <1>1, TopIsFirst
<1>3. \A r : ~Frees1(stack[1], r)
  BY <1>1, <1>2 DEF Frees1, WillCall
<1>4. StackInv(Tail(stack), clientTable)
  BY <1>1, <1>2, <1>3, Returns
<1> QED BY <1>1, <1>4 DEF IInv

(* FreeResource for an id whose client has a table.                        *)
LEMMA CalledLoop ==
    ASSUME NEW T, NEW a, TablesInv(T, a), NEW id \in Ids, T[Owner[id]].buckets > 0,
           NEW op \in {"FreeResource", "FreeResourceByType"}, NEW type \in Types \cup {RT_NONE},
           op = "FreeResourceByType" => type = "driDrawable"
    PROVE  LET f == Frame(op, Owner[id], Hash(id, T[Owner[id]].buckets), id, type)
           IN f \in Frames /\ LoopInv(f, T) /\ f.op = op /\ f.id = id /\ f.type = type
<1> DEFINE c == Owner[id]
           n == T[c].buckets
           b == Hash(id, n)
           f == Frame(op, c, b, id, type)
<1>1. c \in Clients
  BY ResourceTableAssumption
<1>2. TableOk(c, T[c], a)
  BY <1>1 DEF TablesInv
<1>3. n \in Sizes
  BY <1>2 DEF TableOk
<1>4. b \in 0 .. n - 1 /\ n \in Nat
  BY <1>3, ResourceTableAssumption, ConstantFacts DEF Hash
<1>5. /\ f.op = op /\ f.cid = c /\ f.bucket = b /\ f.id = id /\ f.type = type
      /\ f.prev = None /\ f.res = None
  BY DEF Frame
<1>6. f \in Frames
  <2>1. b \in Nat /\ <<>> \in Seq(Calls) /\ op \in Loops \cup {"delete"}
    BY <1>4 DEF Loops
  <2> QED BY <1>1, <2>1 DEF Frame, Frames
<1> HIDE DEF f
<1>7. LoopInv(f, T)
  BY <1>4, <1>5 DEF LoopInv, Loops
<1> QED BY <1>5, <1>6, <1>7 DEF f

LEMMA DeleteCallsStep ==
    ASSUME IInv, DeleteCalls
    PROVE  IInv'
<1> DEFINE T == clientTable
           h == Head(Top.calls)
           g == [Top EXCEPT !.calls = Tail(@)]
           v == [stack EXCEPT ![1] = g]
           n == Len(stack)
<1>1. /\ Running /\ Top.op = "delete" /\ Top.calls # <<>> /\ stack' = Call(h) \o v
      /\ T' = T /\ added' = added /\ retained' = retained
  BY DEF DeleteCalls
<1>2. /\ Top = stack[1] /\ Top \in Frames /\ stack # <<>> /\ StackInv(stack, T)
      /\ Shape(stack) /\ DeleteInv(Top, T) /\ Top.calls \in Seq(Calls)
      /\ n \in Nat /\ n > 0
  BY <1>1, TopIsFirst, OneKind, FrameFields
<1>3. /\ h = Top.calls[1] /\ h \in Calls /\ h \in Range(Dependents[Top.res])
      /\ Len(Top.calls) \in Nat /\ Len(Top.calls) > 0
  BY <1>1, <1>2 DEF DeleteInv
<1>4. h.op = "FreeResource" /\ h.id \in Ids /\ h.type \in Types \cup {RT_NONE}
  BY <1>3 DEF Calls
<1>5. g.calls = Tail(Top.calls) /\ g \in Frames /\ SameCall(g, Top) /\ g.res \in Resources
      /\ g.op = "delete" /\ g.res = Top.res
  <2>1. Tail(Top.calls) \in Seq(Calls)
    BY <1>1, <1>2
  <2> QED BY <1>1, <1>2, <2>1 DEF Frames, SameCall, DeleteInv
<1>6. /\ \A j \in DOMAIN g.calls : g.calls[j] = Top.calls[j + 1] /\ j + 1 \in DOMAIN Top.calls
      /\ \A j \in DOMAIN Top.calls : j # 1 => /\ j - 1 \in DOMAIN g.calls
                                             /\ g.calls[j - 1] = Top.calls[j]
  <2>1. DOMAIN g.calls = 1 .. Len(Top.calls) - 1 /\ DOMAIN Top.calls = 1 .. Len(Top.calls)
    BY <1>1, <1>2, <1>5
  <2>2. \A j \in 1 .. Len(Top.calls) - 1 : Tail(Top.calls)[j] = Top.calls[j + 1]
    BY <1>1, <1>2
  <2>3. \A j \in 1 .. Len(Top.calls) : j # 1 => j - 1 \in 1 .. Len(Top.calls) - 1 /\ (j - 1) + 1 = j
    BY <1>3
  <2> QED BY <1>3, <1>5, <2>1, <2>2, <2>3
<1> HIDE DEF g
<1>7. DeleteInv(g, T)
  BY <1>2, <1>5, <1>6 DEF DeleteInv
<1>8. \A id : WillCall(Top, id) => WillCall(g, id) \/ id = h.id
  BY <1>3, <1>6 DEF WillCall
<1>9. /\ Shape(v) /\ v \in Seq(Frames) /\ Len(v) = n /\ v[1] = g
      /\ \A i \in 1 .. n : i # 1 => v[i] = stack[i]
      /\ \A i \in 1 .. n : SameCall(v[i], stack[i])
  BY <1>2, <1>5, TopFacts
<1> HIDE DEF v
<1>10. v # <<>> /\ \A i \in 1 .. n : FrameInv(v[i], T)
  BY <1>2, <1>7, <1>9 DEF StackInv, FrameInv
<1>11. ASSUME NEW i \in 1 .. n, v[i].op = "delete", NEW m \in DOMAIN Dependents[v[i].res]
       PROVE  LET id == Dependents[v[i].res][m].id
              IN Handled(v, i, T, id) \/ (i = 1 /\ id = h.id)
  <2> DEFINE id == Dependents[v[i].res][m].id
  <2>1. v[i].res = stack[i].res /\ stack[i].op = "delete"
    BY <1>9, <1>11 DEF SameCall
  <2>2. Handled(stack, i, T, id)
    BY <1>2, <2>1 DEF StackInv, CallsInv
  <2>3. CASE i = 1
    <3>1. WillCall(Top, id) \/ GoneFrom(T, id)
      BY <1>2, <2>2, <2>3 DEF Handled
    <3>2. v[i] = g
      BY <1>9, <2>3
    <3>3. WillCall(g, id) \/ id = h.id \/ GoneFrom(T, id)
      BY <1>8, <3>1
    <3> QED BY <2>3, <3>2, <3>3 DEF Handled
  <2>4. CASE i # 1
    <3>1. i - 1 \in 1 .. n /\ v[i] = stack[i]
      BY <1>2, <1>9, <2>4
    <3>2. v[i - 1].id = stack[i - 1].id
      BY <1>9, <3>1 DEF SameCall
    <3> QED BY <2>2, <3>1, <3>2 DEF Handled
  <2> QED BY <2>3, <2>4
<1>12. ASSUME NEW r \in Resources, InTable(T, r), NEW s \in Needs[r], ~InTable(T, s)
       PROVE  r.id = h.id \/ \E i \in 1 .. n : Frees1(v[i], r)
  <2>1. PICK i \in 1 .. n : Frees1(stack[i], r)
    BY <1>2, <1>12 DEF StackInv, OrphansInv
  <2>2. CASE i = 1
    BY <1>1, <1>2, <1>5, <1>8, <1>9, <2>1, <2>2 DEF Frees1
  <2>3. CASE i # 1
    BY <1>9, <2>1, <2>3
  <2> QED BY <2>2, <2>3
<1>13. CASE Buckets(Owner[h.id]) = 0
  <2>1. stack' = v
    BY <1>1, <1>9, <1>13 DEF Call
  <2>2. GoneFrom(T, h.id)
    BY <1>13 DEF GoneFrom, InTable, Buckets
  <2>3. CallsInv(v, T)
    BY <1>9, <1>11, <2>2 DEF CallsInv, Handled
  <2>4. OrphansInv(v, T)
    BY <1>9, <1>12, <2>2 DEF OrphansInv, GoneFrom
  <2>5. StackInv(v, T)
    BY <1>9, <1>10, <2>3, <2>4 DEF StackInv
  <2> QED BY <1>1, <2>1, <2>5 DEF IInv
<1>14. CASE Buckets(Owner[h.id]) # 0
  <2> DEFINE f == Frame(h.op, Owner[h.id], Hash(h.id, Buckets(Owner[h.id])), h.id, h.type)
             w == <<f>> \o v
  <2>1. stack' = w
    BY <1>1, <1>14 DEF Call
  <2>2. T[Owner[h.id]].buckets > 0
    <3>1. Owner[h.id] \in Clients
      BY <1>4, ResourceTableAssumption
    <3>2. T[Owner[h.id]].buckets \in Nat
      BY <3>1, SelfType DEF IInv, TablesInv
    <3> QED BY <1>14, <3>2 DEF Buckets
  <2>3. f \in Frames /\ LoopInv(f, T) /\ f.op = "FreeResource" /\ f.id = h.id /\ f.type = h.type
    BY <1>4, <2>2, CalledLoop DEF IInv, Buckets
  <2> HIDE DEF f
  <2>4. CalledBy(f, v[1])
    BY <1>3, <1>5, <1>9, <2>3 DEF CalledBy, Range
  <2>5. /\ Shape(w) /\ Len(w) = n + 1 /\ w[1] = f
        /\ \A i \in 1 .. n : w[i + 1] = v[i] /\ i + 1 \in 1 .. Len(w)
        /\ \A i \in 2 .. Len(w) : i - 1 \in 1 .. n /\ w[i] = v[i - 1]
    <3>1. v[1].res # None
      BY <1>5, <1>9, ConstantFacts
    <3> QED BY <1>9, <1>10, <2>3, <2>4, <3>1, PushFacts
  <2> HIDE DEF w
  <2>6. \A i \in 1 .. n + 1 : FrameInv(w[i], T)
    <3>1. FrameInv(w[1], T)
      BY <2>3, <2>5 DEF FrameInv
    <3>2. ASSUME NEW i \in 2 .. n + 1 PROVE FrameInv(w[i], T)
      BY <1>10, <2>5
    <3> QED BY <1>2, <3>1, <3>2
  <2>7. CallsInv(w, T)
    <3> SUFFICES ASSUME NEW k \in 1 .. n + 1, w[k].op = "delete", NEW m \in DOMAIN Dependents[w[k].res]
                 PROVE  Handled(w, k, T, Dependents[w[k].res][m].id)
      BY <2>5 DEF CallsInv
    <3> DEFINE id == Dependents[w[k].res][m].id
               i == k - 1
    <3>1. k \in 2 .. n + 1 /\ i \in 1 .. n /\ w[k] = v[i]
      <4>1. k # 1
        BY <2>3, <2>5
      <4> QED BY <1>2, <2>5, <4>1
    <3>2. Handled(v, i, T, id) \/ (i = 1 /\ id = h.id)
      BY <1>11, <3>1
    <3>3. CASE i = 1
      BY <2>3, <2>5, <3>1, <3>2, <3>3 DEF Handled
    <3>4. CASE i # 1
      <4>1. i \in 2 .. n + 1 /\ w[i] = v[i - 1] /\ k > 1 /\ i > 1
        BY <1>2, <2>5, <3>1, <3>4
      <4> QED BY <3>1, <3>2, <3>4, <4>1 DEF Handled
    <3> QED BY <3>3, <3>4
  <2>8. OrphansInv(w, T)
    <3> SUFFICES ASSUME NEW r \in Resources, InTable(T, r), NEW s \in Needs[r], ~InTable(T, s)
                 PROVE  \E k \in 1 .. n + 1 : Frees1(w[k], r)
      BY <2>5 DEF OrphansInv
    <3>1. CASE r.id = h.id
      <4>1. Frees1(w[1], r) /\ 1 \in 1 .. n + 1
        BY <1>2, <2>3, <2>5, <3>1 DEF Frees1
      <4> QED BY <4>1
    <3>2. CASE \E i \in 1 .. n : Frees1(v[i], r)
      BY <2>5, <3>2
    <3> QED BY <1>12, <3>1, <3>2
  <2>9. StackInv(w, T)
    BY <2>5, <2>6, <2>7, <2>8 DEF StackInv
  <2> QED BY <1>1, <2>1, <2>9 DEF IInv
<1> QED BY <1>13, <1>14

---------------------------------------------------------------------------
(* A resource is unlinked: the table U has no more than T had.             *)

Shrunk(T, U, c) ==
    /\ \A q \in Resources : InTable(U, q) => InTable(T, q)
    /\ \A d \in Clients : /\ U[d].buckets = T[d].buckets
                          /\ U[d].elements <= T[d].elements
                          /\ d # c => U[d] = T[d]
                          /\ \A k \in 0 .. T[d].buckets - 1 :
                               Range(U[d].resources[k]) \subseteq Range(T[d].resources[k])

LEMMA LoopStays ==
    ASSUME NEW T, NEW a, TablesInv(T, a), NEW U, NEW c, Shrunk(T, U, c),
           \A d \in Clients : U[d].elements \in Int,
           NEW f \in Frames, LoopInv(f, T), f.res # None, f.op # "NeverRetain",
           f.op = "FreeResource" /\ f.cid = c => U[c].elements < T[c].elements
    PROVE  LoopInv(f, U)
<1>1. /\ f.cid \in Clients /\ f.bucket \in 0 .. T[f.cid].buckets - 1 /\ f.elements \in Int
      /\ T[f.cid].buckets \in Nat /\ T[f.cid].elements \in Int
  BY ChainFacts, FrameFields
<1>2. U[f.cid].buckets = T[f.cid].buckets /\ U[f.cid].elements <= T[f.cid].elements
      /\ U[f.cid].elements \in Int
  BY <1>1 DEF Shrunk
<1>3. \A k \in 0 .. T[f.cid].buckets - 1 :
        Range(U[f.cid].resources[k]) \subseteq Range(T[f.cid].resources[k])
  BY <1>1 DEF Shrunk
<1>4. ASSUME f.prev # None, ~Stale(f, U) PROVE Passed(f, U)
  <2>1. f.op = "FreeResource"
    BY <1>4 DEF LoopInv, Stale, Loops
  <2>2. ~(U[f.cid].elements < f.elements) /\ T[f.cid].elements <= f.elements
    BY <1>4, <2>1 DEF Stale, LoopInv
  <2>3. f.cid # c
    BY <1>1, <1>2, <2>1, <2>2
  <2>4. U[f.cid] = T[f.cid]
    BY <1>1, <2>3 DEF Shrunk
  <2>5. Passed(f, T)
    BY <1>4, <2>4 DEF Stale, LoopInv
  <2> QED BY <2>4, <2>5 DEF Passed, ChainOf
<1>5. ASSUME f.op \in {"NeverRetain", "ClientResources"}
      PROVE  \A b \in 0 .. f.bucket - 1 : \A r \in Range(U[f.cid].resources[b]) : ~Matches(f, r)
  <2> SUFFICES ASSUME NEW b \in 0 .. f.bucket - 1, NEW r \in Range(U[f.cid].resources[b])
               PROVE  ~Matches(f, r)
    OBVIOUS
  <2>1. b \in 0 .. T[f.cid].buckets - 1
    BY <1>1
  <2>2. r \in Range(T[f.cid].resources[b])
    BY <1>3, <2>1
  <2> QED BY <1>5, <2>2 DEF LoopInv
<1>6. f.op = "FreeResource" => U[f.cid].elements <= f.elements
  BY <1>1, <1>2 DEF LoopInv
<1> QED BY <1>2, <1>4, <1>5, <1>6 DEF LoopInv

(* A delete function of what is never retained calls nothing: the loop of  *)
(* NeverRetain is the innermost, or what it deletes is.                    *)
LEMMA NeverRetainIsTop ==
    ASSUME NEW st, NEW T, StackInv(st, T), NEW i \in 2 .. Len(st), st[1].op # "delete"
    PROVE  st[i].op # "NeverRetain" /\ st[1].op = "FreeResource"
<1> DEFINE n == Len(st)
<1>1. /\ Shape(st) /\ st \in Seq(Frames) /\ n \in Nat /\ n >= 2
  BY DEF StackInv, Shape
<1>2. st[1].op = "FreeResource"
  <2>1. CalledBy(st[1], st[1 + 1])
    BY <1>1 DEF Shape
  <2> QED BY <2>1 DEF CalledBy
<1>3. ASSUME st[i].op = "NeverRetain" PROVE FALSE
  <2>1. i - 1 \in 1 .. n - 1 /\ (i - 1) + 1 = i /\ i \in 1 .. n
    BY <1>1
  <2>2. CalledBy(st[i - 1], st[i])
    BY <1>1, <2>1 DEF Shape
  <2>3. st[i - 1].op = "delete" /\ st[i - 1].res = st[i].res
    BY <1>3, <2>2 DEF CalledBy
  <2>4. LoopInv(st[i], T) /\ st[i].res # None /\ st[i] \in Frames
    BY <1>1, <1>3, <2>1, OneKind DEF StackInv, Shape
  <2>5. st[i].res.type \in NeverRetained /\ st[i].res \in Resources
    BY <1>3, <2>4, FrameFields DEF LoopInv
  <2>6. Dependents[st[i - 1].res] = <<>>
    BY <2>3, <2>5, DependentsAssumption
  <2>7. i - 1 # 1
    BY <2>3
  <2>8. i - 2 \in 1 .. n - 1 /\ (i - 2) + 1 = i - 1
    BY <1>1, <2>1, <2>7
  <2>9. CalledBy(st[i - 2], st[i - 1])
    BY <1>1, <2>8 DEF Shape
  <2> QED BY <2>3, <2>6, <2>9 DEF CalledBy, Loops
<1> QED BY <1>2, <1>3

LEMMA UnlinkStep ==
    ASSUME IInv, Unlink
    PROVE  IInv'
<1> DEFINE T == clientTable
           r == Head(Rest)
           c == Top.cid
           t == Unlinked(T[c], r)
           U == [T EXCEPT ![c] = t]
           g == [Top EXCEPT !.res = r, !.elements = t.elements]
           v == [stack EXCEPT ![1] = g]
           n == Len(stack)
<1>1. /\ Scanning /\ Running /\ Rest # <<>> /\ Matches(Top, r) /\ Top.op # "delete" /\ Top.res = None
      /\ T' = U /\ added' = Without(added, r) /\ stack' = DeleteFunc(r) \o v /\ retained' = retained
  BY DEF Unlink, Scanning
<1>2. /\ Top = stack[1] /\ Top \in Frames /\ stack # <<>> /\ StackInv(stack, T)
      /\ Shape(stack) /\ n \in Nat /\ n > 0
  BY <1>1, TopIsFirst
<1>3. /\ LoopInv(Top, T) /\ Top.op \in Loops /\ Chain = ChainOf(Top, T)
      /\ Chain \in Seq(Resources) /\ IsInjective(Chain)
  BY <1>1, RestFacts
<1>4. PICK p : LooksAt(p)
  BY <1>1, RestFacts
<1>5. /\ p \in DOMAIN Chain /\ p \in 1 .. Len(Chain) /\ Len(Chain) \in Nat /\ r = Chain[p]
      /\ \A j \in 1 .. p - 1 : ~Matches(Top, Chain[j])
      /\ Top.prev # None => p > 1 /\ Top.prev = Chain[p - 1]
  BY <1>1, <1>3, <1>4 DEF LooksAt
<1>6. c \in Clients /\ Top.bucket \in 0 .. T[c].buckets - 1 /\ T[c].elements \in Int
      /\ T[c].buckets \in Nat
  BY <1>2, <1>3, ChainFacts DEF IInv
<1>7. /\ t.elements = T[c].elements - (IF Top.op = "FreeResource" THEN 1 ELSE 0)
      /\ t.elements \in Int
      /\ U = [T EXCEPT ![c] =
                [resources |-> [T[c].resources EXCEPT ![Top.bucket] = Without(@, r)],
                 elements |-> t.elements, buckets |-> T[c].buckets]]
  BY <1>6 DEF Unlinked
<1>8. /\ TablesInv(U, Without(added, r)) /\ U[c].elements = t.elements
      /\ r \in Resources /\ Owner[r.id] = c /\ InTable(T, r)
      /\ \A q \in Resources : InTable(U, q) <=> InTable(T, q) /\ q # r
      /\ \A d \in Clients : U[d].buckets = T[d].buckets /\ (d # c => U[d] = T[d])
      /\ \A d \in Clients : \A k \in 0 .. T[d].buckets - 1 :
           Range(U[d].resources[k]) \subseteq Range(T[d].resources[k])
      /\ U[c].resources[Top.bucket] = Without(Chain, r)
  <2> DEFINE e == t.elements
  <2>1. Chain = T[c].resources[Top.bucket] /\ TablesInv(T, added) /\ e \in Int
    BY <1>7 DEF Chain, IInv
  <2> HIDE DEF e
  <2>2. p \in DOMAIN T[c].resources[Top.bucket] /\ r = T[c].resources[Top.bucket][p]
    BY <1>5, <2>1
  <2> HIDE DEF r
  <2>3. U = [T EXCEPT ![c] =
                [resources |-> [T[c].resources EXCEPT ![Top.bucket] = Without(@, r)],
                 elements |-> e, buckets |-> T[c].buckets]]
    BY <1>7 DEF e
  <2> HIDE DEF U, t
  <2>4. e = t.elements
    BY DEF e
  <2>5. LET x == T[c].resources[Top.bucket][p]
            V == [T EXCEPT ![c] =
                    [resources |-> [T[c].resources EXCEPT ![Top.bucket] = Without(@, x)],
                     elements |-> e, buckets |-> T[c].buckets]]
        IN TakenOut(T, added, c, Top.bucket, x, V) /\ V[c].elements = e
    BY <1>6, <2>1, <2>2, UnlinkFacts
  <2>6. TakenOut(T, added, c, Top.bucket, r, U) /\ U[c].elements = e
    BY <2>2, <2>3, <2>5
  <2> QED BY <2>1, <2>4, <2>6 DEF TakenOut
<1> HIDE DEF U
<1>9. \A d \in Clients : U[d].elements \in Int /\ U[d].elements <= T[d].elements
  <2>1. ASSUME NEW d \in Clients PROVE T[d].elements \in Int
    BY SelfType DEF IInv, TablesInv
  <2> QED BY <1>6, <1>7, <1>8, <2>1
<1>10. Shrunk(T, U, c)
  BY <1>8, <1>9 DEF Shrunk
<1>11. /\ g \in Frames /\ SameCall(g, Top) /\ g.res = r /\ g.prev = Top.prev
       /\ g.bucket = Top.bucket /\ g.elements = U[c].elements
  <2>1. g \in Frames
    BY <1>2, <1>7, <1>8 DEF Frames
  <2>2. /\ g.op = Top.op /\ g.id = Top.id /\ g.type = Top.type /\ g.cid = Top.cid /\ g.res = r
        /\ g.prev = Top.prev /\ g.bucket = Top.bucket /\ g.elements = t.elements
    BY <1>2 DEF Frames
  <2> QED BY <1>1, <1>8, <2>1, <2>2 DEF SameCall
<1> HIDE DEF g, t
<1>12. /\ Shape(v) /\ v \in Seq(Frames) /\ Len(v) = n /\ v[1] = g
       /\ \A i \in 1 .. n : i # 1 => v[i] = stack[i]
       /\ \A i \in 1 .. n : SameCall(v[i], stack[i])
  BY <1>2, <1>11, TopFacts
<1> HIDE DEF v
<1>13. LoopInv(g, U)
  <2>1. \A x : Matches(g, x) <=> Matches(Top, x)
    BY <1>11 DEF Matches, SameCall
  <2>2. ASSUME g.prev # None PROVE Passed(g, U)
    <3> DEFINE s == Without(Chain, Chain[p])
    <3>1. Len(s) = Len(Chain) - 1 /\ \A i \in 1 .. Len(s) : i < p => s[i] = Chain[i]
      BY <1>3, <1>5, WithoutFacts
    <3>2. s \in Seq(Resources)
      BY <1>3, <1>5, WithoutFacts
    <3>3. ChainOf(g, U) = s
      BY <1>5, <1>8, <1>11 DEF ChainOf, SameCall
    <3> HIDE DEF s
    <3>4. p > 1 /\ Top.prev = Chain[p - 1] /\ p - 1 \in 1 .. Len(s) /\ DOMAIN s = 1 .. Len(s)
      BY <1>5, <1>11, <2>2, <3>1, <3>2
    <3>5. \A j \in 1 .. p - 1 : s[j] = Chain[j]
      BY <1>5, <3>1, <3>4
    <3> QED BY <1>5, <1>11, <2>1, <3>3, <3>4, <3>5 DEF Passed
  <2>3. g.op = "NeverRetain" => g.res.type \in NeverRetained
    BY <1>1, <1>11 DEF Matches, SameCall
  <2>4. ASSUME g.op \in {"NeverRetain", "ClientResources"},
               NEW b \in 0 .. g.bucket - 1, NEW x \in Range(U[g.cid].resources[b])
        PROVE  ~Matches(g, x)
    <3>1. b \in 0 .. T[c].buckets - 1 /\ g.cid = c /\ b \in 0 .. Top.bucket - 1
      BY <1>6, <1>11 DEF SameCall
    <3>2. x \in Range(T[c].resources[b])
      BY <1>6, <1>8, <3>1
    <3> QED BY <1>3, <1>11, <2>1, <2>4, <3>1, <3>2 DEF LoopInv, SameCall
  <2>5. g.cid = c /\ U[c].buckets = T[c].buckets /\ U[c].elements <= g.elements
    BY <1>6, <1>8, <1>9, <1>11 DEF SameCall
  <2> QED BY <1>3, <1>11, <2>2, <2>3, <2>4, <2>5 DEF LoopInv, SameCall
<1>14. ASSUME NEW i \in 1 .. n PROVE FrameInv(v[i], U)
  <2>1. CASE i = 1
    BY <1>12, <1>13, <2>1 DEF FrameInv
  <2>2. CASE i # 1
    <3>1. i \in 2 .. n /\ v[i] = stack[i] /\ FrameInv(stack[i], T) /\ stack[i] \in Frames
      BY <1>2, <1>12, <2>2 DEF StackInv, Shape
    <3>2. stack[i].op # "NeverRetain" /\ Top.op = "FreeResource"
      BY <1>1, <1>2, <3>1, NeverRetainIsTop
    <3>3. U[c].elements < T[c].elements
      BY <1>6, <1>7, <1>8, <3>2
    <3>4. CASE stack[i].op = "delete"
      <4>1. DeleteInv(stack[i], T)
        BY <3>1, <3>4, OneKind
      <4> QED BY <1>8, <3>1, <4>1 DEF DeleteInv, FrameInv
    <3>5. CASE stack[i].op # "delete"
      <4>1. LoopInv(stack[i], T) /\ stack[i].res # None
        BY <1>2, <3>1, <3>5, OneKind DEF Shape
      <4>2. LoopInv(stack[i], U)
        BY <1>9, <1>10, <3>1, <3>2, <3>3, <4>1, LoopStays DEF IInv
      <4> QED BY <3>1, <4>2 DEF FrameInv
    <3> QED BY <3>4, <3>5
  <2> QED BY <2>1, <2>2
<1>15. ASSUME NEW i \in 1 .. n, v[i].op = "delete", NEW m \in DOMAIN Dependents[v[i].res]
       PROVE  i # 1 /\ Handled(v, i, U, Dependents[v[i].res][m].id)
  <2> DEFINE id == Dependents[v[i].res][m].id
  <2>1. i # 1 /\ v[i] = stack[i]
    BY <1>1, <1>11, <1>12, <1>15 DEF SameCall
  <2>2. Handled(stack, i, T, id)
    BY <1>2, <1>15, <2>1 DEF StackInv, CallsInv
  <2>3. i - 1 \in 1 .. n
    BY <1>2, <2>1
  <2>4. v[i - 1].id = stack[i - 1].id
    BY <1>12, <2>3 DEF SameCall
  <2>5. GoneFrom(T, id) => GoneFrom(U, id)
    BY <1>8 DEF GoneFrom
  <2> QED BY <2>1, <2>2, <2>4, <2>5 DEF Handled
<1>16. ASSUME NEW q \in Resources, InTable(U, q), NEW s \in Needs[q], ~InTable(U, s), s # r
       PROVE  \E i \in 1 .. n : Frees1(v[i], q)
  <2>1. s \in Resources
    BY ResourceTableAssumption
  <2>2. InTable(T, q) /\ ~InTable(T, s)
    BY <1>8, <1>16, <2>1
  <2>3. PICK i \in 1 .. n : Frees1(stack[i], q)
    BY <1>2, <2>2 DEF StackInv, OrphansInv
  <2>4. i # 1 => v[i] = stack[i]
    BY <1>12
  <2>5. i = 1 => Frees1(v[i], q)
    BY <1>1, <1>2, <1>11, <1>12, <2>3 DEF Frees1, SameCall
  <2> QED BY <2>3, <2>4, <2>5
<1>17. ASSUME NEW q \in Resources, r \in Needs[q], q.id = r.id
       PROVE  Frees1(v[1], q)
  <2>1. r.type \notin NeverRetained \cup {"driDrawable"}
    BY <1>8, <1>17, NeedsAssumption
  <2>2. CASE Top.op = "FreeResource"
    BY <1>1, <1>11, <1>12, <1>17, <2>2 DEF Frees1, Matches, SameCall
  <2>3. CASE Top.op = "FreeResourceByType"
    BY <1>1, <1>3, <2>1, <2>3 DEF Matches, LoopInv
  <2>4. CASE Top.op = "NeverRetain"
    BY <1>1, <2>1, <2>4 DEF Matches
  <2>5. CASE Top.op = "ClientResources"
    BY <1>8, <1>11, <1>12, <1>17, <2>5 DEF Frees1, SameCall
  <2> QED BY <1>3, <2>2, <2>3, <2>4, <2>5 DEF Loops
<1>18. RetainedInv(retained', U)
  BY <1>1, <1>8 DEF IInv, RetainedInv
<1>19. CASE Skipped(r)
  <2>1. stack' = v
    BY <1>1, <1>12, <1>19 DEF DeleteFunc
  <2>2. CallsInv(v, U)
    BY <1>12, <1>15 DEF CallsInv
  <2>3. ASSUME NEW q \in Resources, InTable(U, q), r \in Needs[q], q.id # r.id
        PROVE  \E i \in 1 .. n : Frees1(v[i], q)
    <3>1. Top.op = "FreeResource" /\ r.type = Top.type /\ r.id = Top.id
      BY <1>1, <1>19 DEF Skipped, Matches
    <3>2. n # 1
      <4>1. SUFFICES ASSUME n = 1 PROVE FALSE
        OBVIOUS
      <4>2. OutermostOk(stack[1])
        BY <1>2, <4>1 DEF Shape
      <4>3. Top.type = RT_NONE /\ RT_NONE \notin Types /\ r.type \in Types
        BY <1>2, <1>8, <3>1, <4>2, ConstantFacts, ResourceTableAssumption DEF OutermostOk
      <4> QED BY <3>1, <4>3
    <3>3. 1 \in 1 .. n - 1 /\ 2 \in 1 .. n /\ 1 + 1 = 2
      <4>1. n \in Nat /\ n > 0
        BY <1>2
      <4> HIDE DEF n
      <4> QED BY <3>2, <4>1
    <3>4. CalledBy(stack[1], stack[2])
      BY <1>2, <3>3 DEF Shape
    <3> DEFINE w == stack[2].res
    <3>5. PICK m \in DOMAIN Dependents[w] : Dependents[w][m].id = r.id /\ Dependents[w][m].type = r.type
      BY <1>2, <3>1, <3>4 DEF CalledBy
    <3>6. stack[2].op = "delete" /\ FrameInv(stack[2], T)
      BY <1>2, <3>1, <3>3, <3>4 DEF CalledBy, StackInv
    <3>7. w \in Resources
      BY <3>6, OneKind DEF DeleteInv
    <3> HIDE DEF w
    <3>8. Frees(w, q)
      BY <1>8, <2>3, <3>5, <3>7, NeedsAssumption
    <3>9. PICK k \in DOMAIN Dependents[w] : Dependents[w][k].id = q.id
      BY <3>8 DEF Frees
    <3>10. Handled(stack, 2, T, q.id)
      BY <1>2, <3>3, <3>6, <3>9 DEF StackInv, CallsInv, w
    <3>11. ~GoneFrom(T, q.id)
      BY <1>8, <2>3 DEF GoneFrom
    <3>12. 2 - 1 = 1
      OBVIOUS
    <3>13. stack[1].id # q.id
      BY <1>2, <2>3, <3>1
    <3>14. WillCall(stack[2], q.id)
      BY <3>10, <3>11, <3>12, <3>13 DEF Handled
    <3>15. Frees1(v[2], q)
      BY <1>12, <3>3, <3>6, <3>14 DEF Frees1
    <3> QED BY <3>3, <3>15
  <2>4. OrphansInv(v, U)
    <3> SUFFICES ASSUME NEW q \in Resources, InTable(U, q), NEW s \in Needs[q], ~InTable(U, s)
                 PROVE  \E i \in 1 .. n : Frees1(v[i], q)
      BY <1>12 DEF OrphansInv
    <3>1. CASE s # r
      BY <1>16, <3>1
    <3>2. CASE s = r /\ q.id = r.id
      BY <1>2, <1>17, <3>2
    <3>3. CASE s = r /\ q.id # r.id
      BY <2>3, <3>3
    <3> QED BY <3>1, <3>2, <3>3
  <2>5. StackInv(v, U)
    BY <1>12, <1>14, <2>2, <2>4 DEF StackInv
  <2> QED BY <1>1, <1>8, <1>18, <2>1, <2>5 DEF IInv
<1>20. CASE ~Skipped(r)
  <2> DEFINE h == Frame("delete", c, Top.bucket, r.id, r.type)
             f == [h EXCEPT !.res = r, !.calls = Dependents[r]]
             w == <<f>> \o v
  <2>1. stack' = w
    BY <1>1, <1>20 DEF DeleteFunc
  <2>2. /\ f \in Frames /\ f.op = "delete" /\ f.res = r /\ f.calls = Dependents[r]
    <3>1. Dependents[r] \in Seq(Calls)
      BY <1>8, DependentsAssumption DEF Calls
    <3>2. r.id \in Ids /\ r.type \in Types
      BY <1>8, ConstantFacts
    <3>3. h \in Frames /\ h.op = "delete"
      <4>1. Top.bucket \in Nat /\ <<>> \in Seq(Calls)
        BY <1>6
      <4> HIDE DEF r
      <4> QED BY <1>6, <3>2, <4>1 DEF Frame, Frames
    <3> HIDE DEF h, r
    <3>4. f \in Frames
      BY <1>8, <3>1, <3>3 DEF Frames
    <3>5. f.op = "delete" /\ f.res = r /\ f.calls = Dependents[r]
      BY <3>3 DEF Frames
    <3> QED BY <3>4, <3>5
  <2> HIDE DEF f
  <2>3. DeleteInv(f, U)
    BY <1>8, <2>2 DEF DeleteInv, Range
  <2>4. CalledBy(f, v[1]) /\ v[1].res # None
    BY <1>3, <1>8, <1>11, <1>12, <2>2, ConstantFacts DEF CalledBy, SameCall
  <2>5. ASSUME NEW i \in 1 .. n, v[i].op = "delete" PROVE v[i].res # r
    <3>1. i # 1 /\ v[i] = stack[i]
      BY <1>1, <1>11, <1>12, <2>5 DEF SameCall
    <3>2. DeleteInv(stack[i], T)
      BY <1>2, <2>5, <3>1, OneKind DEF StackInv
    <3> QED BY <1>8, <3>1, <3>2 DEF DeleteInv
  <2>6. /\ Shape(w) /\ Len(w) = n + 1 /\ w[1] = f
        /\ \A i \in 1 .. n : w[i + 1] = v[i] /\ i + 1 \in 1 .. Len(w)
        /\ \A i \in 2 .. Len(w) : i - 1 \in 1 .. n /\ w[i] = v[i - 1]
    <3>1. v # <<>>
      BY <1>2, <1>12
    <3> QED BY <1>12, <2>2, <2>4, <2>5, <3>1, PushFacts
  <2> HIDE DEF w
  <2>7. \A i \in 1 .. n + 1 : FrameInv(w[i], U)
    <3>1. FrameInv(w[1], U)
      BY <2>3, <2>6 DEF FrameInv
    <3>2. ASSUME NEW i \in 2 .. n + 1 PROVE FrameInv(w[i], U)
      BY <1>14, <2>6
    <3> QED BY <1>2, <3>1, <3>2
  <2>8. CallsInv(w, U)
    <3> SUFFICES ASSUME NEW k \in 1 .. n + 1, w[k].op = "delete", NEW m \in DOMAIN Dependents[w[k].res]
                 PROVE  Handled(w, k, U, Dependents[w[k].res][m].id)
      BY <2>6 DEF CallsInv
    <3> DEFINE id == Dependents[w[k].res][m].id
               i == k - 1
    <3>1. CASE k = 1
      BY <2>2, <2>6, <3>1 DEF Handled, WillCall
    <3>2. CASE k # 1
      <4>1. k \in 2 .. n + 1 /\ i \in 1 .. n /\ w[k] = v[i]
        BY <1>2, <2>6, <3>2
      <4>2. i # 1 /\ Handled(v, i, U, id)
        BY <1>15, <4>1
      <4>3. i \in 2 .. n + 1 /\ k > 1
        <5>1. n \in Nat
          BY <1>2
        <5> HIDE DEF n, id
        <5> QED BY <4>1, <4>2, <5>1
      <4>4. w[i] = v[i - 1]
        BY <2>6, <4>3
      <4> QED BY <4>1, <4>2, <4>3, <4>4 DEF Handled
    <3> QED BY <3>1, <3>2
  <2>9. OrphansInv(w, U)
    <3> SUFFICES ASSUME NEW q \in Resources, InTable(U, q), NEW s \in Needs[q], ~InTable(U, s)
                 PROVE  \E k \in 1 .. n + 1 : Frees1(w[k], q)
      BY <2>6 DEF OrphansInv
    <3>1. CASE s = r /\ q.id # r.id
      <4>1. Frees(r, q)
        BY <1>8, <3>1, NeedsAssumption
      <4>2. Frees1(w[1], q)
        BY <2>2, <2>6, <4>1 DEF Frees, Frees1, WillCall
      <4> QED BY <1>2, <4>2
    <3>2. CASE s # r \/ q.id = r.id
      <4>1. PICK i \in 1 .. n : Frees1(v[i], q)
        BY <1>2, <1>16, <1>17, <3>2
      <4> QED BY <2>6, <4>1
    <3> QED BY <3>1, <3>2
  <2>10. StackInv(w, U)
    BY <2>6, <2>7, <2>8, <2>9 DEF StackInv
  <2> QED BY <1>1, <1>8, <1>18, <2>1, <2>10 DEF IInv
<1> QED BY <1>19, <1>20

---------------------------------------------------------------------------
(* The requests.                                                           *)

LEMMA NotRunning ==
    ASSUME IInv, ~Running
    PROVE  /\ stack = <<>>
           /\ \A r \in Resources : Present(r) => \A s \in Needs[r] : Present(s)
<1>1. stack = <<>>
  BY DEF Running
<1> QED BY <1>1, EmptyStack DEF IInv, Present

LEMMA CreateStep ==
    ASSUME IInv, NEW s \in Creations, Create(s)
    PROVE  IInv'
<1> DEFINE T == clientTable
           U == AddResources(T, s)
<1>1. /\ ~Running /\ T' = U /\ added' = added \o s /\ stack' = stack /\ retained' = retained
      /\ \A i \in DOMAIN s : /\ Connected(Owner[s[i].id]) /\ ~Present(s[i])
                             /\ \A r \in Needs[s[i]] : Present(r) \/ r \in Range(s)
  BY DEF Create
<1>2. s \in Seq(Resources) /\ IsInjective(s) /\ Len(s) \in Nat /\ DOMAIN s = 1 .. Len(s)
  BY ResourceTableAssumption
<1>3. \A i \in DOMAIN s : T[Owner[s[i].id]].buckets > 0 /\ ~InTable(T, s[i])
  BY <1>1 DEF Connected, Buckets, Present
<1>4. AddedTo(T, added, s, Len(s), U)
  BY <1>2, <1>3, AddAllFacts DEF IInv
<1> HIDE DEF U
<1>5. SubSeq(s, 1, Len(s)) = s
  BY <1>2
<1>6. TablesInv(U, added \o s)
  BY <1>4, <1>5 DEF AddedTo
<1>7. \A q \in Resources : InTable(U, q) <=> InTable(T, q) \/ \E i \in DOMAIN s : q = s[i]
  BY <1>2, <1>4 DEF AddedTo
<1>8. StackInv(<<>>, U)
  <2> SUFFICES ASSUME NEW q \in Resources, InTable(U, q), NEW r \in Needs[q] PROVE InTable(U, r)
    BY EmptyStack
  <2>1. r \in Resources
    BY ResourceTableAssumption
  <2>2. CASE InTable(T, q)
    BY <1>1, <1>7, <2>1, <2>2, NotRunning DEF Present
  <2>3. CASE \E i \in DOMAIN s : q = s[i]
    <3>1. InTable(T, r) \/ r \in Range(s)
      BY <1>1, <2>3 DEF Present
    <3> QED BY <1>7, <2>1, <3>1 DEF Range
  <2> QED BY <1>7, <2>2, <2>3
<1>9. RetainedInv(retained, U)
  <2> SUFFICES ASSUME NEW q \in Resources, InTable(U, q), Owner[q.id] \in retained
               PROVE  q.type \notin NeverRetained
    BY DEF IInv, RetainedInv
  <2>1. InTable(T, q)
    BY <1>1, <1>7 DEF Connected
  <2> QED BY <2>1 DEF IInv, RetainedInv
<1> QED BY <1>1, <1>6, <1>8, <1>9, NotRunning DEF IInv

(* The first loop of a request.                                            *)
LEMMA FirstLoop ==
    ASSUME NEW T, StackInv(<<>>, T), NEW f \in Frames, LoopInv(f, T), OutermostOk(f)
    PROVE  StackInv(<<f>>, T)
<1> DEFINE v == <<f>>
<1>1. v \in Seq(Frames) /\ Len(v) = 1 /\ v[1] = f /\ f.op # "delete"
  BY DEF OutermostOk
<1> HIDE DEF v
<1>2. \A i \in 1 .. Len(v) : i = 1 /\ v[i] = f
  BY <1>1
<1>3. Shape(v)
  BY <1>1, <1>2 DEF Shape
<1>4. \A i \in 1 .. Len(v) : FrameInv(v[i], T)
  BY <1>2 DEF FrameInv
<1>5. CallsInv(v, T)
  BY <1>1, <1>2 DEF CallsInv
<1>6. OrphansInv(v, T)
  BY EmptyStack DEF OrphansInv
<1>7. StackInv(v, T)
  BY <1>3, <1>4, <1>5, <1>6 DEF StackInv
<1> QED BY <1>7 DEF v

LEMMA FreeRequest ==
    ASSUME IInv, ~Running, NEW id \in Ids,
           \E r \in Resources : r.id = id /\ Present(r),
           NEW op \in {"FreeResource", "FreeResourceByType"}, NEW type \in Types \cup {RT_NONE},
           op = "FreeResourceByType" => type = "driDrawable", op = "FreeResource" => type = RT_NONE
    PROVE  StackInv(Call([op |-> op, id |-> id, type |-> type]), clientTable)
<1> DEFINE T == clientTable
           f == Frame(op, Owner[id], Hash(id, T[Owner[id]].buckets), id, type)
<1>1. T[Owner[id]].buckets > 0 /\ T[Owner[id]].buckets \in Nat
  <2>1. Owner[id] \in Clients
    BY ResourceTableAssumption
  <2> QED BY <2>1, SelfType DEF IInv, TablesInv, Present, InTable
<1>2. Call([op |-> op, id |-> id, type |-> type]) = <<f>>
  BY <1>1 DEF Call, Buckets
<1>3. f \in Frames /\ LoopInv(f, T) /\ f.op = op /\ f.type = type
  BY <1>1, CalledLoop DEF IInv
<1> HIDE DEF f
<1>4. OutermostOk(f)
  BY <1>3 DEF OutermostOk
<1>5. StackInv(<<>>, T)
  BY NotRunning DEF IInv
<1> QED BY <1>2, <1>3, <1>4, <1>5, FirstLoop

LEMMA DestroyStep ==
    ASSUME IInv, NEW id \in Ids, Destroy(id)
    PROVE  IInv'
<1>1. StackInv(Call([op |-> "FreeResource", id |-> id, type |-> RT_NONE]), clientTable)
  BY FreeRequest DEF Destroy
<1> QED BY <1>1 DEF Destroy, FreeResourceCall, IInv

LEMMA DRIDestroyDrawableStep ==
    ASSUME IInv, NEW r \in Resources, DRIDestroyDrawable(r)
    PROVE  IInv'
<1>1. r.id \in Ids /\ r.type \in Types
  BY ConstantFacts
<1>2. StackInv(Call([op |-> "FreeResourceByType", id |-> r.id, type |-> r.type]), clientTable)
  BY <1>1, FreeRequest DEF DRIDestroyDrawable
<1> QED BY <1>2 DEF DRIDestroyDrawable, FreeByTypeCall, IInv

LEMMA CloseDownClientStep ==
    ASSUME IInv, NEW c \in Clients, CloseDownClient(c)
    PROVE  IInv'
<1> DEFINE T == clientTable
<1>1. ~Running /\ T[c].buckets > 0 /\ T' = T /\ added' = added /\ retained' = retained
  BY DEF CloseDownClient, Buckets
<1>2. PICK op \in {"ClientResources", "NeverRetain"} : stack' = <<Frame(op, c, 0, None, None)>>
  BY DEF CloseDownClient
<1> DEFINE f == Frame(op, c, 0, None, None)
<1>3. /\ f.op = op /\ f.cid = c /\ f.bucket = 0 /\ f.prev = None /\ f.res = None
  BY DEF Frame
<1>4. f \in Frames
  <2>1. <<>> \in Seq(Calls) /\ op \in Loops
    BY DEF Loops
  <2> QED BY <2>1 DEF Frame, Frames
<1> HIDE DEF f
<1>5. T[c].buckets \in Nat
  BY SelfType DEF IInv, TablesInv
<1>6. 0 \in 0 .. T[c].buckets - 1 /\ \A b \in 0 .. 0 - 1 : FALSE
  BY <1>1, <1>5
<1>7. LoopInv(f, T) /\ OutermostOk(f)
  BY <1>3, <1>6 DEF LoopInv, OutermostOk, Loops
<1>8. StackInv(<<>>, T)
  BY <1>1, NotRunning DEF IInv
<1>9. StackInv(<<f>>, T)
  BY <1>4, <1>7, <1>8, FirstLoop
<1> QED BY <1>1, <1>2, <1>9 DEF IInv, f

LEMMA InitClientResourcesStep ==
    ASSUME IInv, NEW c \in Clients, InitClientResources(c)
    PROVE  IInv'
<1> DEFINE T == clientTable
           U == [T EXCEPT ![c] = EmptyTable(INITBUCKETS)]
<1>1. /\ ~Running /\ T[c].buckets = 0 /\ T' = U
      /\ added' = added /\ stack' = stack /\ retained' = retained
  BY DEF InitClientResources, Buckets
<1>2. U = [d \in Clients |-> IF d = c THEN EmptyTable(INITBUCKETS) ELSE T[d]]
  BY DEF IInv, TablesInv
<1> HIDE DEF U
<1>3. TableOk(c, EmptyTable(INITBUCKETS), added) /\ \A r \in Resources : ~HasIn(EmptyTable(INITBUCKETS), r)
  BY EmptyOk, ConstantFacts
<1>4. ASSUME NEW q \in Resources PROVE InTable(U, q) <=> InTable(T, q)
  <2>1. Owner[q.id] \in Clients
    BY ConstantFacts
  <2>2. CASE Owner[q.id] = c
    BY <1>1, <1>2, <1>3, <2>1, <2>2 DEF InTable, HasIn
  <2>3. CASE Owner[q.id] # c
    BY <1>2, <2>1, <2>3 DEF InTable
  <2> QED BY <2>2, <2>3
<1>5. TablesInv(U, added)
  <2>1. \A d \in Clients : TableOk(d, U[d], added)
    BY <1>2, <1>3 DEF IInv, TablesInv
  <2>2. Range(added) = {r \in Resources : InTable(U, r)}
    BY <1>4 DEF IInv, TablesInv
  <2> QED BY <1>2, <2>1, <2>2 DEF IInv, TablesInv
<1>6. StackInv(<<>>, U)
  <2>1. \A r \in Resources : Needs[r] \subseteq Resources
    BY ResourceTableAssumption
  <2> QED BY <1>1, <1>4, <2>1, EmptyStack, NotRunning DEF Present
<1>7. RetainedInv(retained, U)
  BY <1>4 DEF IInv, RetainedInv
<1> QED BY <1>1, <1>5, <1>6, <1>7, NotRunning DEF IInv

---------------------------------------------------------------------------
(* The inductive invariant holds and implies the properties.               *)

LEMMA InitIInv == Init => IInv
<1> SUFFICES ASSUME Init PROVE IInv
  OBVIOUS
<1>1. /\ clientTable = [c \in Clients |-> EmptyTable(0)]
      /\ added = <<>> /\ stack = <<>> /\ retained = {}
  BY DEF Init
<1>2. ASSUME NEW r \in Resources PROVE ~InTable(clientTable, r)
  <2>1. Owner[r.id] \in Clients /\ EmptyTable(0).buckets = 0
    BY ConstantFacts DEF EmptyTable
  <2> QED BY <1>1, <2>1 DEF InTable
<1>3. TablesInv(clientTable, <<>>)
  <2>1. \A c \in Clients : TableOk(c, clientTable[c], <<>>)
    BY <1>1, EmptyOk
  <2>2. <<>> \in Seq(Resources) /\ IsInjective(<<>>) /\ Range(<<>>) = {}
    BY DEF IsInjective, Range
  <2> QED BY <1>1, <1>2, <2>1, <2>2 DEF TablesInv
<1>4. StackInv(<<>>, clientTable)
  BY <1>2, EmptyStack
<1>5. RetainedInv({}, clientTable)
  BY <1>2 DEF RetainedInv
<1> QED BY <1>1, <1>3, <1>4, <1>5 DEF IInv

LEMMA NextIInv == IInv /\ [Next]_vars => IInv'
<1> SUFFICES ASSUME IInv, [Next]_vars PROVE IInv'
  OBVIOUS
<1>1. CASE Step
  BY <1>1, NextResourceStep, UnlinkStep, FreedStep, EndOfChainStep, EndOfTableStep,
     DeleteCallsStep, DeleteReturnsStep DEF Step
<1>2. CASE \E s \in Creations : Create(s)
  BY <1>2, CreateStep
<1>3. CASE \E id \in Ids : Destroy(id)
  BY <1>3, DestroyStep
<1>4. CASE \E r \in Resources : DRIDestroyDrawable(r)
  BY <1>4, DRIDestroyDrawableStep
<1>5. CASE \E c \in Clients : CloseDownClient(c) \/ InitClientResources(c)
  BY <1>5, CloseDownClientStep, InitClientResourcesStep
<1>6. CASE UNCHANGED vars
  BY <1>6 DEF vars, IInv
<1> QED BY <1>1, <1>2, <1>3, <1>4, <1>5, <1>6 DEF Next

LEMMA TableHolds == IInv => TypeOK /\ NewestFirst
<1> SUFFICES ASSUME IInv PROVE TypeOK /\ NewestFirst
  OBVIOUS
<1>1. \A c \in Clients : TableOk(c, clientTable[c], added)
  BY DEF IInv, TablesInv
<1>2. ASSUME NEW c \in Clients
      PROVE  /\ Buckets(c) \in 0 .. MAXBUCKETS
             /\ DOMAIN clientTable[c].resources = 0 .. Buckets(c) - 1
             /\ \A b \in 0 .. Buckets(c) - 1 :
                  /\ ChainOk(c, Buckets(c), b, clientTable[c].resources[b])
                  /\ Newest(clientTable[c].resources[b], added)
  <2>1. Buckets(c) \in Sizes \cup {0} /\ clientTable[c] \in Tables(Buckets(c))
    BY <1>1 DEF TableOk, Buckets
  <2>2. Buckets(c) \in 0 .. MAXBUCKETS
    BY <2>1, ResourceTableAssumption DEF Sizes
  <2>3. DOMAIN clientTable[c].resources = 0 .. Buckets(c) - 1
    BY <2>1 DEF Tables
  <2> QED BY <1>1, <2>2, <2>3 DEF TableOk, Buckets
<1>3. TypeOK
  <2>1. Range(added) = {r \in Resources : Present(r)} /\ IsInjective(added)
    BY DEF IInv, TablesInv, Present
  <2>2. retained \subseteq Clients
    BY DEF IInv, RetainedInv
  <2>3. ASSUME NEW c \in Clients, NEW b \in 0 .. Buckets(c) - 1
        PROVE  LET chain == clientTable[c].resources[b]
               IN /\ IsInjective(chain)
                  /\ \A r \in Range(chain) : /\ r \in Resources /\ Owner[r.id] = c
                                             /\ Hash(r.id, Buckets(c)) = b
    BY <1>2, <2>3 DEF ChainOk, Range
  <2> QED BY <1>2, <2>1, <2>2, <2>3 DEF TypeOK
<1>4. ASSUME NEW c \in Clients, NEW b \in 0 .. Buckets(c) - 1,
             NEW i \in DOMAIN clientTable[c].resources[b],
             NEW j \in DOMAIN clientTable[c].resources[b], i < j,
             clientTable[c].resources[b][i].id = clientTable[c].resources[b][j].id
      PROVE  Place(added, clientTable[c].resources[b][j])
               < Place(added, clientTable[c].resources[b][i])
  <2> DEFINE x == clientTable[c].resources[b][i]
             y == clientTable[c].resources[b][j]
  <2>1. Precedes(added, y, x)
    BY <1>2, <1>4 DEF Newest
  <2>2. PICK k, m \in DOMAIN added : k < m /\ added[k] = y /\ added[m] = x
    BY <2>1 DEF Precedes
  <2>3. Place(added, y) = k /\ Place(added, x) = m
    BY <2>2, PlaceFacts DEF IInv, TablesInv
  <2> QED BY <2>2, <2>3
<1> QED BY <1>3, <1>4 DEF NewestFirst

LEMMA LoopsHold == IInv => PrevIsInChain /\ DeletedOnce
<1> SUFFICES ASSUME IInv PROVE PrevIsInChain /\ DeletedOnce
  OBVIOUS
<1>1. /\ Shape(stack) /\ stack \in Seq(Frames) /\ DOMAIN stack = 1 .. Len(stack)
      /\ \A i \in 1 .. Len(stack) : FrameInv(stack[i], clientTable)
  BY DEF IInv, StackInv, Shape
<1>2. ASSUME NEW i \in DOMAIN stack, stack[i].op # "delete", stack[i].res = None,
             stack[i].prev # None
      PROVE  stack[i].prev \in Range(clientTable[stack[i].cid].resources[stack[i].bucket])
  <2>1. LoopInv(stack[i], clientTable)
    BY <1>1, <1>2, OneKind
  <2>2. Passed(stack[i], clientTable)
    BY <1>2, <2>1 DEF LoopInv, Stale
  <2> QED BY <2>2 DEF Passed, ChainOf, Range
<1>3. ASSUME NEW i \in DOMAIN stack, stack[i].op = "delete"
      PROVE  /\ ~Present(stack[i].res)
             /\ \A j \in DOMAIN stack : stack[j].op = "delete" /\ j # i =>
                  stack[j].res # stack[i].res
  <2>1. DeleteInv(stack[i], clientTable)
    BY <1>1, <1>3, OneKind
  <2> QED BY <1>1, <1>3, <2>1 DEF DeleteInv, Present, Shape
<1> QED BY <1>2, <1>3 DEF PrevIsInChain, DeletedOnce

LEMMA NothingIsLeft == IInv => NothingLeft
<1> SUFFICES ASSUME IInv PROVE NothingLeft
  OBVIOUS
<1>1. Range(added) = {r \in Resources : Present(r)}
  BY DEF IInv, TablesInv, Present
<1>2. NoOrphans
  BY <1>1, NotRunning DEF NoOrphans
<1>3. ClientEmptied
  BY <1>1 DEF IInv, RetainedInv, ClientEmptied, Present, InTable, Buckets
<1> QED BY <1>2, <1>3 DEF NothingLeft

(* For any resources, whatever their delete functions free, and any hash   *)
(* functions: chains are whole and newest first of an id, also after the   *)
(* table was rebuilt; no loop of FreeResource or the others goes on from a *)
(* resource that a delete function has freed meanwhile, and no delete      *)
(* function is called for a resource while it runs for it.                 *)
THEOREM TablesAreSafe == Spec => []ResourceTableInv
<1>1. IInv => ResourceTableInv
  BY TableHolds, LoopsHold DEF ResourceTableInv
<1> QED BY <1>1, InitIInv, NextIInv, PTL DEF Spec

(* Between requests nothing is left that needs a resource that was freed,  *)
(* and nothing of a client whose resources were: what has the id of the    *)
(* resource it needs is freed by the same loop, and what has not by the    *)
(* resource's delete function or the one that skips it.                    *)
THEOREM NothingIsLeftBehind == Spec => []NothingLeft
  BY InitIInv, NextIInv, NothingIsLeft, PTL DEF Spec
===========================================================================

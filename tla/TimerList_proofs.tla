-------------------------- MODULE TimerList_proofs --------------------------
(***************************************************************************)
(* Lemmas about the list of timers of TimerList: where TimerSet puts a     *)
(* timer, what TimerCancel leaves, and when the sign of the difference of  *)
(* two CARD32 times tells which of them is earlier.                        *)
(***************************************************************************)
EXTENDS TimerList, SequenceTheorems, WellFoundedInduction, TLAPS

(* Numbers: there is a least one, and what the remainder of a division is. *)

NatLess == {ss \in Nat \X Nat : ss[1] < ss[2]}

(* Every set of natural numbers that is not empty has a least one: the     *)
(* form in which induction over numbers is used here.                      *)
LEMMA LeastExists ==
    ASSUME NEW T, T \subseteq Nat, T # {}
    PROVE  \E x \in T : \A y \in T : x <= y
<1>1. IsWellFoundedOn(NatLess, Nat)
  BY NatLessThanWellFounded DEF OpToRel, NatLess
<1>2. PICK x \in T : \A y \in T : ~ (<<y, x>> \in NatLess)
  BY <1>1, WFMin
<1>3. ASSUME NEW y \in T PROVE x <= y
  <2>1. y \in Nat /\ x \in Nat
    OBVIOUS
  <2>2. y < x => <<y, x>> \in NatLess
    BY <2>1 DEF NatLess
  <2> QED BY <1>2, <2>1, <2>2
<1> QED BY <1>3

(* A number less than W away from 0 has itself or itself plus W as its      *)
(* remainder.                                                              *)
LEMMA ModSmall ==
    ASSUME NEW W \in Nat \ {0}, NEW x \in Int, -W < x, x < W
    PROVE  x % W = IF x >= 0 THEN x ELSE x + W
OBVIOUS

(* Division with remainder.                                                *)
LEMMA Quotient ==
    ASSUME NEW W \in Nat \ {0}, NEW a \in Int
    PROVE  \E q \in Int, r \in 0 .. W - 1 : a = W * q + r /\ a % W = r
<1>1. a % W \in 0 .. W - 1 /\ a \div W \in Int /\ a = W * (a \div W) + (a % W)
  OBVIOUS
<1> QED BY <1>1

(* Two numbers less than half of W apart: their distance can be computed   *)
(* from their remainders.                                                  *)
LEMMA RemaindersApart ==
    ASSUME NEW W \in Nat \ {0}, NEW a \in Int, NEW b \in Int, -W < 2 * (a - b), 2 * (a - b) < W
    PROVE  ((a % W) - (b % W)) % W = (IF a - b >= 0 THEN a - b ELSE a - b + W)
<1>1. PICK qa \in Int, ra \in 0 .. W - 1 : a = W * qa + ra /\ a % W = ra
  BY Quotient
<1>2. PICK qb \in Int, rb \in 0 .. W - 1 : b = W * qb + rb /\ b % W = rb
  BY Quotient
<1>3. PICK k \in Int : k = qa - qb
  OBVIOUS
<1>4. PICK x \in Int : x = ra - rb
  OBVIOUS
<1>5. -W < x /\ x < W
  BY <1>4
<1>6. a - b = W * k + x
  BY <1>1, <1>2, <1>3, <1>4
<1>7. k \in {-1, 0, 1}
  <2>1. ASSUME k >= 2 PROVE FALSE
    <3>1. W * k >= W * 2 BY <2>1
    <3> QED BY <3>1, <1>5, <1>6
  <2>2. ASSUME k <= -2 PROVE FALSE
    <3>1. W * k <= W * (-2) BY <2>2
    <3> QED BY <3>1, <1>5, <1>6
  <2> QED BY <2>1, <2>2
<1>8. x % W = IF x >= 0 THEN x ELSE x + W
  BY <1>5, ModSmall
<1>9. x % W = IF a - b >= 0 THEN a - b ELSE a - b + W
  <2>1. CASE k = 0 BY <2>1, <1>4, <1>5, <1>6, <1>8
  <2>2. CASE k = 1 BY <2>2, <1>4, <1>5, <1>6, <1>8
  <2>3. CASE k = -1
     <3>1. W * k = -W BY <2>3
     <3> QED BY <3>1, <1>4, <1>5, <1>6, <1>8
  <2> QED BY <1>7, <2>1, <2>2, <2>3
<1> QED BY <1>9, <1>4, <1>1, <1>2

(* A remainder is determined by its range, ...                             *)
LEMMA RemainderUnique ==
    ASSUME NEW W \in Nat \ {0}, NEW x \in Int, NEW k \in Int, NEW r \in 0 .. W - 1, x = W * k + r
    PROVE  x % W = r
<1>1. PICK q \in Int, s \in 0 .. W - 1 : x = W * q + s /\ x % W = s
  BY Quotient
<1>2. PICK m \in Int : m = k - q
  OBVIOUS
<1>3. W * m = s - r
  BY <1>1, <1>2
<1>4. m = 0
  <2>1. ASSUME m >= 1 PROVE FALSE
    <3>1. W * m >= W
      BY <2>1
    <3> QED BY <3>1, <1>3
  <2>2. ASSUME m <= -1 PROVE FALSE
    <3>1. W * m <= -W
      BY <2>2
    <3> QED BY <3>1, <1>3
  <2> QED BY <2>1, <2>2
<1>5. W * m = 0
  BY <1>4
<1> QED BY <1>1, <1>3, <1>5

(* ... so that it can be taken before or after an addition.                *)
LEMMA RemainderOfSum ==
    ASSUME NEW W \in Nat \ {0}, NEW x \in Int, NEW y \in Int
    PROVE  (x + (y % W)) % W = (y + x) % W
<1>1. PICK q \in Int, r \in 0 .. W - 1 : y = W * q + r /\ y % W = r
  BY Quotient
<1>2. PICK p \in Int, s \in 0 .. W - 1 : y + x = W * p + s /\ (y + x) % W = s
  BY Quotient
<1>3. PICK k \in Int : k = p - q
  OBVIOUS
<1>4. W * k = W * p - W * q
  BY <1>3
<1>5. x + r = W * k + s
  <2>1. y = W * q + r /\ y + x = W * p + s
    BY <1>1, <1>2
  <2>2. W * q \in Int /\ W * p \in Int /\ W * k \in Int
    OBVIOUS
  <2> DEFINE u == W * q  v == W * p  w == W * k
  <2>3. w = v - u /\ y = u + r /\ y + x = v + s /\ u \in Int /\ v \in Int /\ w \in Int
    BY <1>4, <2>1, <2>2
  <2> HIDE DEF u, v, w
  <2>4. x + r = w + s
    BY <2>3
  <2> QED BY <2>4 DEF w
<1>6. (x + r) % W = s
  <2>1. PICK z \in Int : z = x + r
    OBVIOUS
  <2>2. z % W = s
    BY <1>5, <2>1, RemainderUnique
  <2> QED BY <2>1, <2>2
<1>7. (x + (y % W)) % W = (x + r) % W
  BY <1>1
<1> QED BY <1>2, <1>6, <1>7

LEMMA ProductPositive ==
    ASSUME NEW m \in Nat \ {0}, NEW n \in Nat \ {0}
    PROVE  m * n \in Nat \ {0}
OBVIOUS

(* What fits into n fits into the quotient as often.                       *)
LEMMA QuotientAtLeast ==
    ASSUME NEW W \in Nat \ {0}, NEW n \in Nat, NEW m \in Nat, m * W <= n
    PROVE  m <= n \div W
<1>1. PICK q : q = n \div W
  OBVIOUS
<1>2. q \in Int /\ n % W \in 0 .. W - 1 /\ n = W * q + (n % W)
  BY <1>1
<1>3. n < W * q + W
  BY <1>2
<1>4. SUFFICES ASSUME m >= q + 1 PROVE FALSE
  BY <1>1, <1>2
<1>5. (m - q - 1) * W >= 0
  <2>1. \A x, y \in Nat : x * y >= 0
    OBVIOUS
  <2>2. m - q - 1 \in Nat
    BY <1>2, <1>4
  <2> QED BY <2>1, <2>2
<1>6. (m - q - 1) * W = m * W - W * q - W
  BY <1>2
<1>7. W * q \in Int /\ m * W \in Int
  BY <1>2
<1> QED BY <1>3, <1>5, <1>6, <1>7

---------------------------------------------------------------------------
Entries(T) == [timer: T, expires: 0 .. Wrap - 1]

(* What SubSeq returns for a part of a sequence.                           *)
LEMMA Cut ==
    ASSUME NEW S, NEW s \in Seq(S), NEW m \in Nat \ {0}, NEW n \in 0 .. Len(s), m <= n + 1
  PROVE /\ SubSeq(s, m, n) \in Seq(S)
        /\ Len(SubSeq(s, m, n)) = n - m + 1
        /\ \A j \in 1 .. n - m + 1 : SubSeq(s, m, n)[j] = s[m + j - 1]
<1>1. \A i \in m .. n : s[i] \in S
  OBVIOUS
<1> QED BY <1>1, SubSeqProperties

(* What InsertAt returns.                                                  *)
LEMMA InsertFacts ==
  ASSUME NEW S, NEW s \in Seq(S), NEW e \in S, NEW i \in 1 .. Len(s) + 1
  PROVE  /\ InsertAt(s, i, e) \in Seq(S)
         /\ Len(InsertAt(s, i, e)) = Len(s) + 1
         /\ \A j \in 1 .. Len(s) + 1 :
               InsertAt(s, i, e)[j] = IF j < i THEN s[j] ELSE IF j = i THEN e ELSE s[j - 1]
<1> DEFINE n == Len(s)  a == SubSeq(s, 1, i - 1)  c == <<e>>  b == SubSeq(s, i, n)
           d == a \o c  t == d \o b
<1>1. n \in Nat /\ i \in 1 .. n + 1
  OBVIOUS
<1>2. a \in Seq(S) /\ Len(a) = (i - 1) - 1 + 1 /\ \A j \in 1 .. (i - 1) - 1 + 1 : a[j] = s[1 + j - 1]
  <2>1. i - 1 \in 0 .. Len(s) /\ 1 <= (i - 1) + 1
    BY <1>1
  <2> QED BY <2>1, Cut
<1>3. b \in Seq(S) /\ Len(b) = n - i + 1 /\ \A j \in 1 .. n - i + 1 : b[j] = s[i + j - 1]
  <2>1. i \in Nat \ {0} /\ n \in 0 .. Len(s) /\ i <= n + 1
    BY <1>1
  <2> QED BY <2>1, Cut
<1>4. c \in Seq(S) /\ Len(c) = 1 /\ c[1] = e
  OBVIOUS
<1>5. /\ d \in Seq(S) /\ Len(d) = Len(a) + Len(c)
      /\ \A j \in 1 .. Len(a) + Len(c) : d[j] = IF j <= Len(a) THEN a[j] ELSE c[j - Len(a)]
  <2> HIDE DEF a, c
  <2> QED BY <1>2, <1>4, ConcatProperties
<1>6. /\ t \in Seq(S) /\ Len(t) = Len(d) + Len(b)
      /\ \A j \in 1 .. Len(d) + Len(b) : t[j] = IF j <= Len(d) THEN d[j] ELSE b[j - Len(d)]
  <2>1. d \in Seq(S) /\ b \in Seq(S)
    BY <1>3, <1>5
  <2> HIDE DEF d, b
  <2> QED BY <2>1, ConcatProperties
<1>7. InsertAt(s, i, e) = t
  BY DEF InsertAt
<1>n. n = Len(s)
  OBVIOUS
<1> HIDE DEF n, a, b, c, d, t
<1>8. Len(a) = i - 1 /\ Len(d) = i /\ Len(t) = n + 1
  BY <1>1, <1>2, <1>3, <1>4, <1>5, <1>6
<1>9. ASSUME NEW j \in 1 .. n + 1
      PROVE  t[j] = IF j < i THEN s[j] ELSE IF j = i THEN e ELSE s[j - 1]
  <2>1. CASE j < i
    <3>1. t[j] = d[j]
      BY <2>1, <1>1, <1>6, <1>8
    <3>2. d[j] = a[j]
      BY <2>1, <1>1, <1>4, <1>5, <1>8
    <3>3. a[j] = s[j]
      BY <2>1, <1>1, <1>2
    <3> QED BY <3>1, <3>2, <3>3, <2>1
  <2>2. CASE j = i
    <3>1. t[j] = d[j]
      BY <2>2, <1>1, <1>6, <1>8
    <3>2. d[j] = c[1]
      BY <2>2, <1>1, <1>4, <1>5, <1>8
    <3> QED BY <3>1, <3>2, <1>4, <2>2, <1>1
  <2>3. CASE j > i
    <3>1. j - i \in 1 .. n - i + 1 /\ i + (j - i) - 1 = j - 1
      BY <2>3, <1>1
    <3>2. t[j] = b[j - i]
      BY <2>3, <1>1, <1>3, <1>6, <1>8
    <3>3. b[j - i] = s[i + (j - i) - 1]
      BY <3>1, <1>3
    <3> QED BY <3>1, <3>2, <3>3, <2>3, <1>1
  <2> QED BY <2>1, <2>2, <2>3, <1>1
<1> QED BY <1>6, <1>7, <1>8, <1>9, <1>n

(* What RemoveAt returns.                                                  *)
LEMMA RemoveFacts ==
  ASSUME NEW S, NEW s \in Seq(S), NEW i \in 1 .. Len(s)
  PROVE  /\ RemoveAt(s, i) \in Seq(S)
         /\ Len(RemoveAt(s, i)) = Len(s) - 1
         /\ \A j \in 1 .. Len(s) - 1 :
               RemoveAt(s, i)[j] = IF j < i THEN s[j] ELSE s[j + 1]
<1> DEFINE n == Len(s)  a == SubSeq(s, 1, i - 1)  b == SubSeq(s, i + 1, n)  t == a \o b
<1>1. n \in Nat /\ i \in 1 .. n
  OBVIOUS
<1>2. a \in Seq(S) /\ Len(a) = (i - 1) - 1 + 1 /\ \A j \in 1 .. (i - 1) - 1 + 1 : a[j] = s[1 + j - 1]
  <2>1. i - 1 \in 0 .. Len(s) /\ 1 <= (i - 1) + 1
    BY <1>1
  <2> QED BY <2>1, Cut
<1>3. /\ b \in Seq(S) /\ Len(b) = n - (i + 1) + 1
      /\ \A j \in 1 .. n - (i + 1) + 1 : b[j] = s[(i + 1) + j - 1]
  <2>1. i + 1 \in Nat \ {0} /\ n \in 0 .. Len(s) /\ i + 1 <= n + 1
    BY <1>1
  <2> QED BY <2>1, Cut
<1>4. /\ t \in Seq(S) /\ Len(t) = Len(a) + Len(b)
      /\ \A j \in 1 .. Len(a) + Len(b) : t[j] = IF j <= Len(a) THEN a[j] ELSE b[j - Len(a)]
  <2> HIDE DEF a, b
  <2> QED BY <1>2, <1>3, ConcatProperties
<1>5. RemoveAt(s, i) = t
  BY DEF RemoveAt
<1>n. n = Len(s)
  OBVIOUS
<1> HIDE DEF n, a, b, t
<1>6. Len(a) = i - 1 /\ Len(b) = n - i /\ Len(t) = n - 1
  BY <1>1, <1>2, <1>3, <1>4
<1>7. ASSUME NEW j \in 1 .. n - 1
      PROVE  t[j] = IF j < i THEN s[j] ELSE s[j + 1]
  <2>1. CASE j < i
    <3>1. t[j] = a[j]
      BY <2>1, <1>1, <1>4, <1>6
    <3>2. a[j] = s[j]
      BY <2>1, <1>1, <1>2
    <3> QED BY <3>1, <3>2, <2>1
  <2>2. CASE j >= i
    <3> DEFINE m == j - (i - 1)
    <3>1. m \in 1 .. n - (i + 1) + 1 /\ (i + 1) + m - 1 = j + 1
      BY <2>2, <1>1
    <3>2. t[j] = b[m]
      BY <2>2, <1>1, <1>4, <1>6
    <3>3. b[m] = s[(i + 1) + m - 1]
      BY <3>1, <1>3
    <3> HIDE DEF m
    <3> QED BY <3>1, <3>2, <3>3, <2>2, <1>1
  <2> QED BY <2>1, <2>2, <1>1
<1> QED BY <1>4, <1>5, <1>6, <1>7, <1>n

-----------------------------------------------------------------------------
(* Two times less than half the clock apart are compared as they are,      *)
(* wherever the clock wraps.                                               *)
LEMMA DifferenceFacts ==
    ASSUME NEW a \in Int, NEW b \in Int, -Wrap < 2 * (a - b), 2 * (a - b) < Wrap
    PROVE  Difference(Card(a), Card(b)) = a - b
<1>1. Card(Card(a) - Card(b)) = IF a - b >= 0 THEN a - b ELSE a - b + Wrap
  BY TimerListAssumption, RemaindersApart DEF Card
<1> DEFINE d == Card(Card(a) - Card(b))
<1>2. Difference(Card(a), Card(b)) = IF 2 * d >= Wrap THEN d - Wrap ELSE d
  BY DEF Difference
<1>3. d = IF a - b >= 0 THEN a - b ELSE a - b + Wrap
  BY <1>1
<1> HIDE DEF d
<1> QED BY <1>2, <1>3, TimerListAssumption

(* A time ahead by less than half the clock is not over.                   *)
LEMMA NotOver ==
    ASSUME NEW p \in Nat \ {0}, NEW n \in Int, 2 * p < Wrap
    PROVE  ~IsOver(p, n)
<1>1. (p + n) - n = p
  OBVIOUS
<1>2. Card(p) = p
  BY TimerListAssumption, ModSmall DEF Card
<1>3. Difference(p + n, n) = p
  BY <1>1, <1>2, TimerListAssumption DEF Difference
<1> QED BY <1>3 DEF IsOver

LEMMA CardType ==
    ASSUME NEW n \in Int
    PROVE  Card(n) \in 0 .. Wrap - 1
BY TimerListAssumption DEF Card

-----------------------------------------------------------------------------
(* There is a first place where a test holds.                              *)
LEMMA FirstOfFacts ==
    ASSUME NEW P, P \subseteq Nat, P # {}
    PROVE  FirstOf(P) \in P /\ \A j \in P : FirstOf(P) <= j
BY LeastExists DEF FirstOf

(* TimerCancel takes the timer out of the list, if it is there.            *)
LEMMA UnlinkedFacts ==
    ASSUME NEW T, NEW list \in Seq(Entries(T)), NEW t
    PROVE  \/ /\ \A i \in 1 .. Len(list) : list[i].timer # t
              /\ Unlinked(list, t) = list
           \/ \E k \in 1 .. Len(list) : list[k].timer = t /\ Unlinked(list, t) = RemoveAt(list, k)
<1> DEFINE places == {i \in DOMAIN list : list[i].timer = t}
<1>1. DOMAIN list = 1 .. Len(list) /\ Len(list) \in Nat
  OBVIOUS
<1>2. Unlinked(list, t) = IF places = {} THEN list ELSE RemoveAt(list, FirstOf(places))
  BY DEF Unlinked
<1>3. ASSUME places # {} PROVE FirstOf(places) \in places
  <2>1. places \subseteq Nat
    BY <1>1
  <2> HIDE DEF places
  <2> QED BY <1>3, <2>1, FirstOfFacts
<1>4. CASE places = {}
  BY <1>1, <1>2, <1>4
<1>5. CASE places # {}
  <2>1. PICK k \in places : k = FirstOf(places)
    BY <1>3, <1>5
  <2>2. Unlinked(list, t) = RemoveAt(list, k)
    BY <1>2, <1>5, <2>1
  <2>3. k \in 1 .. Len(list) /\ list[k].timer = t
    BY <1>1
  <2> QED BY <2>2, <2>3
<1> QED BY <1>4, <1>5

(* TimerSet puts the timer behind every one that does not expire later,    *)
(* up to the first that does.                                              *)
LEMMA LinkedFacts ==
    ASSUME NEW T, NEW list \in Seq(Entries(T)), NEW t, NEW expires, NEW millis \in Int
    PROVE  \E at \in 1 .. Len(list) + 1 :
              /\ Linked(list, t, expires, millis)
                    = InsertAt(list, at, [timer |-> t, expires |-> expires])
              /\ \A i \in 1 .. at - 1 : ~(Difference(list[i].expires, millis) > 0)
              /\ at <= Len(list) => Difference(list[at].expires, millis) > 0
<1> DEFINE later == {i \in DOMAIN list : Difference(list[i].expires, millis) > 0}
           at == IF later = {} THEN Len(list) + 1 ELSE FirstOf(later)
<1>1. DOMAIN list = 1 .. Len(list) /\ Len(list) \in Nat
  OBVIOUS
<1>2. Linked(list, t, expires, millis) = InsertAt(list, at, [timer |-> t, expires |-> expires])
  BY DEF Linked
<1>3. ASSUME later # {} PROVE FirstOf(later) \in later /\ \A j \in later : FirstOf(later) <= j
  <2>1. later \subseteq Nat
    BY <1>1
  <2> HIDE DEF later
  <2> QED BY <1>3, <2>1, FirstOfFacts
<1>4. CASE later = {}
  <2>1. at = Len(list) + 1
    BY <1>4
  <2>2. \A i \in 1 .. Len(list) : ~(Difference(list[i].expires, millis) > 0)
    BY <1>1, <1>4
  <2> HIDE DEF at, later
  <2> QED BY <1>1, <1>2, <2>1, <2>2
<1>5. CASE later # {}
  <2>1. at \in later /\ \A j \in later : at <= j
    BY <1>3, <1>5
  <2> HIDE DEF at
  <2>2. at \in 1 .. Len(list) /\ Difference(list[at].expires, millis) > 0
    BY <1>1, <2>1
  <2>3. ASSUME NEW i \in 1 .. at - 1 PROVE ~(Difference(list[i].expires, millis) > 0)
    <3>1. i \in DOMAIN list /\ ~(at <= i)
      BY <1>1, <2>2
    <3> QED BY <2>1, <3>1
  <2>4. at \in 1 .. Len(list) + 1
    BY <1>1, <2>2
  <2> HIDE DEF later
  <2> QED BY <1>2, <2>2, <2>3, <2>4
<1> QED BY <1>4, <1>5

(* The rest of the list.                                                   *)
LEMMA TailFacts ==
    ASSUME NEW S, NEW s \in Seq(S), s # <<>>
    PROVE  /\ Tail(s) \in Seq(S) /\ Head(s) = s[1] /\ Len(s) > 0
           /\ Len(Tail(s)) = Len(s) - 1
           /\ \A j \in 1 .. Len(s) - 1 : Tail(s)[j] = s[j + 1]
OBVIOUS

-----------------------------------------------------------------------------
(* Times that lie at most late before a time and one of ahead after it can *)
(* be compared as CARD32s.                                                 *)
Near(late, ahead) ==
    /\ late \in Nat
    /\ \A p \in ahead : p \in Nat \ {0} /\ 2 * (late + p) < Wrap

(* A list of timers at a time: they expire as d says, neither too long ago *)
(* nor too far ahead, in order.                                            *)
InTime(T, late, ahead, list, d, tm) ==
    /\ list \in Seq(Entries(T))
    /\ \A i, j \in 1 .. Len(list) : list[i].timer = list[j].timer => i = j
    /\ \A i \in 1 .. Len(list) :
          /\ list[i].expires = Card(d[list[i].timer])
          /\ tm - late <= d[list[i].timer]
          /\ \E p \in ahead : d[list[i].timer] <= tm + p
    /\ \A i, j \in 1 .. Len(list) : i < j => d[list[i].timer] <= d[list[j].timer]

(* The timer is not in the list. *)
Absent(list, t) == \A i \in 1 .. Len(list) : list[i].timer # t

(* All of u is in the list. *)
PartOf(u, list) == \A i \in 1 .. Len(u) : \E j \in 1 .. Len(list) : u[i] = list[j]

(* d and e agree about the timers of the list. *)
Agree(list, d, e) == \A i \in 1 .. Len(list) : e[list[i].timer] = d[list[i].timer]

(* What is in l is due after tm, or was in the list and is due as it was. *)
LaterOrKept(l, e, list, d, tm) ==
    \A i \in 1 .. Len(l) :
        \/ e[l[i].timer] > tm
        \/ \E j \in 1 .. Len(list) : l[i] = list[j] /\ e[l[i].timer] = d[list[j].timer]

-----------------------------------------------------------------------------
(* What the entries of a list are *)
LEMMA EntryTypes ==
    ASSUME NEW T, NEW list \in Seq(Entries(T)), NEW i \in 1 .. Len(list)
    PROVE  list[i].timer \in T /\ list[i].expires \in 0 .. Wrap - 1
<1>1. list[i] \in Entries(T)
  BY ElementOfSeq
<1> QED BY <1>1 DEF Entries

(* TimerCancel leaves a list without the timer, in order ...               *)
LEMMA UnlinkInTime ==
    ASSUME NEW T, NEW late, NEW ahead, NEW list, NEW d, NEW tm, NEW t,
           InTime(T, late, ahead, list, d, tm)
    PROVE  /\ InTime(T, late, ahead, Unlinked(list, t), d, tm)
           /\ Absent(Unlinked(list, t), t)
           /\ PartOf(Unlinked(list, t), list)
<1> DEFINE u == Unlinked(list, t)
<1>1. list \in Seq(Entries(T)) /\ Len(list) \in Nat
  BY DEF InTime
<1>2. CASE u = list /\ \A i \in 1 .. Len(list) : list[i].timer # t
  <2> HIDE DEF u
  <2>1. InTime(T, late, ahead, u, d, tm)
    BY <1>2
  <2>2. \A i \in 1 .. Len(u) : u[i].timer # t /\ \E j \in 1 .. Len(list) : u[i] = list[j]
    BY <1>2
  <2> QED BY <2>1, <2>2 DEF u, Absent, PartOf
<1>3. ASSUME NEW k \in 1 .. Len(list), list[k].timer = t, u = RemoveAt(list, k)
      PROVE  /\ InTime(T, late, ahead, u, d, tm)
             /\ \A i \in 1 .. Len(u) : u[i].timer # t /\ \E j \in 1 .. Len(list) : u[i] = list[j]
  <2> HIDE DEF u
  <2>1. /\ u \in Seq(Entries(T)) /\ Len(u) = Len(list) - 1
        /\ \A j \in 1 .. Len(list) - 1 : u[j] = IF j < k THEN list[j] ELSE list[j + 1]
    BY <1>1, <1>3, RemoveFacts
  <2> DEFINE at(i) == IF i < k THEN i ELSE i + 1
  <2>2. ASSUME NEW i \in 1 .. Len(u)
        PROVE  at(i) \in 1 .. Len(list) /\ at(i) # k /\ u[i] = list[at(i)]
    BY <1>1, <2>1
  <2>3. ASSUME NEW i \in 1 .. Len(u), NEW j \in 1 .. Len(u)
        PROVE  /\ i < j => at(i) < at(j)
               /\ at(i) = at(j) => i = j
    BY <1>1, <2>1
  <2> HIDE DEF at
  <2>4. ASSUME NEW i \in 1 .. Len(u)
        PROVE  u[i].timer # t /\ \E j \in 1 .. Len(list) : u[i] = list[j]
    <3>1. list[at(i)].timer # t
      BY <1>3, <2>2 DEF InTime
    <3> QED BY <3>1, <2>2
  <2>5. ASSUME NEW i \in 1 .. Len(u)
        PROVE  /\ u[i].expires = Card(d[u[i].timer])
               /\ tm - late <= d[u[i].timer]
               /\ \E p \in ahead : d[u[i].timer] <= tm + p
    <3>1. \A j \in 1 .. Len(list) :
             /\ list[j].expires = Card(d[list[j].timer])
             /\ tm - late <= d[list[j].timer]
             /\ \E p \in ahead : d[list[j].timer] <= tm + p
      BY DEF InTime
    <3> QED BY <2>2, <3>1, Zenon
  <2>6. ASSUME NEW i \in 1 .. Len(u), NEW j \in 1 .. Len(u)
        PROVE  /\ u[i].timer = u[j].timer => i = j
               /\ i < j => d[u[i].timer] <= d[u[j].timer]
    BY <2>2, <2>3 DEF InTime
  <2> QED BY <2>1, <2>4, <2>5, <2>6 DEF InTime
<1>4. ASSUME InTime(T, late, ahead, u, d, tm),
             \A i \in 1 .. Len(u) : u[i].timer # t /\ \E j \in 1 .. Len(list) : u[i] = list[j]
      PROVE  InTime(T, late, ahead, u, d, tm) /\ Absent(u, t) /\ PartOf(u, list)
  <2> HIDE DEF u
  <2> QED BY <1>4 DEF Absent, PartOf
<1> QED BY <1>1, <1>2, <1>3, <1>4, UnlinkedFacts

(* ... and the loop over the timers takes the first one out.               *)
LEMMA TailInTime ==
    ASSUME NEW T, NEW late, NEW ahead, NEW list, NEW d, NEW tm,
           InTime(T, late, ahead, list, d, tm), list # <<>>
    PROVE  /\ InTime(T, late, ahead, Tail(list), d, tm)
           /\ Len(list) > 0 /\ Head(list) = list[1] /\ list[1].timer \in T
           /\ Absent(Tail(list), list[1].timer)
           /\ PartOf(Tail(list), list)
<1>1. list \in Seq(Entries(T)) /\ Len(list) \in Nat
  BY DEF InTime
<1> DEFINE u == Tail(list)
<1>2. /\ u \in Seq(Entries(T)) /\ Head(list) = list[1] /\ Len(list) > 0
      /\ Len(u) = Len(list) - 1
      /\ \A j \in 1 .. Len(list) - 1 : u[j] = list[j + 1]
  BY <1>1, TailFacts
<1>3. list[1].timer \in T
  <2>1. 1 \in 1 .. Len(list)
    BY <1>1, <1>2
  <2> QED BY <1>1, <2>1, EntryTypes
<1> HIDE DEF u
<1>4. ASSUME NEW i \in 1 .. Len(u)
      PROVE  i + 1 \in 1 .. Len(list) /\ i + 1 # 1 /\ u[i] = list[i + 1]
  BY <1>1, <1>2
<1>5. ASSUME NEW i \in 1 .. Len(u)
      PROVE  u[i].timer # list[1].timer /\ \E j \in 1 .. Len(list) : u[i] = list[j]
  <2>1. 1 \in 1 .. Len(list)
    BY <1>1, <1>2
  <2>2. list[i + 1].timer # list[1].timer
    BY <1>4, <2>1 DEF InTime
  <2> QED BY <1>4, <2>2
<1>6. ASSUME NEW i \in 1 .. Len(u)
      PROVE  /\ u[i].expires = Card(d[u[i].timer])
             /\ tm - late <= d[u[i].timer]
             /\ \E p \in ahead : d[u[i].timer] <= tm + p
  BY <1>4 DEF InTime
<1>7. ASSUME NEW i \in 1 .. Len(u), NEW j \in 1 .. Len(u)
      PROVE  /\ u[i].timer = u[j].timer => i = j
             /\ i < j => d[u[i].timer] <= d[u[j].timer]
  <2>1. (i + 1 = j + 1 => i = j) /\ (i < j => i + 1 < j + 1)
    BY <1>2
  <2> QED BY <1>4, <2>1 DEF InTime
<1>8. InTime(T, late, ahead, u, d, tm)
  BY <1>2, <1>6, <1>7 DEF InTime
<1>9. Absent(u, list[1].timer) /\ PartOf(u, list)
  BY <1>5 DEF Absent, PartOf
<1> QED BY <1>2, <1>3, <1>8, <1>9 DEF u

(* A timer that is not in the list may be given any time.                  *)
LEMMA ExceptInTime ==
    ASSUME NEW T, NEW late, NEW ahead, NEW list, NEW d, NEW tm, NEW t,
           InTime(T, late, ahead, list, d, tm), Absent(list, t),
           NEW e, \A s \in T \ {t} : e[s] = d[s]
    PROVE  InTime(T, late, ahead, list, e, tm) /\ Agree(list, d, e)
<1>1. \A i \in 1 .. Len(list) : list[i].timer \in T
  <2>1. list \in Seq(Entries(T))
    BY DEF InTime
  <2> QED BY <2>1, EntryTypes
<1>2. \A i \in 1 .. Len(list) : e[list[i].timer] = d[list[i].timer]
  BY <1>1 DEF Absent
<1>3. InTime(T, late, ahead, list, e, tm)
  BY <1>2 DEF InTime
<1> QED BY <1>2, <1>3 DEF Agree

(* TimerSet links the timer in where it is due.                            *)
LEMMA LinkInTime ==
    ASSUME NEW T, NEW late, NEW ahead, NEW list, NEW d \in [T -> Nat],
           NEW tm \in Nat, NEW t \in T,
           NEW p \in ahead, Near(late, ahead), InTime(T, late, ahead, list, d, tm), Absent(list, t),
           NEW e \in [T -> Nat], NEW x, NEW l
    PROVE  /\ e[t] = tm + p /\ \A s \in T \ {t} : e[s] = d[s]
           /\ x = Card(tm + p)
           /\ l = Linked(list, t, x, x)
           => InTime(T, late, ahead, l, e, tm) /\ LaterOrKept(l, e, list, d, tm)
<1>a. SUFFICES ASSUME e[t] = tm + p, \A s \in T \ {t} : e[s] = d[s],
                      x = Card(tm + p), l = Linked(list, t, x, x)
               PROVE  InTime(T, late, ahead, l, e, tm) /\ LaterOrKept(l, e, list, d, tm)
  OBVIOUS
<1> DEFINE r == [timer |-> t, expires |-> x]
<1>1. p \in Nat \ {0} /\ late \in Nat /\ Wrap \in Nat
  BY TimerListAssumption DEF Near
<1>2. x \in 0 .. Wrap - 1 /\ x \in Int
  <2>1. tm + p \in Int
    BY <1>1
  <2>2. x \in 0 .. Wrap - 1
    BY <2>1, <1>a, CardType
  <2> QED BY <1>1, <2>2
<1>3. list \in Seq(Entries(T)) /\ Len(list) \in Nat
  BY DEF InTime
<1>4. InTime(T, late, ahead, list, e, tm) /\ \A i \in 1 .. Len(list) : e[list[i].timer] = d[list[i].timer]
  BY <1>a, ExceptInTime DEF Agree
<1>b. /\ \A i, j \in 1 .. Len(list) : list[i].timer = list[j].timer => i = j
      /\ \A i \in 1 .. Len(list) : list[i].timer # t
  BY DEF InTime, Absent
<1>c. \A i \in 1 .. Len(list) :
          /\ list[i].expires = Card(e[list[i].timer])
          /\ tm - late <= e[list[i].timer]
          /\ \E q \in ahead : e[list[i].timer] <= tm + q
  BY <1>4 DEF InTime
<1>d. \A i, j \in 1 .. Len(list) : i < j => e[list[i].timer] <= e[list[j].timer]
  BY <1>4 DEF InTime
<1>5. e[t] = tm + p
  BY <1>a
<1>6. \A i \in 1 .. Len(list) : list[i].timer \in T
  BY <1>3, EntryTypes
<1>7. e \in [T -> Nat]
  OBVIOUS
<1>8. x = Card(tm + p) /\ r.timer = t /\ r.expires = x
  BY <1>a
<1>9. r \in Entries(T)
  BY <1>2 DEF Entries
<1>10. PICK at \in 1 .. Len(list) + 1 :
          /\ l = InsertAt(list, at, r)
          /\ \A i \in 1 .. at - 1 : ~(Difference(list[i].expires, x) > 0)
          /\ at <= Len(list) => Difference(list[at].expires, x) > 0
  <2>1. \E at \in 1 .. Len(list) + 1 :
           /\ Linked(list, t, x, x) = InsertAt(list, at, r)
           /\ \A i \in 1 .. at - 1 : ~(Difference(list[i].expires, x) > 0)
           /\ at <= Len(list) => Difference(list[at].expires, x) > 0
    BY <1>2, <1>3, LinkedFacts
  <2> QED BY <2>1, <1>a
<1> HIDE DEF r
<1>11. ASSUME NEW i \in 1 .. Len(list)
       PROVE  Difference(list[i].expires, x) = e[list[i].timer] - (tm + p)
  <2>1. PICK q \in ahead : e[list[i].timer] <= tm + q
    BY <1>c
  <2>2. list[i].expires = Card(e[list[i].timer]) /\ tm - late <= e[list[i].timer]
    BY <1>c
  <2>3. PICK a \in Int : a = e[list[i].timer]
    BY <1>6, <1>7
  <2>4. 2 * (late + p) < Wrap /\ 2 * (late + q) < Wrap /\ q \in Nat
    BY DEF Near
  <2>a. a <= tm + q /\ tm - late <= a
    BY <2>1, <2>2, <2>3
  <2>5. -Wrap < 2 * (a - (tm + p)) /\ 2 * (a - (tm + p)) < Wrap
    BY <1>1, <2>4, <2>a
  <2>6. Difference(Card(a), Card(tm + p)) = a - (tm + p)
    BY <1>1, <2>5, DifferenceFacts
  <2> QED BY <1>8, <2>2, <2>3, <2>6
<1>12. /\ l \in Seq(Entries(T)) /\ Len(l) = Len(list) + 1
       /\ \A j \in 1 .. Len(list) + 1 :
             l[j] = IF j < at THEN list[j] ELSE IF j = at THEN r ELSE list[j - 1]
  <2>1. l = InsertAt(list, at, r)
    BY <1>10
  <2>a. PICK S : S = Entries(T)
    OBVIOUS
  <2>2. list \in Seq(S) /\ r \in S
    BY <1>3, <1>9, <2>a
  <2>3. /\ InsertAt(list, at, r) \in Seq(S)
        /\ Len(InsertAt(list, at, r)) = Len(list) + 1
        /\ \A j \in 1 .. Len(list) + 1 :
              InsertAt(list, at, r)[j]
                  = IF j < at THEN list[j] ELSE IF j = at THEN r ELSE list[j - 1]
    BY <2>2, InsertFacts
  <2> QED BY <2>1, <2>3, <2>a
<1> DEFINE from(j) == IF j < at THEN j ELSE j - 1
<1>13. ASSUME NEW j \in 1 .. Len(l)
       PROVE  \/ j = at /\ l[j] = r
              \/ j # at /\ from(j) \in 1 .. Len(list) /\ l[j] = list[from(j)]
  BY <1>3, <1>12
<1>14. ASSUME NEW i \in 1 .. Len(l), NEW j \in 1 .. Len(l), i # at, j # at
       PROVE  /\ from(i) = from(j) => i = j
              /\ i < j => from(i) < from(j)
  BY <1>3, <1>12, <1>14
<1>15. ASSUME NEW i \in 1 .. Len(l), i < at
       PROVE  e[l[i].timer] <= tm + p
  <2>1. i \in 1 .. at - 1 /\ i \in 1 .. Len(list) /\ l[i] = list[i]
    BY <1>3, <1>12, <1>15
  <2>2. ~(e[list[i].timer] - (tm + p) > 0)
    BY <1>10, <1>11, <2>1
  <2>3. e[list[i].timer] \in Nat
    BY <1>6, <1>7, <2>1
  <2> QED BY <1>1, <2>1, <2>2, <2>3
<1>16. ASSUME NEW i \in 1 .. Len(l), at < i
       PROVE  tm + p <= e[l[i].timer]
  <2>1. i - 1 \in 1 .. Len(list) /\ at \in 1 .. Len(list) /\ l[i] = list[i - 1] /\ at <= i - 1
    BY <1>3, <1>12, <1>16
  <2>2. e[list[at].timer] - (tm + p) > 0
    BY <1>10, <1>11, <2>1
  <2>3. e[list[at].timer] \in Nat /\ e[list[i - 1].timer] \in Nat
    BY <1>6, <1>7, <2>1
  <2>4. PICK a \in Nat, b \in Nat : a = e[list[at].timer] /\ b = e[list[i - 1].timer]
    BY <2>3
  <2>5. a <= b
    <3>1. CASE at = i - 1
      BY <2>4, <3>1
    <3>2. CASE at < i - 1
      BY <1>d, <2>1, <2>4, <3>2
    <3> QED BY <2>1, <3>1, <3>2
  <2>6. tm + p <= b
    <3>1. a - (tm + p) > 0
      BY <2>2, <2>4
    <3>2. tm + p \in Nat
      BY <1>1
    <3> QED BY <2>5, <3>1, <3>2
  <2> QED BY <2>1, <2>4, <2>6
<1> HIDE DEF from
<1>17. ASSUME NEW i \in 1 .. Len(l)
       PROVE  /\ l[i].expires = Card(e[l[i].timer])
              /\ tm - late <= e[l[i].timer]
              /\ \E q \in ahead : e[l[i].timer] <= tm + q
  <2>1. CASE l[i] = r
    BY <1>1, <1>5, <1>8, <2>1
  <2>2. CASE from(i) \in 1 .. Len(list) /\ l[i] = list[from(i)]
    BY <1>c, <2>2
  <2> QED BY <1>13, <2>1, <2>2
<1>18. ASSUME NEW i \in 1 .. Len(l), NEW j \in 1 .. Len(l)
       PROVE  l[i].timer = l[j].timer => i = j
  <2>1. CASE i # at /\ j # at
    BY <1>b, <1>13, <1>14, <2>1
  <2>2. CASE i = at /\ j # at
    BY <1>8, <1>b, <1>13, <2>2
  <2>3. CASE i # at /\ j = at
    BY <1>8, <1>b, <1>13, <2>3
  <2> QED BY <2>1, <2>2, <2>3
<1>19. ASSUME NEW i \in 1 .. Len(l), NEW j \in 1 .. Len(l), i < j
       PROVE  e[l[i].timer] <= e[l[j].timer]
  <2>1. CASE i # at /\ j # at
    BY <1>d, <1>13, <1>14, <1>19, <2>1
  <2>2. CASE i = at
    BY <1>5, <1>8, <1>13, <1>16, <1>19, <2>2
  <2>3. CASE j = at
    BY <1>5, <1>8, <1>13, <1>15, <1>19, <2>3
  <2> QED BY <2>1, <2>2, <2>3
<1>20. InTime(T, late, ahead, l, e, tm)
  BY <1>12, <1>17, <1>18, <1>19 DEF InTime
<1>21. ASSUME NEW i \in 1 .. Len(l)
       PROVE  \/ e[l[i].timer] > tm
              \/ \E j \in 1 .. Len(list) : l[i] = list[j] /\ e[l[i].timer] = d[list[j].timer]
  <2>1. CASE l[i] = r
    BY <1>1, <1>5, <1>8, <2>1
  <2>2. CASE from(i) \in 1 .. Len(list) /\ l[i] = list[from(i)]
    BY <1>4, <2>2
  <2> QED BY <1>13, <2>1, <2>2
<1> QED BY <1>20, <1>21 DEF LaterOrKept

(* TimerSet with a time that is not over does what TimerCancel does and    *)
(* links the timer in.                                                     *)
LEMMA SetInTime ==
    ASSUME NEW T, NEW late, NEW ahead, NEW list, NEW d \in [T -> Nat],
           NEW tm \in Nat, NEW t \in T, NEW p \in ahead,
           Near(late, ahead), InTime(T, late, ahead, list, d, tm),
           NEW e \in [T -> Nat], NEW again
    PROVE  /\ e[t] = tm + p
           /\ \A s \in T \ {t} : e[s] = d[s]
           => /\ InTime(T, late, ahead, TimerSet(list, t, p, Card(tm), again), e, tm)
              /\ LaterOrKept(TimerSet(list, t, p, Card(tm), again), e, list, d, tm)
<1>a. SUFFICES ASSUME e[t] = tm + p, \A s \in T \ {t} : e[s] = d[s]
               PROVE  /\ InTime(T, late, ahead, TimerSet(list, t, p, Card(tm), again), e, tm)
                      /\ LaterOrKept(TimerSet(list, t, p, Card(tm), again), e, list, d, tm)
  OBVIOUS
<1>1. PICK u : u = Unlinked(list, t)
  OBVIOUS
<1>2. InTime(T, late, ahead, u, d, tm) /\ Absent(u, t) /\ PartOf(u, list)
  BY <1>1, UnlinkInTime
<1>3. p \in Nat \ {0} /\ 2 * p < Wrap
  BY TimerListAssumption DEF Near
<1>4. Card(tm) \in Int
  BY TimerListAssumption DEF Card
<1>5. ~IsOver(p, Card(tm))
  BY <1>3, <1>4, NotOver
<1>6. Card(p + Card(tm)) = Card(tm + p)
  <2>1. (p + (tm % Wrap)) % Wrap = (tm + p) % Wrap
    <3>1. p \in Int /\ tm \in Int
      BY <1>3
    <3> QED BY <3>1, TimerListAssumption, RemainderOfSum, Zenon
  <2> QED BY <2>1 DEF Card
<1>7. PICK x : x = Card(tm + p)
  OBVIOUS
<1>8. PICK l : l = TimerSet(list, t, p, Card(tm), again)
  OBVIOUS
<1>9. l = Linked(u, t, x, x)
  BY <1>1, <1>3, <1>5, <1>6, <1>7, <1>8 DEF TimerSet
<1>10. InTime(T, late, ahead, l, e, tm) /\ LaterOrKept(l, e, u, d, tm)
  BY <1>a, <1>2, <1>7, <1>9, LinkInTime
<1>11. LaterOrKept(l, e, list, d, tm)
  BY <1>2, <1>10 DEF PartOf, LaterOrKept
<1> QED BY <1>8, <1>10, <1>11

(* The timer that is first in the list is due first.                       *)
LEMMA FirstInTime ==
    ASSUME NEW T, NEW late, NEW ahead, NEW list, NEW d \in [T -> Nat], NEW tm,
           InTime(T, late, ahead, list, d, tm), list # <<>>
    PROVE  /\ 1 \in 1 .. Len(list) /\ Head(list) = list[1]
           /\ d[list[1].timer] \in Nat
           /\ \A i \in 1 .. Len(list) :
                 d[list[i].timer] \in Nat /\ d[list[1].timer] <= d[list[i].timer]
<1>1. list \in Seq(Entries(T))
  BY DEF InTime
<1>2. Len(list) > 0 /\ Head(list) = list[1] /\ Len(list) \in Nat
  BY <1>1, TailFacts
<1>3. \A i \in 1 .. Len(list) : d[list[i].timer] \in Nat
  BY <1>1, EntryTypes
<1>4. ASSUME NEW i \in 1 .. Len(list) PROVE d[list[1].timer] <= d[list[i].timer]
  <2>1. CASE i = 1
    BY <1>3, <2>1
  <2>2. CASE 1 < i
    BY <1>2, <2>2 DEF InTime
  <2> QED BY <1>2, <2>1, <2>2
<1> QED BY <1>2, <1>3, <1>4

(* The loops over the timers stop where they should: the first timer is    *)
(* due when its time is not after the clock that the loop compares with.   *)
LEMMA FirstIsDueFacts ==
    ASSUME NEW T, NEW late, NEW ahead, NEW list, NEW d \in [T -> Nat], NEW tm \in Nat,
           Near(late, ahead), InTime(T, late, ahead, list, d, tm), list # <<>>,
           NEW look \in Nat, look <= tm, tm - look <= late
    PROVE  FirstIsDue(list, Card(look)) <=> d[list[1].timer] <= look
<1>1. 1 \in 1 .. Len(list) /\ Head(list) = list[1] /\ d[list[1].timer] \in Nat
  BY FirstInTime
<1>2. PICK a \in Nat : a = d[list[1].timer]
  BY <1>1
<1>3. list[1].expires = Card(a) /\ tm - late <= a
  BY <1>1, <1>2 DEF InTime
<1>4. PICK p \in ahead : a <= tm + p
  BY <1>1, <1>2 DEF InTime
<1>5. p \in Nat /\ late \in Nat /\ 2 * (late + p) < Wrap /\ Wrap \in Nat
  BY TimerListAssumption DEF Near
<1>6. -Wrap < 2 * (a - look) /\ 2 * (a - look) < Wrap
  BY <1>3, <1>4, <1>5
<1>7. Difference(list[1].expires, Card(look)) = a - look
  BY <1>3, <1>6, DifferenceFacts
<1>8. FirstIsDue(list, Card(look)) <=> a - look <= 0
  BY <1>1, <1>7 DEF FirstIsDue
<1> QED BY <1>2, <1>8

(* How long select() may wait at most: until the first timer is due.       *)
LEMMA TimeoutFacts ==
    ASSUME NEW T, NEW late, NEW ahead, NEW list, NEW d \in [T -> Nat], NEW tm \in Nat,
           Near(late, ahead), InTime(T, late, ahead, list, d, tm), list # <<>>
    PROVE  /\ tm + Timeout(list, Card(tm)) \in Nat
           /\ \/ tm + Timeout(list, Card(tm)) <= d[list[1].timer]
              \/ tm + Timeout(list, Card(tm)) <= tm
<1>1. 1 \in 1 .. Len(list) /\ Head(list) = list[1] /\ d[list[1].timer] \in Nat
  BY FirstInTime
<1>2. PICK a \in Nat : a = d[list[1].timer]
  BY <1>1
<1>3. list[1].expires = Card(a) /\ tm - late <= a
  BY <1>1, <1>2 DEF InTime
<1>4. PICK p \in ahead : a <= tm + p
  BY <1>1, <1>2 DEF InTime
<1>5. p \in Nat /\ late \in Nat /\ 2 * (late + p) < Wrap /\ Wrap \in Nat
  BY TimerListAssumption DEF Near
<1>6. -Wrap < 2 * (a - tm) /\ 2 * (a - tm) < Wrap
  BY <1>3, <1>4, <1>5
<1>7. Difference(list[1].expires, Card(tm)) = a - tm
  BY <1>3, <1>6, DifferenceFacts
<1>8. Timeout(list, Card(tm)) = IF a - tm < 0 THEN 0 ELSE a - tm
  BY <1>1, <1>7 DEF Timeout
<1> QED BY <1>2, <1>8

-----------------------------------------------------------------------------
(* Whatever the times: a list of timers in which each is at most once.     *)
Listed(T, list) ==
    /\ list \in Seq(Entries(T))
    /\ \A i, j \in 1 .. Len(list) : list[i].timer = list[j].timer => i = j

(* What is in l is for t, or was in the list. *)
KeptOr(t, l, list) ==
    \A i \in 1 .. Len(l) : l[i].timer = t \/ \E j \in 1 .. Len(list) : l[i] = list[j]

LEMMA UnlinkListed ==
    ASSUME NEW T, NEW list, NEW t, Listed(T, list)
    PROVE  /\ Listed(T, Unlinked(list, t))
           /\ Absent(Unlinked(list, t), t)
           /\ PartOf(Unlinked(list, t), list)
<1>1. list \in Seq(Entries(T)) /\ Len(list) \in Nat
  BY DEF Listed
<1> DEFINE u == Unlinked(list, t)
<1>2. ASSUME u = list, \A i \in 1 .. Len(list) : list[i].timer # t
      PROVE  Listed(T, u) /\ Absent(u, t) /\ PartOf(u, list)
  <2> HIDE DEF u
  <2> QED BY <1>2 DEF Absent, PartOf
<1>3. ASSUME NEW k \in 1 .. Len(list), list[k].timer = t, u = RemoveAt(list, k)
      PROVE  Listed(T, u) /\ Absent(u, t) /\ PartOf(u, list)
  <2> HIDE DEF u
  <2>1. /\ u \in Seq(Entries(T)) /\ Len(u) = Len(list) - 1
        /\ \A j \in 1 .. Len(list) - 1 : u[j] = IF j < k THEN list[j] ELSE list[j + 1]
    BY <1>1, <1>3, RemoveFacts
  <2> DEFINE at(i) == IF i < k THEN i ELSE i + 1
  <2>2. ASSUME NEW i \in 1 .. Len(u)
        PROVE  at(i) \in 1 .. Len(list) /\ at(i) # k /\ u[i] = list[at(i)]
    BY <1>1, <2>1
  <2>3. ASSUME NEW i \in 1 .. Len(u), NEW j \in 1 .. Len(u), at(i) = at(j)
        PROVE  i = j
    BY <1>1, <2>1, <2>3
  <2> HIDE DEF at
  <2>4. \A i, j \in 1 .. Len(list) : list[i].timer = list[j].timer => i = j
    BY DEF Listed
  <2>5. \A i \in 1 .. Len(u) : u[i].timer # t
    BY <1>3, <2>2, <2>4
  <2>6. \A i, j \in 1 .. Len(u) : u[i].timer = u[j].timer => i = j
    BY <2>2, <2>3, <2>4
  <2>7. \A i \in 1 .. Len(u) : \E j \in 1 .. Len(list) : u[i] = list[j]
    BY <2>2
  <2> QED BY <2>1, <2>5, <2>6, <2>7 DEF Listed, Absent, PartOf
<1> HIDE DEF u
<1>4. \/ (\A i \in 1 .. Len(list) : list[i].timer # t) /\ u = list
      \/ \E k \in 1 .. Len(list) : list[k].timer = t /\ u = RemoveAt(list, k)
  <2>1. PICK v : v = Unlinked(list, t)
    OBVIOUS
  <2>2. \/ (\A i \in 1 .. Len(list) : list[i].timer # t) /\ v = list
        \/ \E k \in 1 .. Len(list) : list[k].timer = t /\ v = RemoveAt(list, k)
    BY <1>1, <2>1, UnlinkedFacts
  <2>3. u = v
    BY <2>1 DEF u
  <2> QED BY <2>2, <2>3
<1>5. Listed(T, u) /\ Absent(u, t) /\ PartOf(u, list)
  BY <1>2, <1>3, <1>4
<1> QED BY <1>5 DEF u

LEMMA TailListed ==
    ASSUME NEW T, NEW list, Listed(T, list), list # <<>>
    PROVE  /\ Listed(T, Tail(list))
           /\ Head(list) = list[1] /\ 1 \in 1 .. Len(list) /\ list[1].timer \in T
           /\ Absent(Tail(list), list[1].timer)
           /\ PartOf(Tail(list), list)
<1>1. list \in Seq(Entries(T)) /\ Len(list) \in Nat
  BY DEF Listed
<1> DEFINE u == Tail(list)
<1>2. /\ u \in Seq(Entries(T)) /\ Head(list) = list[1] /\ Len(list) > 0
      /\ Len(u) = Len(list) - 1
      /\ \A j \in 1 .. Len(list) - 1 : u[j] = list[j + 1]
  BY <1>1, TailFacts
<1> HIDE DEF u
<1>3. 1 \in 1 .. Len(list) /\ list[1].timer \in T
  <2>1. 1 \in 1 .. Len(list)
    BY <1>1, <1>2
  <2> QED BY <1>1, <2>1, EntryTypes
<1>4. ASSUME NEW i \in 1 .. Len(u)
      PROVE  i + 1 \in 1 .. Len(list) /\ i + 1 # 1 /\ u[i] = list[i + 1]
  BY <1>1, <1>2
<1>5. \A i, j \in 1 .. Len(list) : list[i].timer = list[j].timer => i = j
  BY DEF Listed
<1>6. ASSUME NEW i \in 1 .. Len(u), NEW j \in 1 .. Len(u), u[i].timer = u[j].timer
      PROVE  i = j
  <2>1. i + 1 = j + 1
    BY <1>4, <1>5, <1>6
  <2> QED BY <1>2, <2>1
<1>7. \A i \in 1 .. Len(u) : u[i].timer # list[1].timer
  BY <1>3, <1>4, <1>5
<1>8. Listed(T, u) /\ Absent(u, list[1].timer) /\ PartOf(u, list)
  BY <1>2, <1>4, <1>6, <1>7 DEF Listed, Absent, PartOf
<1> QED BY <1>2, <1>3, <1>8 DEF u

LEMMA LinkListed ==
    ASSUME NEW T, NEW list, NEW t \in T, Listed(T, list), Absent(list, t),
           NEW expires \in 0 .. Wrap - 1, NEW millis \in Int
    PROVE  /\ Listed(T, Linked(list, t, expires, millis))
           /\ KeptOr(t, Linked(list, t, expires, millis), list)
<1> DEFINE r == [timer |-> t, expires |-> expires]
<1>1. list \in Seq(Entries(T)) /\ Len(list) \in Nat
  BY DEF Listed
<1>2. r \in Entries(T) /\ r.timer = t
  BY DEF Entries
<1> HIDE DEF r
<1>3. PICK l : l = Linked(list, t, expires, millis)
  OBVIOUS
<1>4. PICK at \in 1 .. Len(list) + 1 : l = InsertAt(list, at, r)
  <2>1. \E at \in 1 .. Len(list) + 1 : l = InsertAt(list, at, [timer |-> t, expires |-> expires])
    BY <1>1, <1>3, LinkedFacts
  <2>2. r = [timer |-> t, expires |-> expires]
    BY DEF r
  <2> QED BY <2>1, <2>2
<1>5. /\ InsertAt(list, at, r) \in Seq(Entries(T))
      /\ Len(InsertAt(list, at, r)) = Len(list) + 1
      /\ \A j \in 1 .. Len(list) + 1 :
             InsertAt(list, at, r)[j]
                 = IF j < at THEN list[j] ELSE IF j = at THEN r ELSE list[j - 1]
  <2>1. PICK S : S = Entries(T)
    OBVIOUS
  <2>2. list \in Seq(S) /\ r \in S
    BY <1>1, <1>2, <2>1
  <2>3. /\ InsertAt(list, at, r) \in Seq(S)
        /\ Len(InsertAt(list, at, r)) = Len(list) + 1
        /\ \A j \in 1 .. Len(list) + 1 :
             InsertAt(list, at, r)[j]
                 = IF j < at THEN list[j] ELSE IF j = at THEN r ELSE list[j - 1]
    BY <2>2, InsertFacts
  <2> QED BY <2>1, <2>3
<1>6. /\ l \in Seq(Entries(T)) /\ Len(l) = Len(list) + 1
      /\ \A j \in 1 .. Len(list) + 1 :
             l[j] = IF j < at THEN list[j] ELSE IF j = at THEN r ELSE list[j - 1]
  BY <1>4, <1>5
<1> DEFINE from(j) == IF j < at THEN j ELSE j - 1
<1>7. ASSUME NEW j \in 1 .. Len(l)
      PROVE  \/ j = at /\ l[j] = r
             \/ j # at /\ from(j) \in 1 .. Len(list) /\ l[j] = list[from(j)]
  BY <1>1, <1>6
<1>8. ASSUME NEW i \in 1 .. Len(l), NEW j \in 1 .. Len(l), i # at, j # at, from(i) = from(j)
      PROVE  i = j
  BY <1>1, <1>6, <1>8
<1> HIDE DEF from
<1>9. /\ \A i, j \in 1 .. Len(list) : list[i].timer = list[j].timer => i = j
      /\ \A i \in 1 .. Len(list) : list[i].timer # t
  BY DEF Listed, Absent
<1>10. ASSUME NEW i \in 1 .. Len(l), NEW j \in 1 .. Len(l), l[i].timer = l[j].timer
       PROVE  i = j
  <2>1. CASE i # at /\ j # at
    BY <1>7, <1>8, <1>9, <1>10, <2>1
  <2>2. CASE i = at /\ j # at
    BY <1>2, <1>7, <1>9, <1>10, <2>2
  <2>3. CASE i # at /\ j = at
    BY <1>2, <1>7, <1>9, <1>10, <2>3
  <2> QED BY <2>1, <2>2, <2>3
<1>11. \A i \in 1 .. Len(l) : l[i].timer = t \/ \E j \in 1 .. Len(list) : l[i] = list[j]
  BY <1>2, <1>7
<1> QED BY <1>3, <1>6, <1>10, <1>11 DEF Listed, KeptOr

(* Whatever TimerSet does, it leaves each timer at most once in the list,  *)
(* and the timer of a callback that wants no other time not at all.        *)
LEMMA SetListed ==
    ASSUME NEW T, NEW list, NEW t \in T, Listed(T, list),
           NEW millis \in Nat, NEW now \in Int, NEW again \in Nat
    PROVE  /\ Listed(T, TimerSet(list, t, millis, now, again))
           /\ KeptOr(t, TimerSet(list, t, millis, now, again), list)
           /\ IsOver(millis, now) /\ again = 0
              => Absent(TimerSet(list, t, millis, now, again), t)
           /\ millis = 0 => Absent(TimerSet(list, t, millis, now, again), t)
<1>1. PICK u : u = Unlinked(list, t)
  OBVIOUS
<1>2. Listed(T, u) /\ Absent(u, t) /\ PartOf(u, list)
  BY <1>1, UnlinkListed
<1>3. PICK l : l = TimerSet(list, t, millis, now, again)
  OBVIOUS
<1>4. PICK x : x = Card(millis + now)
  OBVIOUS
<1>5. x \in 0 .. Wrap - 1 /\ x \in Int
  <2>1. x \in 0 .. Wrap - 1
    BY <1>4, CardType
  <2> QED BY <2>1, TimerListAssumption
<1>6. l = IF millis = 0 THEN u
          ELSE IF ~IsOver(millis, now) THEN Linked(u, t, x, x)
          ELSE IF again = 0 THEN u
          ELSE Linked(u, t, x, again)
  BY <1>1, <1>3, <1>4 DEF TimerSet
<1>7. CASE l = u
  <2>1. Listed(T, l) /\ Absent(l, t) /\ KeptOr(t, l, list)
    BY <1>2, <1>7 DEF PartOf, KeptOr
  <2> QED BY <1>3, <2>1
<1>8. ASSUME NEW m \in Int, l = Linked(u, t, x, m), ~(millis = 0), ~(IsOver(millis, now) /\ again = 0)
      PROVE  Listed(T, l) /\ KeptOr(t, l, list)
  <2>1. Listed(T, l) /\ KeptOr(t, l, u)
    BY <1>2, <1>5, <1>8, LinkListed
  <2>2. KeptOr(t, l, list)
    BY <1>2, <2>1 DEF PartOf, KeptOr
  <2> QED BY <2>1, <2>2
<1> QED BY <1>3, <1>5, <1>6, <1>7, <1>8

(* No other timer comes or goes when one is taken out or put in.           *)
OthersStay(t, l, list) == \A b : b # t => (Absent(l, b) <=> Absent(list, b))

LEMMA UnlinkOthers ==
    ASSUME NEW T, NEW list, NEW t, Listed(T, list)
    PROVE  OthersStay(t, Unlinked(list, t), list)
<1>1. list \in Seq(Entries(T)) /\ Len(list) \in Nat
  BY DEF Listed
<1>2. PICK u : u = Unlinked(list, t)
  OBVIOUS
<1>3. PartOf(u, list)
  BY <1>2, UnlinkListed
<1>4. \/ u = list
      \/ \E k \in 1 .. Len(list) : list[k].timer = t /\ u = RemoveAt(list, k)
  BY <1>1, <1>2, UnlinkedFacts
<1>5. ASSUME NEW i \in 1 .. Len(list), list[i].timer # t
      PROVE  \E j \in 1 .. Len(u) : u[j] = list[i]
  <2>1. CASE u = list
    BY <2>1
  <2>2. ASSUME NEW k \in 1 .. Len(list), list[k].timer = t, u = RemoveAt(list, k)
        PROVE  \E j \in 1 .. Len(u) : u[j] = list[i]
    <3>1. /\ u \in Seq(Entries(T)) /\ Len(u) = Len(list) - 1
          /\ \A j \in 1 .. Len(list) - 1 : u[j] = IF j < k THEN list[j] ELSE list[j + 1]
      BY <1>1, <2>2, RemoveFacts
    <3>2. i # k
      BY <1>5, <2>2
    <3>3. CASE i < k
      <4>1. i \in 1 .. Len(u) /\ u[i] = list[i]
        BY <1>1, <3>1, <3>3
      <4> QED BY <4>1
    <3>4. CASE k < i
      <4>1. i - 1 \in 1 .. Len(u) /\ u[i - 1] = list[i]
        BY <1>1, <3>1, <3>4
      <4> QED BY <4>1
    <3> QED BY <1>1, <3>2, <3>3, <3>4
  <2> QED BY <1>4, <2>1, <2>2
<1>6. ASSUME NEW b, b # t PROVE Absent(u, b) <=> Absent(list, b)
  <2>1. ASSUME Absent(list, b) PROVE Absent(u, b)
    BY <1>3, <2>1 DEF Absent, PartOf
  <2>2. ASSUME Absent(u, b) PROVE Absent(list, b)
    BY <1>5, <1>6, <2>2 DEF Absent
  <2> QED BY <2>1, <2>2
<1> QED BY <1>2, <1>6 DEF OthersStay

LEMMA TailOthers ==
    ASSUME NEW T, NEW list, Listed(T, list), list # <<>>
    PROVE  OthersStay(list[1].timer, Tail(list), list)
<1>1. list \in Seq(Entries(T)) /\ Len(list) \in Nat
  BY DEF Listed
<1>2. PICK u : u = Tail(list)
  OBVIOUS
<1>3. /\ Len(u) = Len(list) - 1 /\ Len(list) > 0
      /\ \A j \in 1 .. Len(list) - 1 : u[j] = list[j + 1]
  BY <1>1, <1>2, TailFacts
<1>4. PartOf(u, list)
  BY <1>2, TailListed
<1>5. ASSUME NEW i \in 1 .. Len(list), i # 1
      PROVE  \E j \in 1 .. Len(u) : u[j] = list[i]
  <2>1. i - 1 \in 1 .. Len(u) /\ u[i - 1] = list[i]
    BY <1>1, <1>3, <1>5
  <2> QED BY <2>1
<1>6. ASSUME NEW b, b # list[1].timer PROVE Absent(u, b) <=> Absent(list, b)
  <2>1. ASSUME Absent(list, b) PROVE Absent(u, b)
    BY <1>4, <2>1 DEF Absent, PartOf
  <2>2. ASSUME Absent(u, b) PROVE Absent(list, b)
    BY <1>5, <1>6, <2>2 DEF Absent
  <2> QED BY <2>1, <2>2
<1> QED BY <1>2, <1>6 DEF OthersStay

LEMMA LinkOthers ==
    ASSUME NEW T, NEW list, NEW t \in T, Listed(T, list), Absent(list, t),
           NEW expires \in 0 .. Wrap - 1, NEW millis \in Int
    PROVE  /\ OthersStay(t, Linked(list, t, expires, millis), list)
           /\ ~Absent(Linked(list, t, expires, millis), t)
<1> DEFINE r == [timer |-> t, expires |-> expires]
<1>1. list \in Seq(Entries(T)) /\ Len(list) \in Nat
  BY DEF Listed
<1>2. r \in Entries(T) /\ r.timer = t
  BY DEF Entries
<1> HIDE DEF r
<1>3. PICK l : l = Linked(list, t, expires, millis)
  OBVIOUS
<1>4. PICK at \in 1 .. Len(list) + 1 : l = InsertAt(list, at, r)
  <2>1. \E at \in 1 .. Len(list) + 1 : l = InsertAt(list, at, [timer |-> t, expires |-> expires])
    BY <1>1, <1>3, LinkedFacts
  <2>2. r = [timer |-> t, expires |-> expires]
    BY DEF r
  <2> QED BY <2>1, <2>2
<1>5. /\ Len(l) = Len(list) + 1
      /\ \A j \in 1 .. Len(list) + 1 :
             l[j] = IF j < at THEN list[j] ELSE IF j = at THEN r ELSE list[j - 1]
  <2>1. PICK S : S = Entries(T)
    OBVIOUS
  <2>2. list \in Seq(S) /\ r \in S
    BY <1>1, <1>2, <2>1
  <2>3. /\ Len(InsertAt(list, at, r)) = Len(list) + 1
        /\ \A j \in 1 .. Len(list) + 1 :
             InsertAt(list, at, r)[j]
                 = IF j < at THEN list[j] ELSE IF j = at THEN r ELSE list[j - 1]
    BY <2>2, InsertFacts
  <2> QED BY <1>4, <2>3
<1>6. at \in 1 .. Len(l) /\ l[at] = r
  BY <1>1, <1>5
<1>7. ASSUME NEW i \in 1 .. Len(list)
      PROVE  \E j \in 1 .. Len(l) : l[j] = list[i]
  <2>1. CASE i < at
    <3>1. i \in 1 .. Len(l) /\ l[i] = list[i]
      BY <1>1, <1>5, <2>1
    <3> QED BY <3>1
  <2>2. CASE at <= i
    <3>1. i + 1 \in 1 .. Len(l) /\ l[i + 1] = list[i]
      BY <1>1, <1>5, <2>2
    <3> QED BY <3>1
  <2> QED BY <1>1, <2>1, <2>2
<1>8. KeptOr(t, l, list)
  BY <1>3, LinkListed
<1>9. ASSUME NEW b, b # t PROVE Absent(l, b) <=> Absent(list, b)
  <2>1. ASSUME Absent(list, b) PROVE Absent(l, b)
    BY <1>8, <1>9, <2>1 DEF Absent, KeptOr
  <2>2. ASSUME Absent(l, b) PROVE Absent(list, b)
    BY <1>7, <2>2 DEF Absent
  <2> QED BY <2>1, <2>2
<1> QED BY <1>2, <1>3, <1>6, <1>9 DEF OthersStay, Absent

(* TimerSet with a time that is not over                                   *)
LEMMA SetOthers ==
    ASSUME NEW T, NEW list, NEW t \in T, Listed(T, list),
           NEW millis \in Nat \ {0}, NEW now \in Int, ~IsOver(millis, now), NEW again
    PROVE  /\ OthersStay(t, TimerSet(list, t, millis, now, again), list)
           /\ ~Absent(TimerSet(list, t, millis, now, again), t)
<1>1. PICK u : u = Unlinked(list, t)
  OBVIOUS
<1>2. Listed(T, u) /\ Absent(u, t) /\ OthersStay(t, u, list)
  BY <1>1, UnlinkListed, UnlinkOthers
<1>3. PICK x : x = Card(millis + now)
  OBVIOUS
<1>4. x \in 0 .. Wrap - 1 /\ x \in Int
  <2>1. x \in 0 .. Wrap - 1
    BY <1>3, CardType
  <2> QED BY <2>1, TimerListAssumption
<1>5. PICK l : l = TimerSet(list, t, millis, now, again)
  OBVIOUS
<1>6. l = Linked(u, t, x, x)
  BY <1>1, <1>3, <1>5 DEF TimerSet
<1>7. OthersStay(t, l, u) /\ ~Absent(l, t)
  BY <1>2, <1>4, <1>6, LinkOthers
<1>8. OthersStay(t, l, list)
  BY <1>2, <1>7 DEF OthersStay
<1> QED BY <1>5, <1>7, <1>8
=============================================================================

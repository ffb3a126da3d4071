--------------------------- MODULE Timers_proofs ---------------------------
(***************************************************************************)
(* Proofs about OsTimers: for any timers, periods and width of the clock,  *)
(* and however often the clock wraps, the list is in the order in which    *)
(* the timers are due, none is late when the loop over the timers ends,    *)
(* none runs early and select() does not sleep past one.                   *)
(* Then about Authorizations: users are counted, and an authorization that *)
(* has none is purged when its timeout is over, not before.                *)
(***************************************************************************)
EXTENDS OsTimers, Authorizations, TimerList_proofs, FiniteSetTheorems

(* The list at a time: no timer in it is later than MaxLate *)
TimedList(list, d, tm) == InTime(TimerIds, MaxLate, Periods, list, d, tm)

(* What WaitForSomething has seen of the timers *)
LookInv ==
    /\ lastLook <= time
    /\ pc # "timers" => \A i \in 1 .. Len(timers) : due[timers[i].timer] > lastLook
    /\ pc = "timers" => now = Card(lastLook) /\ time - lastLook <= MaxLate

IInv == TypeOK /\ TimedList(timers, due, time) /\ LookInv /\ NeverOversleeps

-----------------------------------------------------------------------------
(* Lateness and periods together are below half the clock.                 *)
LEMMA NearFacts == Near(MaxLate, Periods)
BY OsTimersAssumption DEF Near

(* What TimerSet does to a list in which the timer is not (any more).      *)
LEMMA StartTimed ==
    ASSUME TypeOK, NEW rest, TimedList(rest, due, time), NEW t \in TimerIds,
           NEW millis \in Returns, Start(rest, t, millis)
    PROVE  /\ TimedList(timers', due', time)
           /\ due' \in [TimerIds -> Nat]
           /\ LaterOrKept(timers', due', rest, due, time)
<1>1. time \in Nat /\ due \in [TimerIds -> Nat]
  BY OsTimersAssumption DEF TypeOK
<1>2. CASE millis = 0
  <2>1. PICK u : u = Unlinked(rest, t)
    OBVIOUS
  <2>2. TimedList(u, due, time) /\ Absent(u, t) /\ PartOf(u, rest)
    BY <2>1, UnlinkInTime DEF TimedList
  <2>3. timers' = u
    BY <1>2, <2>1 DEF Start, TimerSet
  <2>4. due' = [due EXCEPT ![t] = 0]
    BY <1>2 DEF Start
  <2>5. \A s \in TimerIds \ {t} : due'[s] = due[s]
    BY <1>1, <2>4
  <2>6. TimedList(u, due', time) /\ Agree(u, due, due')
    BY <2>2, <2>5, ExceptInTime DEF TimedList
  <2>7. due' \in [TimerIds -> Nat]
    BY <1>1, <2>4
  <2>8. LaterOrKept(u, due', rest, due, time)
    BY <2>2, <2>6 DEF PartOf, Agree, LaterOrKept
  <2> QED BY <2>3, <2>6, <2>7, <2>8
<1>3. CASE millis # 0
  <2>1. millis \in Periods /\ millis \in Nat \ {0}
    BY <1>3, OsTimersAssumption DEF Returns
  <2>2. PICK again : timers' = TimerSet(rest, t, millis, Card(time), again)
    BY DEF Start
  <2>3. due' = [due EXCEPT ![t] = time + millis]
    BY <1>3 DEF Start
  <2>4. due' \in [TimerIds -> Nat]
    BY <1>1, <2>1, <2>3
  <2>5. due'[t] = time + millis /\ \A s \in TimerIds \ {t} : due'[s] = due[s]
    BY <1>1, <2>3
  <2> QED BY <1>1, <2>1, <2>2, <2>4, <2>5, NearFacts, SetInTime DEF TimedList
<1> QED BY <1>2, <1>3

(* The loop over the timers compares with the clock it has read.           *)
LEMMA FirstDue ==
    ASSUME TypeOK, TimedList(timers, due, time), LookInv, pc = "timers", timers # <<>>
    PROVE  FirstIsDue(timers, now) <=> due[timers[1].timer] <= lastLook
<1>1. due \in [TimerIds -> Nat] /\ time \in Nat /\ lastLook \in Nat
  BY OsTimersAssumption DEF TypeOK
<1>2. now = Card(lastLook) /\ lastLook <= time /\ time - lastLook <= MaxLate
  BY DEF LookInv
<1>3. FirstIsDue(timers, Card(lastLook)) <=> due[timers[1].timer] <= lastLook
  BY <1>1, <1>2, NearFacts, FirstIsDueFacts DEF TimedList
<1> QED BY <1>2, <1>3

-----------------------------------------------------------------------------
(* The initial state: no timer is set.                                     *)
LEMMA InitInv == Init => IInv
<1> SUFFICES ASSUME Init PROVE IInv
  OBVIOUS
<1> USE DEF Init
<1>1. timers = <<>> /\ timers \in Seq(Entries(TimerIds)) /\ Len(timers) = 0
  OBVIOUS
<1>2. StartTime \in Nat /\ MaxTime \in Nat /\ StartTime \in StartTime .. MaxTime
  BY OsTimersAssumption
<1>3. TypeOK
  BY <1>1, <1>2, TimerListAssumption DEF TypeOK, Entries
<1>4. TimedList(timers, due, time)
  <2>1. \A i \in 1 .. Len(timers) : FALSE
    BY <1>1
  <2> QED BY <1>1, <2>1 DEF TimedList, InTime
<1>5. LookInv
  BY <1>1, <1>2 DEF LookInv
<1>6. NeverOversleeps
  BY DEF NeverOversleeps
<1> QED BY <1>3, <1>4, <1>5, <1>6 DEF IInv

(* A timer is set when it is in the list.                                  *)
LEMMA SetFacts ==
    ASSUME TimedList(timers, due, time)
    PROVE  /\ DOMAIN timers = 1 .. Len(timers) /\ Len(timers) \in Nat
           /\ \A t \in TimerIds : IsSet(t) <=> \E i \in 1 .. Len(timers) : timers[i].timer = t
           /\ \A i \in 1 .. Len(timers) : timers[i].timer \in TimerIds
<1>1. timers \in Seq(Entries(TimerIds))
  BY DEF TimedList, InTime
<1>2. DOMAIN timers = 1 .. Len(timers) /\ Len(timers) \in Nat
  BY <1>1
<1> QED BY <1>1, <1>2, EntryTypes DEF IsSet

(* What requests and callbacks do to the timers keeps the invariant.       *)
LEMMA StartInv ==
    ASSUME IInv, NEW rest, TimedList(rest, due, time), PartOf(rest, timers),
           NEW t \in TimerIds, NEW millis \in Returns, Start(rest, t, millis),
           pc \in {"run", "timers"}, UNCHANGED <<time, pc, now, wake, lastLook>>
    PROVE  IInv'
<1>1. /\ TimedList(timers', due', time)
      /\ due' \in [TimerIds -> Nat]
      /\ LaterOrKept(timers', due', rest, due, time)
  BY StartTimed DEF IInv
<1>2. TimedList(timers, due, time)'
  BY <1>1 DEF TimedList, InTime
<1>3. TypeOK'
  <2>1. timers' \in Seq(Entries(TimerIds)) /\ DOMAIN timers' = 1 .. Len(timers')
    BY <1>1 DEF TimedList, InTime
  <2>2. \A i, j \in DOMAIN timers' : timers'[i].timer = timers'[j].timer => i = j
    BY <1>1, <2>1 DEF TimedList, InTime
  <2> QED BY <1>1, <2>1, <2>2 DEF IInv, TypeOK, Entries
<1>4. LookInv'
  <2>1. ASSUME pc # "timers", NEW i \in 1 .. Len(timers')
        PROVE  due'[timers'[i].timer] > lastLook
    <3>1. lastLook <= time /\ \A k \in 1 .. Len(timers) : due[timers[k].timer] > lastLook
      BY <2>1 DEF IInv, LookInv
    <3>2. CASE due'[timers'[i].timer] > time
      <4>1. timers' \in Seq(Entries(TimerIds))
        BY <1>1 DEF TimedList, InTime
      <4>2. timers'[i].timer \in TimerIds
        BY <4>1, EntryTypes
      <4>3. PICK a \in Nat : a = due'[timers'[i].timer]
        BY <1>1, <4>2
      <4>4. lastLook \in Nat /\ time \in Nat
        BY OsTimersAssumption DEF IInv, TypeOK
      <4> QED BY <3>1, <3>2, <4>3, <4>4
    <3>3. ASSUME NEW j \in 1 .. Len(rest), timers'[i] = rest[j],
                 due'[timers'[i].timer] = due[rest[j].timer]
          PROVE  due'[timers'[i].timer] > lastLook
      BY <3>1, <3>3 DEF PartOf
    <3> QED BY <1>1, <3>2, <3>3 DEF LaterOrKept
  <2> QED BY <2>1 DEF IInv, LookInv
<1>5. NeverOversleeps'
  BY DEF NeverOversleeps
<1> QED BY <1>2, <1>3, <1>4, <1>5 DEF IInv

LEMMA SetInv ==
    ASSUME IInv, NEW t \in TimerIds, NEW m \in Periods, Set(t, m)
    PROVE  IInv'
<1>1. TimedList(timers, due, time) /\ PartOf(timers, timers)
  BY DEF IInv, PartOf
<1>2. m \in Returns
  BY DEF Returns
<1> QED BY <1>1, <1>2, StartInv DEF Set

LEMMA CancelInv ==
    ASSUME IInv, NEW t \in TimerIds, Cancel(t)
    PROVE  IInv'
<1>1. TimedList(timers, due, time) /\ PartOf(timers, timers)
  BY DEF IInv, PartOf
<1>2. 0 \in Returns
  BY DEF Returns
<1>3. Start(timers, t, 0)
  BY DEF Cancel, Start, Again, IsOver, TimerSet
<1> QED BY <1>1, <1>2, <1>3, StartInv DEF Cancel

LEMMA TimerForceInv ==
    ASSUME IInv, NEW t \in TimerIds, NEW m \in Returns, TimerForce(t, m)
    PROVE  IInv'
<1>1. TimedList(Unlinked(timers, t), due, time) /\ PartOf(Unlinked(timers, t), timers)
  BY UnlinkInTime DEF IInv, TimedList
<1> QED BY <1>1, StartInv DEF TimerForce

LEMMA DoTimerInv ==
    ASSUME IInv, NEW m \in Returns, DoTimer(m)
    PROVE  IInv'
<1>1. timers # <<>> /\ TimedList(timers, due, time)
  BY DEF IInv, DoTimer, FirstIsDue
<1>2. /\ TimedList(Tail(timers), due, time) /\ PartOf(Tail(timers), timers)
      /\ Head(timers).timer \in TimerIds
  BY <1>1, TailInTime DEF TimedList
<1> QED BY <1>2, StartInv DEF DoTimer

(* The timer that is first in the list is due first.                       *)
LEMMA FirstFacts ==
    ASSUME TypeOK, TimedList(timers, due, time), timers # <<>>
    PROVE  /\ 1 \in 1 .. Len(timers) /\ Head(timers) = timers[1]
           /\ due[timers[1].timer] \in Nat
           /\ \A i \in 1 .. Len(timers) :
                 due[timers[i].timer] \in Nat /\ due[timers[1].timer] <= due[timers[i].timer]
<1>1. due \in [TimerIds -> Nat]
  BY DEF TypeOK
<1> QED BY <1>1, FirstInTime DEF TimedList

LEMMA WaitInv ==
    ASSUME IInv, Wait
    PROVE  IInv'
<1>1. /\ pc = "run" /\ pc' = "select"
      /\ wake' = IF timers = <<>> THEN NoTimeout ELSE time + Timeout(timers, Card(time))
      /\ UNCHANGED <<time, timers, due, now, lastLook>>
  BY DEF Wait
<1>2. TypeOK /\ TimedList(timers, due, time) /\ time \in Nat /\ NoTimeout \in Nat
  BY OsTimersAssumption DEF IInv, TypeOK, NoTimeout
<1>3. ASSUME timers # <<>>
      PROVE  wake' \in Nat /\ (wake' <= due[timers[1].timer] \/ wake' <= time)
  <2>1. due \in [TimerIds -> Nat]
    BY <1>2 DEF TypeOK
  <2>2. /\ time + Timeout(timers, Card(time)) \in Nat
        /\ \/ time + Timeout(timers, Card(time)) <= due[timers[1].timer]
           \/ time + Timeout(timers, Card(time)) <= time
    BY <1>2, <1>3, <2>1, NearFacts, TimeoutFacts DEF TimedList
  <2> QED BY <1>1, <1>3, <2>2
<1>4. TypeOK'
  BY <1>1, <1>2, <1>3 DEF TypeOK
<1>5. TimedList(timers, due, time)' /\ LookInv'
  BY <1>1 DEF IInv, TimedList, LookInv
<1>6. ASSUME NEW t \in TimerIds, IsSet(t)
      PROVE  wake' <= due[t] \/ wake' <= time
  <2>1. PICK i \in 1 .. Len(timers) : timers[i].timer = t
    BY <1>2, <1>6, SetFacts
  <2>2. timers # <<>>
    BY <2>1
  <2>3. PICK a \in Nat, b \in Nat : a = due[timers[1].timer] /\ b = due[t] /\ a <= b
    BY <1>2, <2>1, <2>2, FirstFacts
  <2>4. PICK w \in Nat : w = wake' /\ (w <= a \/ w <= time)
    BY <1>3, <2>2, <2>3
  <2> QED BY <2>3, <2>4
<1>7. NeverOversleeps'
  BY <1>1, <1>6 DEF NeverOversleeps, IsSet
<1> QED BY <1>4, <1>5, <1>7 DEF IInv

LEMMA SelectReturnsInv ==
    ASSUME IInv, NEW input \in {FALSE, InputPending}, SelectReturns(input)
    PROVE  IInv'
<1>1. /\ pc = "select"
      /\ pc' = IF timers = <<>> \/ input THEN "run" ELSE "timers"
      /\ now' = IF timers = <<>> \/ input THEN 0 ELSE Card(time)
      /\ wake' = 0
      /\ lastLook' = IF input THEN lastLook ELSE time
      /\ UNCHANGED <<time, timers, due>>
  BY DEF SelectReturns
<1>2. TypeOK /\ LookInv /\ time \in Nat /\ MaxLate \in Nat /\ input \in BOOLEAN
  <2>1. input \in BOOLEAN
    BY OsTimersAssumption, Zenon
  <2> QED BY <2>1, OsTimersAssumption DEF IInv, TypeOK
<1>3. Card(time) \in 0 .. Wrap - 1 /\ 0 \in 0 .. Wrap - 1
  BY <1>2, CardType, TimerListAssumption
<1>4. TypeOK'
  BY <1>1, <1>2, <1>3 DEF TypeOK
<1>5. TimedList(timers, due, time)'
  BY <1>1 DEF IInv, TimedList
<1>6. LookInv'
  <2>1. CASE input
    BY <1>1, <1>2, <2>1 DEF LookInv
  <2>2. CASE ~input /\ timers = <<>>
    <3>1. \A i \in 1 .. Len(timers) : FALSE
      BY <2>2
    <3> QED BY <1>1, <1>2, <2>2, <3>1 DEF LookInv
  <2>3. CASE ~input /\ timers # <<>>
    BY <1>1, <1>2, <2>3 DEF LookInv
  <2> QED BY <2>1, <2>2, <2>3
<1>7. NeverOversleeps'
  BY <1>1 DEF NeverOversleeps
<1> QED BY <1>4, <1>5, <1>6, <1>7 DEF IInv

LEMMA NoMoreDueInv ==
    ASSUME IInv, NoMoreDue
    PROVE  IInv'
<1>1. /\ pc = "timers" /\ pc' = "run" /\ ~FirstIsDue(timers, now) /\ now' = 0
      /\ UNCHANGED <<time, timers, due, wake, lastLook>>
  BY DEF NoMoreDue
<1>2. TypeOK /\ LookInv /\ TimedList(timers, due, time) /\ lastLook \in Nat
  BY OsTimersAssumption DEF IInv, TypeOK
<1>3. TypeOK'
  BY <1>1, <1>2, TimerListAssumption DEF TypeOK
<1>4. TimedList(timers, due, time)'
  BY <1>1, <1>2 DEF TimedList, InTime
<1>5. ASSUME NEW i \in 1 .. Len(timers) PROVE due[timers[i].timer] > lastLook
  <2>1. timers # <<>>
    OBVIOUS
  <2>2. ~(due[timers[1].timer] <= lastLook)
    BY <1>1, <1>2, <2>1, FirstDue
  <2>3. PICK a \in Nat, b \in Nat :
           a = due[timers[1].timer] /\ b = due[timers[i].timer] /\ a <= b
    BY <1>2, <2>1, FirstFacts
  <2> QED BY <1>2, <2>2, <2>3
<1>6. LookInv'
  BY <1>1, <1>2, <1>5 DEF LookInv
<1>7. NeverOversleeps'
  BY <1>1 DEF NeverOversleeps
<1> QED BY <1>3, <1>4, <1>6, <1>7 DEF IInv

LEMMA TickInv ==
    ASSUME IInv, Tick
    PROVE  IInv'
<1>1. /\ time < MaxTime /\ time' = time + 1
      /\ pc = "select" => time < wake
      /\ \A t \in TimerIds : IsSet(t) => time - due[t] < MaxLate
      /\ pc = "timers" => time - lastLook < MaxLate
      /\ UNCHANGED <<timers, due, pc, now, wake, lastLook>>
  BY DEF Tick
<1>2. TypeOK /\ LookInv /\ TimedList(timers, due, time)
  BY DEF IInv
<1>3. /\ time \in Nat /\ lastLook \in Nat /\ MaxLate \in Nat /\ wake \in Nat
      /\ MaxTime \in Nat /\ StartTime \in Nat /\ due \in [TimerIds -> Nat]
      /\ Periods \subseteq Nat
  BY <1>2, OsTimersAssumption DEF TypeOK
<1>4. TypeOK'
  <2>1. time' \in StartTime .. MaxTime
    BY <1>1, <1>2, <1>3 DEF TypeOK
  <2> QED BY <1>1, <1>2, <2>1 DEF TypeOK
<1>5. ASSUME NEW i \in 1 .. Len(timers)
      PROVE  /\ (time + 1) - MaxLate <= due[timers[i].timer]
             /\ \E p \in Periods : due[timers[i].timer] <= (time + 1) + p
  <2>1. timers[i].timer \in TimerIds /\ IsSet(timers[i].timer)
    BY <1>2, SetFacts
  <2>2. PICK a \in Nat : a = due[timers[i].timer]
    BY <1>3, <2>1
  <2>3. time - a < MaxLate
    BY <1>1, <2>1, <2>2
  <2>4. PICK p \in Periods : a <= time + p
    BY <1>2, <2>2 DEF TimedList, InTime
  <2>5. (time + 1) - MaxLate <= a /\ a <= (time + 1) + p
    BY <1>3, <2>3, <2>4
  <2> QED BY <2>2, <2>5
<1>6. TimedList(timers, due, time)'
  <2>1. /\ timers \in Seq(Entries(TimerIds))
        /\ \A i, j \in 1 .. Len(timers) : timers[i].timer = timers[j].timer => i = j
        /\ \A i \in 1 .. Len(timers) : timers[i].expires = Card(due[timers[i].timer])
        /\ \A i, j \in 1 .. Len(timers) :
              i < j => due[timers[i].timer] <= due[timers[j].timer]
    BY <1>2 DEF TimedList, InTime
  <2> QED BY <1>1, <1>5, <2>1 DEF TimedList, InTime
<1>7. LookInv'
  BY <1>1, <1>2, <1>3 DEF LookInv
<1>8. NeverOversleeps'
  <2>1. ASSUME pc = "select", NEW t \in TimerIds, IsSet(t)
        PROVE  wake <= due[t] \/ wake <= time + 1
    <3>1. time < wake /\ (wake <= due[t] \/ wake <= time)
      BY <1>1, <2>1 DEF IInv, NeverOversleeps
    <3> QED BY <1>3, <3>1
  <2> QED BY <1>1, <2>1 DEF NeverOversleeps, IsSet
<1> QED BY <1>4, <1>6, <1>7, <1>8 DEF IInv

LEMMA StutterInv ==
    ASSUME IInv, UNCHANGED vars
    PROVE  IInv'
BY DEF IInv, vars, TypeOK, TimedList, LookInv, NeverOversleeps, IsSet

LEMMA NextInv == IInv /\ [Next]_vars => IInv'
<1> SUFFICES ASSUME IInv, [Next]_vars PROVE IInv'
  OBVIOUS
<1>1. ASSUME NEW t \in TimerIds, NEW m \in Periods, Set(t, m) PROVE IInv'
  BY <1>1, SetInv
<1>2. ASSUME NEW t \in TimerIds, Cancel(t) PROVE IInv'
  BY <1>2, CancelInv
<1>3. ASSUME NEW t \in TimerIds, NEW m \in Returns, TimerForce(t, m) PROVE IInv'
  BY <1>3, TimerForceInv
<1>4. ASSUME NEW m \in Returns, DoTimer(m) PROVE IInv'
  BY <1>4, DoTimerInv
<1>5. ASSUME NEW input \in {FALSE, InputPending}, SelectReturns(input) PROVE IInv'
  BY <1>5, SelectReturnsInv
<1>6. CASE Wait
  BY <1>6, WaitInv
<1>7. CASE NoMoreDue
  BY <1>7, NoMoreDueInv
<1>8. CASE Tick
  BY <1>8, TickInv
<1>9. CASE UNCHANGED vars
  BY <1>9, StutterInv
<1> QED BY <1>1, <1>2, <1>3, <1>4, <1>5, <1>6, <1>7, <1>8, <1>9 DEF Next

(* The invariant implies what the run checks.                              *)
LEMMA InvImplies == IInv => OsTimersInv /\ NeverOversleeps
<1> SUFFICES ASSUME IInv PROVE OsTimersInv
  BY DEF IInv
<1>1. TypeOK /\ TimedList(timers, due, time) /\ LookInv
  BY DEF IInv
<1>2. InOrder
  <2>1. DOMAIN timers = 1 .. Len(timers)
    BY <1>1, SetFacts
  <2>2. \A i, j \in 1 .. Len(timers) : i < j => due[timers[i].timer] <= due[timers[j].timer]
    BY <1>1 DEF TimedList, InTime
  <2> QED BY <2>1, <2>2 DEF InOrder
<1>3. DueTimersRun
  <2>1. ASSUME pc = "run", NEW t \in TimerIds, IsSet(t) PROVE due[t] > lastLook
    <3>1. PICK i \in 1 .. Len(timers) : timers[i].timer = t
      BY <1>1, <2>1, SetFacts
    <3>2. due[timers[i].timer] > lastLook
      BY <1>1, <2>1 DEF LookInv
    <3> QED BY <3>1, <3>2
  <2> QED BY <2>1 DEF DueTimersRun
<1> QED BY <1>1, <1>2, <1>3 DEF OsTimersInv

(* A timer that the loop runs is due.                                      *)
LEMMA NotEarlyStep ==
    ASSUME IInv, NEW m \in Returns, DoTimer(m)
    PROVE  time >= due[Head(timers).timer]
<1>1. pc = "timers" /\ timers # <<>> /\ FirstIsDue(timers, now)
  BY DEF DoTimer, FirstIsDue
<1>2. TypeOK /\ TimedList(timers, due, time) /\ LookInv
  BY DEF IInv
<1>3. due[timers[1].timer] <= lastLook
  BY <1>1, <1>2, FirstDue
<1>4. PICK a \in Nat : a = due[timers[1].timer] /\ Head(timers) = timers[1]
  BY <1>1, <1>2, FirstFacts
<1>5. lastLook <= time /\ lastLook \in Nat /\ time \in Nat
  BY <1>2, OsTimersAssumption DEF LookInv, TypeOK
<1> QED BY <1>3, <1>4, <1>5

-----------------------------------------------------------------------------
LEMMA Invariance == Spec => []IInv
BY InitInv, NextInv, PTL DEF Spec

(* Every state: no timer is in the list twice, the list is in the order in *)
(* which the timers are due however often the clock wraps between them,    *)
(* and no timer that was due when WaitForSomething looked is left in it,   *)
(* also if callbacks set, cancelled or moved others meanwhile.             *)
THEOREM TimersInOrder == Spec => []OsTimersInv
BY Invariance, InvImplies, PTL

(* The timeout given to select() ends by the time at which the first timer *)
(* is due.                                                                 *)
THEOREM SleepEndsInTime == Spec => []NeverOversleeps
BY Invariance, InvImplies, PTL

(* The loop over the timers runs none before it is due.                    *)
THEOREM TimersNotEarly == Spec => NeverEarly
<1> DEFINE A == (\E m \in Returns : DoTimer(m)) => time >= due[Head(timers).timer]
<1>1. IInv => A
  BY NotEarlyStep
<1>2. IInv => [A]_vars
  BY <1>1
<1> HIDE DEF A
<1>3. []IInv => [][A]_vars
  BY <1>2, PTL
<1>4. Spec => [][A]_vars
  BY <1>3, Invariance, PTL
<1> QED BY <1>4 DEF A, NeverEarly

-----------------------------------------------------------------------------
(* The authorizations.                                                     *)

ClientRec == [state: {"NULL", "Running", "Retained"}, authId: Auths \cup {NoAuth}]

States == [timers: Seq(Entries(Auths)), auths: [Auths -> Auth], clients: [Clients -> ClientRec]]

(* A state in which each timer is at most once in the list and belongs to  *)
(* an authorization that exists, each client has had an authorization, and *)
(* none has one that has not been generated yet.                           *)
Sound(s) ==
    /\ s \in States
    /\ Listed(Auths, s.timers)
    /\ \A i \in 1 .. Len(s.timers) : s.auths[s.timers[i].timer].valid
    /\ \A c \in Clients : s.clients[c].state # "NULL" => s.clients[c].authId \in Auths
    /\ \A b \in Auths : s.auths[b].fresh =>
          ~s.auths[b].valid /\ \A c \in Clients : s.clients[c].authId # b

(* What became of a client whose authorization was deleted *)
Leftover(r, a) == r \in {NoClient, [state |-> "Retained", authId |-> a]}

(* From s to v nothing happens but to a's timer and the seconds that it    *)
(* has left, unless a is deleted and its clients are closed down.          *)
OnlyTimed(s, v, a) ==
    /\ \A b \in Auths \ {a} : v.auths[b] = s.auths[b]
    /\ v.auths[a].fresh => s.auths[a].fresh
    /\ v.auths[a].valid =>
          /\ v.clients = s.clients
          /\ s.auths[a].valid
          /\ v.auths[a].refcnt = s.auths[a].refcnt
          /\ v.auths[a].timeout = s.auths[a].timeout
    /\ \A c \in Clients :
          \/ v.clients[c] = s.clients[c]
          \/ s.clients[c].authId = a /\ Leftover(v.clients[c], a)

-----------------------------------------------------------------------------
LEMMA SecondsFacts ==
    /\ MaxSecs \in Nat
    /\ \A seconds \in Nat : Milliseconds(seconds) \in Nat /\ Overflow(seconds) \in Nat
    /\ Milliseconds(0) = 0
<1>1. MaxSecs \in Nat
  BY TimerListAssumption, AuthorizationsAssumption DEF MaxSecs
<1>2. \A k \in Nat : k * MILLI_PER_SECOND \in Nat
  BY AuthorizationsAssumption
<1>3. ASSUME NEW seconds \in Nat PROVE Milliseconds(seconds) \in Nat /\ Overflow(seconds) \in Nat
  BY <1>1, <1>2 DEF Milliseconds, Overflow
<1>4. Milliseconds(0) = 0
  BY <1>1, AuthorizationsAssumption DEF Milliseconds
<1> QED BY <1>1, <1>3, <1>4

(* SecurityDeleteAuthorization                                             *)
LEMMA DeletedFields ==
    ASSUME NEW s, Sound(s), NEW a \in Auths
    PROVE  /\ Deleted(s, a) \in States
           /\ Deleted(s, a).timers = Unlinked(s.timers, a)
           /\ \A b \in Auths \ {a} : Deleted(s, a).auths[b] = s.auths[b]
           /\ ~Deleted(s, a).auths[a].valid /\ ~Deleted(s, a).auths[a].fresh
           /\ Deleted(s, a).auths[a].secondsRemaining = 0
           /\ \A c \in Clients :
                 IF s.clients[c].authId = a THEN Leftover(Deleted(s, a).clients[c], a)
                 ELSE Deleted(s, a).clients[c] = s.clients[c]
<1>1. PICK v : v = Deleted(s, a)
  OBVIOUS
<1>2. /\ v.timers = Unlinked(s.timers, a)
      /\ v.auths = [s.auths EXCEPT ![a] = [NewAuth EXCEPT !.fresh = FALSE]]
      /\ v.clients = [c \in Clients |-> IF s.clients[c].authId = a THEN Closed(s, c).clients[c]
                                        ELSE s.clients[c]]
      /\ v = [timers |-> v.timers, auths |-> v.auths, clients |-> v.clients]
  BY <1>1 DEF Deleted
<1>3. /\ s = [timers |-> s.timers, auths |-> s.auths, clients |-> s.clients]
      /\ s.auths \in [Auths -> Auth] /\ s.clients \in [Clients -> ClientRec]
  BY DEF Sound, States
<1>4. PICK n : n = [NewAuth EXCEPT !.fresh = FALSE]
  OBVIOUS
<1>5. n \in Auth /\ ~n.valid /\ ~n.fresh /\ n.secondsRemaining = 0
  <2>1. n = [valid |-> FALSE, fresh |-> FALSE, timeout |-> 0, refcnt |-> 0, secondsRemaining |-> 0]
    BY <1>4 DEF NewAuth
  <2>2. 0 \in 0 .. Wrap - 1
    BY TimerListAssumption
  <2> QED BY <2>1, <2>2 DEF Auth
<1>6. v.auths \in [Auths -> Auth] /\ v.auths[a] = n /\ \A b \in Auths \ {a} : v.auths[b] = s.auths[b]
  <2>1. v.auths = [s.auths EXCEPT ![a] = n]
    BY <1>2, <1>4
  <2> QED BY <1>3, <1>5, <2>1
<1>7. ASSUME NEW c \in Clients, s.clients[c].authId = a
      PROVE  Leftover(v.clients[c], a)
  <2>1. v.clients[c] = Closed(s, c).clients[c]
    BY <1>2, <1>7
  <2>2. CASE s.clients[c].state = "Running" /\ closeDownMode[c] = "Retain"
    <3>1. Closed(s, c) = [s EXCEPT !.clients[c].state = "Retained"]
      BY <2>2 DEF Closed
    <3>2. Closed(s, c).clients[c] = [s.clients[c] EXCEPT !.state = "Retained"]
      BY <3>1, <1>3
    <3>3. s.clients[c] \in ClientRec
      BY <1>3
    <3>4. [s.clients[c] EXCEPT !.state = "Retained"] = [state |-> "Retained", authId |-> a]
      BY <3>3, <1>7 DEF ClientRec
    <3> QED BY <2>1, <3>2, <3>4 DEF Leftover
  <2>3. CASE ~(s.clients[c].state = "Running" /\ closeDownMode[c] = "Retain")
    <3>1. Closed(s, c) = [s EXCEPT !.clients[c] = NoClient]
      BY <2>3, Zenon DEF Closed, Retired
    <3>2. Closed(s, c).clients[c] = NoClient
      BY <3>1, <1>3
    <3> QED BY <2>1, <3>2 DEF Leftover
  <2> QED BY <2>2, <2>3
<1>8. \A r : Leftover(r, a) => r \in ClientRec
  BY DEF Leftover, NoClient, ClientRec
<1>9. ASSUME NEW c \in Clients
      PROVE  /\ v.clients[c] \in ClientRec
             /\ s.clients[c].authId # a => v.clients[c] = s.clients[c]
  BY <1>2, <1>3, <1>7, <1>8
<1>10. v.clients \in [Clients -> ClientRec]
  BY <1>2, <1>9
<1>11. v.timers \in Seq(Entries(Auths))
  BY <1>2, UnlinkListed DEF Sound, Listed
<1>12. v \in States
  BY <1>2, <1>6, <1>10, <1>11 DEF States
<1> QED BY <1>1, <1>2, <1>5, <1>6, <1>7, <1>9, <1>12

LEMMA DeletedSound ==
    ASSUME NEW s, Sound(s), NEW a \in Auths
    PROVE  Sound(Deleted(s, a)) /\ OnlyTimed(s, Deleted(s, a), a)
<1>1. PICK v : v = Deleted(s, a)
  OBVIOUS
<1>2. /\ v \in States /\ v.timers = Unlinked(s.timers, a)
      /\ \A b \in Auths \ {a} : v.auths[b] = s.auths[b]
      /\ ~v.auths[a].valid /\ ~v.auths[a].fresh
      /\ \A c \in Clients : IF s.clients[c].authId = a THEN Leftover(v.clients[c], a)
                             ELSE v.clients[c] = s.clients[c]
  BY <1>1, DeletedFields
<1>3. Listed(Auths, v.timers) /\ Absent(v.timers, a) /\ PartOf(v.timers, s.timers)
  BY <1>2, UnlinkListed DEF Sound
<1>4. ASSUME NEW i \in 1 .. Len(v.timers) PROVE v.auths[v.timers[i].timer].valid
  <2>1. PICK j \in 1 .. Len(s.timers) : v.timers[i] = s.timers[j]
    BY <1>3 DEF PartOf
  <2>2. s.timers[j].timer \in Auths /\ s.auths[s.timers[j].timer].valid
    BY EntryTypes DEF Sound, Listed
  <2>3. v.timers[i].timer # a
    BY <1>3 DEF Absent
  <2> QED BY <1>2, <2>1, <2>2, <2>3
<1>5. ASSUME NEW c \in Clients, v.clients[c].state # "NULL" PROVE v.clients[c].authId \in Auths
  <2>1. CASE v.clients[c] = s.clients[c]
    BY <1>5, <2>1 DEF Sound
  <2>2. CASE Leftover(v.clients[c], a)
    BY <1>5, <2>2 DEF Leftover, NoClient
  <2> QED BY <1>2, <2>1, <2>2
<1>6. ASSUME NEW b \in Auths, v.auths[b].fresh
      PROVE  ~v.auths[b].valid /\ \A c \in Clients : v.clients[c].authId # b
  <2>1. b # a /\ v.auths[b] = s.auths[b]
    BY <1>2, <1>6
  <2>2. ~s.auths[b].valid /\ \A c \in Clients : s.clients[c].authId # b
    BY <1>6, <2>1 DEF Sound
  <2>3. \A r : Leftover(r, a) => r.authId # b
    BY <2>1, AuthorizationsAssumption DEF Leftover, NoClient
  <2> QED BY <1>2, <2>1, <2>2, <2>3
<1>7. Sound(v)
  BY <1>2, <1>3, <1>4, <1>5, <1>6 DEF Sound
<1>8. OnlyTimed(s, v, a)
  BY <1>2 DEF OnlyTimed
<1> QED BY <1>1, <1>7, <1>8

(* SecurityAuthorizationExpired                                            *)
LEMMA ExpiredFacts ==
    ASSUME NEW s, Sound(s), NEW a \in Auths, s.auths[a].valid
    PROVE  /\ Sound(Expired(s, a)) /\ OnlyTimed(s, Expired(s, a), a)
           /\ ExpiredReturns(s, a) \in Nat
           /\ s.auths[a].secondsRemaining # 0
              => Expired(s, a).auths[a].valid /\ Expired(s, a).timers = s.timers
           /\ s.auths[a].secondsRemaining = 0
              => Expired(s, a) = Deleted(s, a) /\ ExpiredReturns(s, a) = 0
<1>1. s \in States /\ s.auths \in [Auths -> Auth] /\ s.auths[a] \in Auth
  BY DEF Sound, States
<1>2. PICK left \in Nat : left = s.auths[a].secondsRemaining
  BY <1>1 DEF Auth
<1>3. ExpiredReturns(s, a) = Milliseconds(left)
  BY <1>2 DEF ExpiredReturns
<1>4. Milliseconds(left) \in Nat /\ Overflow(left) \in Nat /\ Milliseconds(0) = 0
  BY SecondsFacts
<1>5. CASE left = 0
  <2>1. Expired(s, a) = Deleted(s, a)
    BY <1>2, <1>5 DEF Expired
  <2> QED BY <1>2, <1>3, <1>4, <1>5, <2>1, DeletedSound
<1>6. CASE left # 0
  <2>1. PICK v : v = Expired(s, a)
    OBVIOUS
  <2>2. PICK n : n = [s.auths[a] EXCEPT !.secondsRemaining = Overflow(left)]
    OBVIOUS
  <2>3. /\ n \in Auth /\ n.valid /\ n.fresh = s.auths[a].fresh
        /\ n.refcnt = s.auths[a].refcnt /\ n.timeout = s.auths[a].timeout
    BY <1>1, <1>4, <2>2 DEF Auth
  <2>4. v = [s EXCEPT !.auths[a].secondsRemaining = Overflow(left)]
    BY <1>2, <1>6, <2>1 DEF Expired
  <2>5. /\ v.timers = s.timers /\ v.clients = s.clients
        /\ v.auths = [s.auths EXCEPT ![a] = n]
        /\ v \in [timers: {s.timers}, auths: {v.auths}, clients: {s.clients}]
    BY <1>1, <2>2, <2>4 DEF States
  <2>6. v.auths \in [Auths -> Auth] /\ v.auths[a] = n /\ \A b \in Auths \ {a} : v.auths[b] = s.auths[b]
    BY <1>1, <2>3, <2>5
  <2>7. v \in States
    BY <1>1, <2>5, <2>6 DEF States
  <2>8. \A b \in Auths : /\ v.auths[b].valid <=> s.auths[b].valid
                         /\ v.auths[b].fresh <=> s.auths[b].fresh
    BY <2>3, <2>6
  <2>9. \A i \in 1 .. Len(s.timers) : s.timers[i].timer \in Auths
    BY EntryTypes DEF Sound, Listed
  <2>10. Sound(v)
    BY <2>5, <2>7, <2>8, <2>9 DEF Sound
  <2>11. OnlyTimed(s, v, a)
    BY <2>3, <2>5, <2>6 DEF OnlyTimed
  <2> QED BY <1>2, <1>3, <1>4, <1>6, <2>1, <2>3, <2>5, <2>6, <2>10, <2>11
<1> QED BY <1>5, <1>6

(* TimerSet of an authorization's timer                                    *)
LEMMA WithTimerFacts ==
    ASSUME time \in Nat, NEW s, Sound(s), NEW a \in Auths, s.auths[a].valid, NEW millis \in Nat
    PROVE  Sound(WithTimer(s, a, millis)) /\ OnlyTimed(s, WithTimer(s, a, millis), a)
<1>1. PICK w : w = WithTimer(s, a, millis)
  OBVIOUS
<1>2. PICK v : v = IF IsOver(millis, Card(time)) THEN Expired(s, a) ELSE s
  OBVIOUS
<1>3. PICK again : again = ExpiredReturns(s, a)
  OBVIOUS
<1>4. PICK l : l = TimerSet(s.timers, a, millis, Card(time), again)
  OBVIOUS
<1>5. w = [v EXCEPT !.timers = l]
  BY <1>1, <1>2, <1>3, <1>4 DEF WithTimer
<1>6. Sound(v) /\ OnlyTimed(s, v, a) /\ again \in Nat
  <2>1. OnlyTimed(s, s, a)
    BY DEF OnlyTimed
  <2> QED BY <1>2, <1>3, <2>1, ExpiredFacts
<1>7. Card(time) \in Int
  BY TimerListAssumption DEF Card
<1>8. /\ Listed(Auths, l) /\ KeptOr(a, l, s.timers)
      /\ IsOver(millis, Card(time)) /\ again = 0 => Absent(l, a)
  BY <1>4, <1>6, <1>7, SetListed DEF Sound
<1>9. /\ w.timers = l /\ w.auths = v.auths /\ w.clients = v.clients
      /\ w \in [timers: {l}, auths: {v.auths}, clients: {v.clients}]
  BY <1>5, <1>6 DEF Sound, States
<1>10. w \in States
  BY <1>6, <1>8, <1>9 DEF Sound, States, Listed
<1>11. v.auths[a].valid \/ Absent(l, a)
  <2>1. CASE ~IsOver(millis, Card(time))
    BY <1>2, <2>1
  <2>2. CASE IsOver(millis, Card(time)) /\ s.auths[a].secondsRemaining # 0
    BY <1>2, <2>2, ExpiredFacts
  <2>3. CASE IsOver(millis, Card(time)) /\ s.auths[a].secondsRemaining = 0
    BY <1>3, <1>8, <2>3, ExpiredFacts
  <2> QED BY <2>1, <2>2, <2>3
<1>12. ASSUME NEW i \in 1 .. Len(l) PROVE v.auths[l[i].timer].valid
  <2>1. CASE l[i].timer = a
    BY <1>11, <2>1 DEF Absent
  <2>2. CASE l[i].timer # a
    <3>1. PICK j \in 1 .. Len(s.timers) : l[i] = s.timers[j]
      BY <1>8, <2>2 DEF KeptOr
    <3>2. s.timers[j].timer \in Auths /\ s.auths[s.timers[j].timer].valid
      BY EntryTypes DEF Sound, Listed
    <3> QED BY <1>6, <2>2, <3>1, <3>2 DEF OnlyTimed
  <2> QED BY <2>1, <2>2
<1>13. Sound(w)
  BY <1>6, <1>8, <1>9, <1>10, <1>12 DEF Sound
<1>14. OnlyTimed(s, w, a)
  BY <1>6, <1>9 DEF OnlyTimed
<1> QED BY <1>1, <1>13, <1>14

(* v is s with another record for a. *)
Edited(s, v, a, n) ==
    /\ v \in States /\ v.timers = s.timers /\ v.clients = s.clients
    /\ v.auths[a] = n
    /\ \A b \in Auths \ {a} : v.auths[b] = s.auths[b]

LEMMA EditedSound ==
    ASSUME NEW s, Sound(s), NEW a \in Auths, s.auths[a].valid, NEW n, n.valid, n.fresh = s.auths[a].fresh,
           NEW v, Edited(s, v, a, n)
    PROVE  Sound(v)
<1>1. \A b \in Auths : /\ v.auths[b].valid <=> s.auths[b].valid
                       /\ v.auths[b].fresh <=> s.auths[b].fresh
  BY DEF Edited
<1>2. \A i \in 1 .. Len(s.timers) : s.timers[i].timer \in Auths
  BY EntryTypes DEF Sound, Listed
<1> QED BY <1>1, <1>2 DEF Edited, Sound

(* Fields of an authorization are assigned.                                *)
SecondsBecome(s, a, x) == [s EXCEPT !.auths[a].secondsRemaining = x]

RefcntBecomes(s, a, r) == [s EXCEPT !.auths[a].refcnt = r]

LEMMA SecondsSet ==
    ASSUME NEW s, Sound(s), NEW a \in Auths, s.auths[a].valid, NEW x \in Nat
    PROVE  /\ Sound(SecondsBecome(s, a, x))
           /\ \E n : Edited(s, SecondsBecome(s, a, x), a, n)
           /\ SecondsBecome(s, a, x).auths[a].valid
           /\ SecondsBecome(s, a, x).auths[a].timeout = s.auths[a].timeout
           /\ SecondsBecome(s, a, x).auths[a].refcnt = s.auths[a].refcnt
           /\ SecondsBecome(s, a, x).auths[a].secondsRemaining = x
           /\ OnlyTimed(s, SecondsBecome(s, a, x), a)
<1>1. s \in States /\ s.auths \in [Auths -> Auth] /\ s.auths[a] \in Auth
  BY DEF Sound, States
<1>2. PICK n : n = [s.auths[a] EXCEPT !.secondsRemaining = x]
  OBVIOUS
<1>3. /\ n \in Auth /\ n.valid /\ n.fresh = s.auths[a].fresh
      /\ n.refcnt = s.auths[a].refcnt /\ n.timeout = s.auths[a].timeout
      /\ n.secondsRemaining = x
  BY <1>1, <1>2 DEF Auth
<1>4. PICK v : v = SecondsBecome(s, a, x)
  OBVIOUS
<1>5. /\ v.timers = s.timers /\ v.clients = s.clients
      /\ v.auths = [s.auths EXCEPT ![a] = n]
      /\ v \in [timers: {s.timers}, auths: {v.auths}, clients: {s.clients}]
  BY <1>1, <1>2, <1>4 DEF States, SecondsBecome
<1>6. v.auths \in [Auths -> Auth] /\ v.auths[a] = n /\ \A b \in Auths \ {a} : v.auths[b] = s.auths[b]
  BY <1>1, <1>3, <1>5
<1>7. Edited(s, v, a, n)
  BY <1>1, <1>5, <1>6 DEF Edited, States
<1>8. Sound(v)
  BY <1>3, <1>7, EditedSound
<1>9. OnlyTimed(s, v, a)
  BY <1>3, <1>7 DEF Edited, OnlyTimed
<1> QED BY <1>2, <1>3, <1>4, <1>6, <1>7, <1>8, <1>9

LEMMA RefcntSet ==
    ASSUME NEW s, Sound(s), NEW a \in Auths, s.auths[a].valid, NEW r \in 0 .. Wrap - 1
    PROVE  /\ Sound(RefcntBecomes(s, a, r))
           /\ \E n : Edited(s, RefcntBecomes(s, a, r), a, n)
           /\ RefcntBecomes(s, a, r).auths[a].valid
           /\ RefcntBecomes(s, a, r).auths[a].refcnt = r
           /\ RefcntBecomes(s, a, r).auths[a].timeout = s.auths[a].timeout
           /\ RefcntBecomes(s, a, r).auths[a].secondsRemaining = s.auths[a].secondsRemaining
           /\ RefcntBecomes(s, a, r).auths[a].fresh = s.auths[a].fresh
<1>1. s \in States /\ s.auths \in [Auths -> Auth] /\ s.auths[a] \in Auth
  BY DEF Sound, States
<1>2. PICK n : n = [s.auths[a] EXCEPT !.refcnt = r]
  OBVIOUS
<1>3. /\ n \in Auth /\ n.valid /\ n.fresh = s.auths[a].fresh
      /\ n.refcnt = r /\ n.timeout = s.auths[a].timeout
      /\ n.secondsRemaining = s.auths[a].secondsRemaining
  BY <1>1, <1>2 DEF Auth
<1>4. PICK v : v = RefcntBecomes(s, a, r)
  OBVIOUS
<1>5. /\ v.timers = s.timers /\ v.clients = s.clients
      /\ v.auths = [s.auths EXCEPT ![a] = n]
      /\ v \in [timers: {s.timers}, auths: {v.auths}, clients: {s.clients}]
  BY <1>1, <1>2, <1>4 DEF States, RefcntBecomes
<1>6. v.auths \in [Auths -> Auth] /\ v.auths[a] = n /\ \A b \in Auths \ {a} : v.auths[b] = s.auths[b]
  BY <1>1, <1>3, <1>5
<1>7. Edited(s, v, a, n)
  BY <1>1, <1>5, <1>6 DEF Edited, States
<1>8. Sound(v)
  BY <1>3, <1>7, EditedSound
<1> QED BY <1>2, <1>3, <1>4, <1>6, <1>7, <1>8

(* Two such steps are one.                                                 *)
LEMMA OnlyTimedTwice ==
    ASSUME NEW s, NEW u, NEW v, NEW a, OnlyTimed(s, u, a), OnlyTimed(u, v, a)
    PROVE  OnlyTimed(s, v, a)
<1>1. ASSUME NEW c \in Clients
      PROVE  \/ v.clients[c] = s.clients[c]
             \/ s.clients[c].authId = a /\ Leftover(v.clients[c], a)
  <2>1. \/ v.clients[c] = u.clients[c]
        \/ u.clients[c].authId = a /\ Leftover(v.clients[c], a)
    BY DEF OnlyTimed
  <2>2. \/ u.clients[c] = s.clients[c]
        \/ s.clients[c].authId = a /\ Leftover(u.clients[c], a)
    BY DEF OnlyTimed
  <2> QED BY <2>1, <2>2
<1> QED BY <1>1 DEF OnlyTimed

(* SecurityStartAuthorizationTimer                                         *)
LEMMA StartedFacts ==
    ASSUME time \in Nat, NEW s, Sound(s), NEW a \in Auths, s.auths[a].valid
    PROVE  Sound(Started(s, a)) /\ OnlyTimed(s, Started(s, a), a)
<1>1. s \in States /\ s.auths \in [Auths -> Auth] /\ s.auths[a] \in Auth
  BY DEF Sound, States
<1>2. PICK seconds : seconds = s.auths[a].timeout
  OBVIOUS
<1>3. seconds \in Nat
  <2>1. s.auths[a].timeout \in Timeouts \cup {0}
    BY <1>1 DEF Auth
  <2>2. \A x \in Timeouts : x \in Nat
    BY AuthorizationsAssumption
  <2>3. seconds \in Timeouts \/ seconds = 0
    BY <1>2, <2>1
  <2> QED BY <2>2, <2>3
<1>4. Milliseconds(seconds) \in Nat /\ Overflow(seconds) \in Nat
  BY <1>3, SecondsFacts
<1>5. PICK v : v = SecondsBecome(s, a, Overflow(seconds))
  OBVIOUS
<1>6. Sound(v) /\ OnlyTimed(s, v, a) /\ v.auths[a].valid
  BY <1>4, <1>5, SecondsSet
<1>7. Sound(WithTimer(v, a, Milliseconds(seconds))) /\ OnlyTimed(v, WithTimer(v, a, Milliseconds(seconds)), a)
  BY <1>4, <1>6, WithTimerFacts
<1>8. Started(s, a) = WithTimer(v, a, Milliseconds(seconds))
  BY <1>2, <1>5 DEF Started, SecondsBecome
<1> QED BY <1>6, <1>7, <1>8, OnlyTimedTwice

(* The state after a client with the authorization is gone or retained:    *)
(* it is counted off.                                                      *)
LEMMA UncountedFacts ==
    ASSUME time \in Nat, NEW s, Sound(s), NEW a \in Auths
    PROVE  /\ Sound(Uncounted(s, a))
           /\ \A b \in Auths \ {a} : Uncounted(s, a).auths[b] = s.auths[b]
           /\ Uncounted(s, a).auths[a].fresh => s.auths[a].fresh
           /\ Uncounted(s, a).auths[a].valid =>
                 /\ s.auths[a].valid
                 /\ Uncounted(s, a).auths[a].refcnt = Card(s.auths[a].refcnt - 1)
                 /\ Uncounted(s, a).auths[a].timeout = s.auths[a].timeout
                 /\ Uncounted(s, a).clients = s.clients
           /\ \A c \in Clients :
                 \/ Uncounted(s, a).clients[c] = s.clients[c]
                 \/ s.clients[c].authId = a /\ Leftover(Uncounted(s, a).clients[c], a)
<1>1. s \in States /\ s.auths \in [Auths -> Auth] /\ s.auths[a] \in Auth /\ a # NoAuth
  BY AuthorizationsAssumption DEF Sound, States
<1>2. CASE ~s.auths[a].valid
  <2>1. Uncounted(s, a) = s
    BY <1>2 DEF Uncounted
  <2> QED BY <1>2, <2>1
<1>3. CASE s.auths[a].valid
  <2>1. PICK r : r = Card(s.auths[a].refcnt - 1)
    OBVIOUS
  <2>2. r \in 0 .. Wrap - 1
    <3>1. s.auths[a].refcnt - 1 \in Int
      BY <1>1, TimerListAssumption DEF Auth
    <3> QED BY <2>1, <3>1, CardType
  <2>3. PICK u : u = RefcntBecomes(s, a, r)
    OBVIOUS
  <2>4. /\ Sound(u) /\ u.clients = s.clients /\ u.timers = s.timers
        /\ \A b \in Auths \ {a} : u.auths[b] = s.auths[b]
        /\ u.auths[a].valid /\ u.auths[a].refcnt = r
        /\ u.auths[a].timeout = s.auths[a].timeout
        /\ u.auths[a].fresh = s.auths[a].fresh
    <3>1. /\ Sound(u) /\ u.auths[a].valid /\ u.auths[a].refcnt = r
          /\ u.auths[a].timeout = s.auths[a].timeout
          /\ u.auths[a].fresh = s.auths[a].fresh
      BY <1>3, <2>2, <2>3, RefcntSet
    <3>2. \E n : Edited(s, u, a, n)
      BY <1>3, <2>2, <2>3, RefcntSet
    <3> QED BY <3>1, <3>2 DEF Edited
  <2>5. Uncounted(s, a) = IF u.auths[a].refcnt = 0 THEN Started(u, a) ELSE u
    <3>1. [s EXCEPT !.auths[a].refcnt = Card(@ - 1)] = u
      BY <1>1, <2>1, <2>3 DEF States, RefcntBecomes
    <3> QED BY <1>1, <1>3, <3>1 DEF Uncounted
  <2>6. CASE u.auths[a].refcnt # 0
    BY <1>3, <2>1, <2>4, <2>5, <2>6
  <2>7. CASE u.auths[a].refcnt = 0
    <3>1. Uncounted(s, a) = Started(u, a)
      BY <2>5, <2>7
    <3>2. Sound(Started(u, a)) /\ OnlyTimed(u, Started(u, a), a)
      BY <2>4, StartedFacts
    <3> QED BY <1>3, <2>1, <2>4, <3>1, <3>2 DEF OnlyTimed
  <2> QED BY <2>6, <2>7
<1> QED BY <1>2, <1>3

(* The state after a client has connected with the authorization           *)
LEMMA CountedFacts ==
    ASSUME NEW s, Sound(s), NEW a \in Auths, s.auths[a].valid
    PROVE  /\ Sound(Counted(s, a))
           /\ \A b \in Auths \ {a} : Counted(s, a).auths[b] = s.auths[b]
           /\ Counted(s, a).auths[a].valid
           /\ Counted(s, a).auths[a].refcnt = Card(s.auths[a].refcnt + 1)
           /\ Counted(s, a).auths[a].timeout = s.auths[a].timeout
           /\ Counted(s, a).auths[a].secondsRemaining = s.auths[a].secondsRemaining
           /\ Counted(s, a).clients = s.clients
           /\ Counted(s, a).timers
                  = IF Card(s.auths[a].refcnt + 1) = 1 THEN Unlinked(s.timers, a) ELSE s.timers
<1>1. s \in States /\ s.auths \in [Auths -> Auth] /\ s.auths[a] \in Auth
  BY DEF Sound, States
<1>2. PICK r : r = Card(s.auths[a].refcnt + 1)
  OBVIOUS
<1>3. r \in 0 .. Wrap - 1
  <2>1. s.auths[a].refcnt + 1 \in Int
    BY <1>1, TimerListAssumption DEF Auth
  <2> QED BY <1>2, <2>1, CardType
<1>4. PICK u : u = RefcntBecomes(s, a, r)
  OBVIOUS
<1>5. /\ Sound(u) /\ u.clients = s.clients /\ u.timers = s.timers
      /\ \A b \in Auths \ {a} : u.auths[b] = s.auths[b]
      /\ u.auths[a].valid /\ u.auths[a].refcnt = r
      /\ u.auths[a].timeout = s.auths[a].timeout
      /\ u.auths[a].secondsRemaining = s.auths[a].secondsRemaining
  <2>1. /\ Sound(u) /\ u.auths[a].valid /\ u.auths[a].refcnt = r
        /\ u.auths[a].timeout = s.auths[a].timeout
        /\ u.auths[a].secondsRemaining = s.auths[a].secondsRemaining
    BY <1>3, <1>4, RefcntSet
  <2>2. \E n : Edited(s, u, a, n)
    BY <1>3, <1>4, RefcntSet
  <2> QED BY <2>1, <2>2 DEF Edited
<1>6. PICK v : v = Counted(s, a)
  OBVIOUS
<1>7. v = IF u.auths[a].refcnt = 1 THEN [u EXCEPT !.timers = Unlinked(@, a)] ELSE u
  <2>1. [s EXCEPT !.auths[a].refcnt = Card(@ + 1)] = u
    BY <1>1, <1>2, <1>4 DEF States, RefcntBecomes
  <2> QED BY <1>6, <2>1 DEF Counted
<1>8. CASE r # 1
  BY <1>2, <1>5, <1>6, <1>7, <1>8
<1>9. CASE r = 1
  <2>1. PICK l : l = Unlinked(u.timers, a)
    OBVIOUS
  <2>2. v = [u EXCEPT !.timers = l]
    BY <1>5, <1>7, <1>9, <2>1
  <2>3. Listed(Auths, l) /\ PartOf(l, u.timers)
    BY <1>5, <2>1, UnlinkListed DEF Sound
  <2>4. /\ v.timers = l /\ v.auths = u.auths /\ v.clients = u.clients
        /\ v \in [timers: {l}, auths: {u.auths}, clients: {u.clients}]
    BY <1>5, <2>2 DEF Sound, States
  <2>5. v \in States
    BY <1>5, <2>3, <2>4 DEF Sound, States, Listed
  <2>6. Sound(v)
    BY <1>5, <2>3, <2>4, <2>5 DEF Sound, PartOf
  <2> QED BY <1>2, <1>5, <1>6, <1>9, <2>1, <2>4, <2>6
<1> QED BY <1>8, <1>9

-----------------------------------------------------------------------------
(***************************************************************************)
(* The invariant that counts clients.                                      *)
(***************************************************************************)

Base == AuthTypeOK /\ Sound(State) /\ RefcntCountsUsers

(* There are fewer clients than a refcnt can count.                        *)
LEMMA CardinalityFacts ==
    ASSUME NEW S, S \subseteq Clients
    PROVE  IsFiniteSet(S) /\ Cardinality(S) \in 0 .. Wrap - 1
<1>1. IsFiniteSet(Clients) /\ Cardinality(Clients) < Wrap /\ Cardinality(Clients) \in Nat
  BY AuthorizationsAssumption, FS_CardinalityType
<1>2. IsFiniteSet(S) /\ Cardinality(S) <= Cardinality(Clients)
  BY <1>1, FS_Subset
<1>3. Cardinality(S) \in Nat
  BY <1>2, FS_CardinalityType
<1> QED BY <1>1, <1>2, <1>3, TimerListAssumption

(* What the functions of security.c return becomes the state.              *)
LEMMA BecomesSound ==
    ASSUME NEW v, Sound(v), Becomes(v)
    PROVE  State' = v /\ Sound(State)'
<1>1. v = [timers |-> v.timers, auths |-> v.auths, clients |-> v.clients]
  BY DEF Sound, States
<1>2. State' = v
  BY <1>1 DEF Becomes, State
<1> QED BY <1>2

LEMMA StateFacts ==
    ASSUME Sound(State)
    PROVE  /\ State.timers = timers /\ State.auths = auths /\ State.clients = clients
           /\ auths \in [Auths -> Auth] /\ clients \in [Clients -> ClientRec]
           /\ timers \in Seq(Entries(Auths)) /\ Listed(Auths, timers)
           /\ \A i \in 1 .. Len(timers) : timers[i].timer \in Auths /\ auths[timers[i].timer].valid
           /\ \A c \in Clients : clients[c].state # "NULL" => clients[c].authId \in Auths
           /\ \A b \in Auths : auths[b].fresh =>
                 ~auths[b].valid /\ \A c \in Clients : clients[c].authId # b
<1>1. State.timers = timers /\ State.auths = auths /\ State.clients = clients
  BY DEF State
<1>2. State \in States /\ Listed(Auths, timers) /\ timers \in Seq(Entries(Auths))
  BY <1>1 DEF Sound, Listed
<1>3. auths \in [Auths -> Auth] /\ clients \in [Clients -> ClientRec]
  BY <1>1, <1>2 DEF States
<1>4. \A i \in 1 .. Len(timers) : timers[i].timer \in Auths /\ auths[timers[i].timer].valid
  <2>1. \A i \in 1 .. Len(timers) : timers[i].timer \in Auths
    BY <1>2, EntryTypes
  <2> QED BY <1>1, <2>1 DEF Sound
<1>5. /\ \A c \in Clients : clients[c].state # "NULL" => clients[c].authId \in Auths
      /\ \A b \in Auths : auths[b].fresh =>
            ~auths[b].valid /\ \A c \in Clients : clients[c].authId # b
  BY <1>1 DEF Sound
<1> QED BY <1>1, <1>2, <1>3, <1>4, <1>5

LEMMA TypeKept ==
    ASSUME AuthTypeOK, NEW v, Sound(v), Becomes(v), UpdateIdle, time' = time,
           closeDownMode' \in [Clients -> {"DestroyAll", "Retain"}], miscounted' \subseteq Auths
    PROVE  AuthTypeOK'
<1>1. v \in States
  BY DEF Sound
<1>2. /\ timers' \in Seq(Entries(Auths)) /\ auths' \in [Auths -> Auth]
      /\ clients' \in [Clients -> ClientRec]
  BY <1>1 DEF States, Becomes
<1>3. time \in 0 .. MaxTime /\ MaxTime \in Nat /\ idleSince \in [Auths -> 0 .. InUse]
  BY AuthorizationsAssumption DEF AuthTypeOK
<1>4. InUse = MaxTime + 1
  BY DEF InUse
<1>5. 0 \in 0 .. InUse /\ InUse \in 0 .. InUse /\ time \in 0 .. InUse
  BY <1>3, <1>4
<1>6. idleSince' \in [Auths -> 0 .. InUse]
  <2> HIDE DEF InUse
  <2> QED BY <1>3, <1>5 DEF UpdateIdle
<1> QED BY <1>2, <1>3, <1>6 DEF AuthTypeOK, Entries, ClientRec

(* A step that only changes an authorization's timer keeps the counts.     *)
LEMMA TimedCounts ==
    ASSUME Base, NEW v, Sound(v), Becomes(v), NEW a \in Auths, OnlyTimed(State, v, a),
           miscounted' = miscounted
    PROVE  RefcntCountsUsers'
<1>1. State.auths = auths /\ State.clients = clients
  BY DEF State
<1>2. timers' = v.timers /\ auths' = v.auths /\ clients' = v.clients
  BY DEF Becomes
<1>3. ASSUME NEW b \in Auths \ miscounted, auths'[b].valid
      PROVE  auths'[b].refcnt = Cardinality(Users(b)')
  <2>1. CASE b = a
    <3>1. clients' = clients /\ auths[a].valid /\ auths'[a].refcnt = auths[a].refcnt
      BY <1>1, <1>2, <1>3, <2>1 DEF OnlyTimed
    <3>2. Users(a)' = Users(a)
      BY <3>1 DEF Users
    <3>3. auths[a].refcnt = Cardinality(Users(a))
      BY <1>3, <2>1, <3>1 DEF Base, RefcntCountsUsers
    <3> QED BY <2>1, <3>1, <3>2, <3>3
  <2>2. CASE b # a
    <3>1. auths'[b] = auths[b]
      BY <1>1, <1>2, <2>2 DEF OnlyTimed
    <3>2. ASSUME NEW c \in Clients
          PROVE  \/ clients'[c] = clients[c]
                 \/ clients[c].authId = a /\ Leftover(clients'[c], a)
      BY <1>1, <1>2 DEF OnlyTimed
    <3>3. Users(b)' = Users(b)
      <4>1. ASSUME NEW c \in Clients
            PROVE  clients'[c] = [state |-> "Running", authId |-> b]
                       <=> clients[c] = [state |-> "Running", authId |-> b]
        BY <2>2, <3>2 DEF Leftover, NoClient
      <4> QED BY <4>1 DEF Users
    <3>4. auths[b].refcnt = Cardinality(Users(b))
      BY <1>3, <3>1 DEF Base, RefcntCountsUsers
    <3> QED BY <3>1, <3>3, <3>4
  <2> QED BY <2>1, <2>2
<1> QED BY <1>3 DEF RefcntCountsUsers

(* A client that leaves is counted off its authorization.  One that was    *)
(* retained is counted off once more.                                      *)
LEMMA LeaveCounts ==
    ASSUME Base, NEW v, Becomes(v), NEW c \in Clients, clients[c].state # "NULL",
           NEW a \in Auths, a = clients[c].authId,
           \A b \in Auths \ {a} : v.auths[b] = auths[b],
           v.auths[a].valid =>
               /\ auths[a].valid
               /\ v.auths[a].refcnt = Card(auths[a].refcnt - 1)
               /\ \A k \in Clients \ {c} : v.clients[k] = clients[k],
           \A k \in Clients \ {c} : \/ v.clients[k] = clients[k]
                                    \/ clients[k].authId = a /\ Leftover(v.clients[k], a),
           Leftover(v.clients[c], a),
           \/ miscounted' = miscounted /\ clients[c].state = "Running"
           \/ miscounted' = miscounted \cup {a}
    PROVE  RefcntCountsUsers'
<1>1. auths' = v.auths /\ clients' = v.clients
  BY DEF Becomes
<1>2. ASSUME NEW b \in Auths \ miscounted', auths'[b].valid, b # a
      PROVE  auths'[b].refcnt = Cardinality(Users(b)')
  <2>1. auths'[b] = auths[b] /\ b \notin miscounted
    BY <1>1, <1>2
  <2>2. ASSUME NEW k \in Clients
        PROVE  clients'[k] = [state |-> "Running", authId |-> b]
                   <=> clients[k] = [state |-> "Running", authId |-> b]
    BY <1>1, <1>2 DEF Leftover, NoClient
  <2>3. Users(b)' = Users(b)
    BY <2>2 DEF Users
  <2>4. auths[b].refcnt = Cardinality(Users(b))
    BY <1>2, <2>1 DEF Base, RefcntCountsUsers
  <2> QED BY <2>1, <2>3, <2>4
<1>3. ASSUME a \notin miscounted', auths'[a].valid
      PROVE  auths'[a].refcnt = Cardinality(Users(a)')
  <2>1. clients[c].state = "Running" /\ a \notin miscounted
    BY <1>3
  <2>2. auths[a].valid /\ auths'[a].refcnt = Card(auths[a].refcnt - 1)
    BY <1>1, <1>3
  <2>3. auths[a].refcnt = Cardinality(Users(a))
    BY <2>1, <2>2 DEF Base, RefcntCountsUsers
  <2>4. clients[c] = [state |-> "Running", authId |-> a]
    <3>1. clients[c] \in ClientRec
      BY StateFacts DEF Base
    <3> QED BY <2>1, <3>1 DEF ClientRec
  <2>5. Users(a)' = Users(a) \ {c}
    <3>1. clients'[c] # [state |-> "Running", authId |-> a]
      BY <1>1 DEF Leftover, NoClient
    <3>2. \A k \in Clients \ {c} : clients'[k] = clients[k]
      BY <1>1, <1>3
    <3> QED BY <3>1, <3>2 DEF Users
  <2>6. c \in Users(a) /\ Users(a) \subseteq Clients
    BY <2>4 DEF Users
  <2>7. IsFiniteSet(Users(a)) /\ Cardinality(Users(a)) \in 0 .. Wrap - 1
    BY <2>6, CardinalityFacts
  <2>8. Cardinality(Users(a) \ {c}) = Cardinality(Users(a)) - 1
    BY <2>6, <2>7, FS_RemoveElement
  <2>9. Cardinality(Users(a) \ {c}) \in 0 .. Wrap - 1
    BY <2>6, CardinalityFacts
  <2>10. PICK n : n = Cardinality(Users(a)) - 1
    OBVIOUS
  <2>11. n \in 0 .. Wrap - 1
    BY <2>8, <2>9, <2>10
  <2>12. Card(n) = n
    BY <2>11, TimerListAssumption, ModSmall DEF Card
  <2> QED BY <2>2, <2>3, <2>5, <2>8, <2>10, <2>12
<1> QED BY <1>2, <1>3 DEF RefcntCountsUsers

-----------------------------------------------------------------------------
(* What SecurityGenerateAuthorization makes, before it starts the timer *)
Generated(a, seconds) ==
    [State EXCEPT !.auths[a] = [NewAuth EXCEPT !.valid = TRUE, !.fresh = FALSE,
                                               !.timeout = seconds]]

(* A new authorization has no clients and no timer.                        *)
LEMMA GeneratedSound ==
    ASSUME Base, NEW a \in Auths, NEW seconds \in Timeouts, auths[a].fresh,
           NEW s, s = Generated(a, seconds)
    PROVE  /\ Sound(s) /\ s.timers = timers /\ s.clients = clients
           /\ s.auths[a].valid /\ s.auths[a].refcnt = 0 /\ s.auths[a].timeout = seconds
           /\ s.auths[a].secondsRemaining = 0
           /\ \A b \in Auths \ {a} : s.auths[b] = auths[b]
           /\ ~auths[a].valid /\ \A c \in Clients : clients[c].authId # a
           /\ Absent(timers, a)
<1>1. PICK n : /\ n = [NewAuth EXCEPT !.valid = TRUE, !.fresh = FALSE, !.timeout = seconds]
               /\ s = [State EXCEPT !.auths[a] = n]
  BY Zenon DEF Generated
<1>2. /\ n \in Auth /\ n.valid /\ ~n.fresh /\ n.refcnt = 0 /\ n.timeout = seconds
      /\ n.secondsRemaining = 0
  <2>1. n = [valid |-> TRUE, fresh |-> FALSE, timeout |-> seconds, refcnt |-> 0, secondsRemaining |-> 0]
    BY <1>1 DEF NewAuth
  <2>2. 0 \in 0 .. Wrap - 1
    BY TimerListAssumption
  <2> QED BY <2>1, <2>2 DEF Auth
<1>3. ~auths[a].valid /\ \A c \in Clients : clients[c].authId # a
  BY StateFacts DEF Base
<1>4. s = [State EXCEPT !.auths[a] = n]
  BY <1>1, Zenon
<1>5. /\ s.timers = timers /\ s.clients = clients /\ s.auths = [auths EXCEPT ![a] = n]
      /\ s \in [timers: {timers}, auths: {s.auths}, clients: {clients}]
  BY <1>4 DEF State
<1>6. /\ s.auths \in [Auths -> Auth] /\ s.auths[a] = n
      /\ \A b \in Auths \ {a} : s.auths[b] = auths[b]
  <2>1. auths \in [Auths -> Auth]
    BY StateFacts DEF Base
  <2> QED BY <1>2, <1>5, <2>1
<1>7. \A i \in 1 .. Len(timers) : timers[i].timer \in Auths /\ timers[i].timer # a
  BY <1>3, StateFacts DEF Base
<1>8. Sound(s)
  <2>1. s \in States
    BY <1>5, <1>6, StateFacts DEF Base, States
  <2>2. \A i \in 1 .. Len(timers) : s.auths[timers[i].timer].valid
    BY <1>6, <1>7, StateFacts DEF Base
  <2>3. ASSUME NEW b \in Auths, s.auths[b].fresh
        PROVE  ~s.auths[b].valid /\ \A c \in Clients : clients[c].authId # b
    BY <1>2, <1>6, <2>3, StateFacts DEF Base
  <2>4. /\ Listed(Auths, timers)
        /\ \A c \in Clients : clients[c].state # "NULL" => clients[c].authId \in Auths
    BY StateFacts DEF Base
  <2> QED BY <1>5, <2>1, <2>2, <2>3, <2>4 DEF Sound
<1>9. Absent(timers, a)
  BY <1>7 DEF Absent
<1> QED BY <1>2, <1>3, <1>5, <1>6, <1>8, <1>9

LEMMA GenerateBase ==
    ASSUME Base, NEW a \in Auths, NEW seconds \in Timeouts, GenerateAuthorization(a, seconds)
    PROVE  Base'
<1>1. PICK s : s = Generated(a, seconds)
  OBVIOUS
<1>2. PICK v : v = IF seconds # 0 THEN Started(s, a) ELSE s
  OBVIOUS
<1>3. /\ auths[a].fresh /\ Becomes(v) /\ UpdateIdle
      /\ UNCHANGED <<time, closeDownMode, miscounted>>
  BY <1>1, <1>2 DEF GenerateAuthorization, Generated
<1>4. /\ Sound(s) /\ s.clients = clients /\ s.auths[a].valid /\ s.auths[a].refcnt = 0
      /\ \A b \in Auths \ {a} : s.auths[b] = auths[b]
      /\ \A c \in Clients : clients[c].authId # a
  BY <1>1, <1>3, GeneratedSound
<1>5. Sound(v) /\ OnlyTimed(s, v, a)
  <2>1. time \in Nat
    BY AuthorizationsAssumption DEF Base, AuthTypeOK
  <2>2. OnlyTimed(s, s, a)
    BY DEF OnlyTimed
  <2> QED BY <1>2, <1>4, <2>1, <2>2, StartedFacts
<1>6. AuthTypeOK' /\ Sound(State)'
  <2>1. closeDownMode' \in [Clients -> {"DestroyAll", "Retain"}] /\ miscounted' \subseteq Auths
    BY <1>3 DEF Base, AuthTypeOK
  <2> QED BY <1>3, <1>5, <2>1, BecomesSound, TypeKept DEF Base
<1>7. ASSUME NEW b \in Auths \ miscounted', auths'[b].valid
      PROVE  auths'[b].refcnt = Cardinality(Users(b)')
  <2>1. auths' = v.auths /\ clients' = v.clients /\ miscounted' = miscounted
    BY <1>3 DEF Becomes
  <2>2. CASE b = a
    <3>1. clients' = clients /\ auths'[a].refcnt = 0
      BY <1>4, <1>5, <1>7, <2>1, <2>2 DEF OnlyTimed
    <3>2. Users(a)' = {}
      BY <1>4, <3>1 DEF Users
    <3> QED BY <2>2, <3>1, <3>2, FS_EmptySet
  <2>3. CASE b # a
    <3>1. auths'[b] = auths[b]
      BY <1>4, <1>5, <2>1, <2>3 DEF OnlyTimed
    <3>2. ASSUME NEW c \in Clients PROVE clients'[c] = clients[c]
      BY <1>4, <1>5, <2>1 DEF OnlyTimed
    <3>3. Users(b)' = Users(b)
      BY <3>2 DEF Users
    <3>4. auths[b].refcnt = Cardinality(Users(b))
      BY <1>7, <2>1, <3>1 DEF Base, RefcntCountsUsers
    <3> QED BY <3>1, <3>3, <3>4
  <2> QED BY <2>2, <2>3
<1> QED BY <1>6, <1>7 DEF Base, RefcntCountsUsers

(* The clients before ClientStateCallback looks at c, whose record is r *)
Turned(c, r) == [State EXCEPT !.clients[c] = r]

LEMMA TurnedSound ==
    ASSUME Base, NEW a \in Auths, NEW c \in Clients, NEW r, NEW s, s = Turned(c, r),
           r \in ClientRec, r.authId = a, ~auths[a].fresh
    PROVE  /\ Sound(s) /\ s.timers = timers /\ s.auths = auths
           /\ s.clients[c] = r /\ \A k \in Clients \ {c} : s.clients[k] = clients[k]
<1>1. clients \in [Clients -> ClientRec]
  BY StateFacts DEF Base
<1>2. /\ s.timers = timers /\ s.auths = auths /\ s.clients = [clients EXCEPT ![c] = r]
      /\ s \in [timers: {timers}, auths: {auths}, clients: {s.clients}]
  BY DEF State, Turned
<1>3. /\ s.clients \in [Clients -> ClientRec] /\ s.clients[c] = r
      /\ \A k \in Clients \ {c} : s.clients[k] = clients[k]
  BY <1>1, <1>2
<1>4. s \in States
  BY <1>2, <1>3, StateFacts DEF Base, States
<1>5. \A k \in Clients : s.clients[k].state # "NULL" => s.clients[k].authId \in Auths
  BY <1>3, StateFacts DEF Base
<1>6. ASSUME NEW b \in Auths, auths[b].fresh
      PROVE  ~auths[b].valid /\ \A k \in Clients : s.clients[k].authId # b
  BY <1>3, <1>6, StateFacts DEF Base
<1>7. /\ Listed(Auths, timers)
      /\ \A i \in 1 .. Len(timers) : auths[timers[i].timer].valid
  BY StateFacts DEF Base
<1>8. Sound(s)
  BY <1>2, <1>4, <1>5, <1>6, <1>7 DEF Sound
<1> QED BY <1>2, <1>3, <1>8

LEMMA ConnectBase ==
    ASSUME Base, NEW a \in Auths, NEW c \in Clients, Connect(c, a)
    PROVE  Base'
<1>1. PICK r : r = [state |-> "Running", authId |-> a]
  OBVIOUS
<1>2. PICK s : s = Turned(c, r)
  OBVIOUS
<1>3. /\ clients[c].state = "NULL" /\ auths[a].valid
      /\ Becomes(Counted(s, a)) /\ UpdateIdle /\ UNCHANGED <<time, miscounted>>
      /\ closeDownMode' = [closeDownMode EXCEPT ![c] = "DestroyAll"]
  BY <1>1, <1>2 DEF Connect, Turned
<1>4. r \in ClientRec /\ r.authId = a /\ ~auths[a].fresh
  BY <1>1, <1>3, StateFacts DEF ClientRec, Base
<1>5. /\ Sound(s) /\ s.timers = timers /\ s.auths = auths
      /\ s.clients[c] = r /\ \A k \in Clients \ {c} : s.clients[k] = clients[k]
  BY <1>2, <1>4, TurnedSound
<1>6. PICK v : v = Counted(s, a)
  OBVIOUS
<1>7. /\ Sound(v) /\ \A b \in Auths \ {a} : v.auths[b] = auths[b]
      /\ v.auths[a].refcnt = Card(auths[a].refcnt + 1) /\ v.clients = s.clients
  <2>1. s.auths[a].valid
    BY <1>3, <1>5
  <2>2. /\ Sound(v) /\ \A b \in Auths \ {a} : v.auths[b] = s.auths[b]
        /\ v.auths[a].refcnt = Card(s.auths[a].refcnt + 1) /\ v.clients = s.clients
    BY <1>5, <1>6, <2>1, CountedFacts
  <2> QED BY <1>5, <2>2
<1>8. AuthTypeOK' /\ Sound(State)'
  <2>1. closeDownMode' \in [Clients -> {"DestroyAll", "Retain"}] /\ miscounted' \subseteq Auths
    BY <1>3 DEF Base, AuthTypeOK
  <2> QED BY <1>3, <1>6, <1>7, <2>1, BecomesSound, TypeKept DEF Base
<1>9. auths' = v.auths /\ clients' = s.clients /\ miscounted' = miscounted
  BY <1>3, <1>6, <1>7 DEF Becomes
<1>10. ASSUME NEW b \in Auths \ miscounted', auths'[b].valid
       PROVE  auths'[b].refcnt = Cardinality(Users(b)')
  <2>1. CASE b = a
    <3>1. auths[a].refcnt = Cardinality(Users(a))
      BY <1>3, <1>9, <1>10, <2>1 DEF Base, RefcntCountsUsers
    <3>2. Users(a)' = Users(a) \cup {c}
      BY <1>1, <1>5, <1>9 DEF Users
    <3>3. c \notin Users(a)
      BY <1>3 DEF Users
    <3>4. IsFiniteSet(Users(a)) /\ Cardinality(Users(a)) \in 0 .. Wrap - 1
      <4>1. Users(a) \subseteq Clients
        BY DEF Users
      <4> QED BY <4>1, CardinalityFacts
    <3>5. Cardinality(Users(a) \cup {c}) = Cardinality(Users(a)) + 1
      BY <3>3, <3>4, FS_AddElement
    <3>6. Cardinality(Users(a) \cup {c}) \in 0 .. Wrap - 1
      <4>1. Users(a) \cup {c} \subseteq Clients
        BY DEF Users
      <4> QED BY <4>1, CardinalityFacts
    <3>7. PICK n : n = Cardinality(Users(a)) + 1
      OBVIOUS
    <3>8. n \in 0 .. Wrap - 1
      BY <3>5, <3>6, <3>7
    <3>9. Card(n) = n
      BY <3>8, TimerListAssumption, ModSmall DEF Card
    <3> QED BY <1>7, <1>9, <2>1, <3>1, <3>2, <3>5, <3>7, <3>9
  <2>2. CASE b # a
    <3>1. auths'[b] = auths[b]
      BY <1>7, <1>9, <2>2
    <3>2. Users(b)' = Users(b)
      <4>1. ASSUME NEW k \in Clients
            PROVE  clients'[k] = [state |-> "Running", authId |-> b]
                       <=> clients[k] = [state |-> "Running", authId |-> b]
        BY <1>1, <1>3, <1>5, <1>9, <2>2
      <4> QED BY <4>1 DEF Users
    <3>3. auths[b].refcnt = Cardinality(Users(b))
      BY <1>9, <1>10, <3>1 DEF Base, RefcntCountsUsers
    <3> QED BY <3>1, <3>2, <3>3
  <2> QED BY <2>1, <2>2
<1> QED BY <1>8, <1>10 DEF Base, RefcntCountsUsers

(* What becomes of a client's record: r *)
Left(s, c, r) == [s EXCEPT !.clients[c] = r]

LEMMA LeftSound ==
    ASSUME NEW s, Sound(s), NEW c \in Clients, NEW a \in Auths, ~s.auths[a].fresh,
           NEW r, Leftover(r, a)
    PROVE  /\ Sound(Left(s, c, r))
           /\ Left(s, c, r).timers = s.timers /\ Left(s, c, r).auths = s.auths
           /\ Left(s, c, r).clients[c] = r
           /\ \A k \in Clients \ {c} : Left(s, c, r).clients[k] = s.clients[k]
<1>1. PICK v : v = Left(s, c, r)
  OBVIOUS
<1>2. s \in States /\ s.clients \in [Clients -> ClientRec]
  BY DEF Sound, States
<1>3. /\ v.timers = s.timers /\ v.auths = s.auths /\ v.clients = [s.clients EXCEPT ![c] = r]
      /\ v \in [timers: {s.timers}, auths: {s.auths}, clients: {v.clients}]
  BY <1>1, <1>2 DEF Left, States
<1>4. /\ r \in ClientRec
      /\ r.state # "NULL" => r.authId \in Auths
      /\ \A b \in Auths : s.auths[b].fresh => r.authId # b
  <2>1. NoAuth \notin Auths
    BY AuthorizationsAssumption
  <2>2. CASE r = NoClient
    BY <2>1, <2>2 DEF NoClient, ClientRec
  <2>3. CASE r = [state |-> "Retained", authId |-> a]
    <3>1. r.authId = a /\ r \in ClientRec
      BY <2>3 DEF ClientRec
    <3> QED BY <3>1
  <2> QED BY <2>2, <2>3 DEF Leftover
<1>5. /\ v.clients \in [Clients -> ClientRec] /\ v.clients[c] = r
      /\ \A k \in Clients \ {c} : v.clients[k] = s.clients[k]
  BY <1>2, <1>3, <1>4
<1>6. v \in States
  BY <1>2, <1>3, <1>5 DEF States
<1>7. \A k \in Clients : v.clients[k].state # "NULL" => v.clients[k].authId \in Auths
  BY <1>4, <1>5 DEF Sound
<1>8. ASSUME NEW b \in Auths, s.auths[b].fresh
      PROVE  ~s.auths[b].valid /\ \A k \in Clients : v.clients[k].authId # b
  BY <1>4, <1>5, <1>8 DEF Sound
<1>9. Sound(v)
  BY <1>3, <1>6, <1>7, <1>8 DEF Sound
<1> QED BY <1>1, <1>3, <1>5, <1>9

(* A connected or retained client is retained or gone for good.            *)
LEMMA LeaveBase ==
    ASSUME Base, NEW c \in Clients, clients[c].state # "NULL",
           NEW r, Leftover(r, clients[c].authId),
           Becomes(Left(Uncounted(State, clients[c].authId), c, r)), UpdateIdle,
           UNCHANGED <<time, closeDownMode>>,
           \/ miscounted' = miscounted /\ clients[c].state = "Running"
           \/ miscounted' = miscounted \cup {clients[c].authId}
    PROVE  Base'
<1>1. PICK a : a = clients[c].authId
  OBVIOUS
<1>2. a \in Auths /\ clients \in [Clients -> ClientRec] /\ time \in Nat
  BY <1>1, StateFacts, AuthorizationsAssumption DEF Base, AuthTypeOK
<1>3. Sound(State) /\ State.auths = auths /\ State.clients = clients
  BY StateFacts DEF Base
<1>4. PICK u : u = Uncounted(State, a)
  OBVIOUS
<1>5. /\ Sound(u)
      /\ \A b \in Auths \ {a} : u.auths[b] = State.auths[b]
      /\ u.auths[a].valid =>
             /\ State.auths[a].valid
             /\ u.auths[a].refcnt = Card(State.auths[a].refcnt - 1)
             /\ u.clients = State.clients
      /\ \A k \in Clients : \/ u.clients[k] = State.clients[k]
                            \/ State.clients[k].authId = a /\ Leftover(u.clients[k], a)
      /\ u.auths[a].fresh => State.auths[a].fresh
  BY <1>2, <1>3, <1>4, UncountedFacts
<1>6. PICK v : v = Left(u, c, r)
  OBVIOUS
<1>7. /\ Sound(v) /\ v.timers = u.timers /\ v.auths = u.auths /\ v.clients[c] = r
      /\ \A k \in Clients \ {c} : v.clients[k] = u.clients[k]
  <2>1. ~auths[a].fresh
    BY <1>1, <1>2, StateFacts DEF Base
  <2>2. ~u.auths[a].fresh /\ Leftover(r, a)
    BY <1>1, <1>3, <1>5, <2>1
  <2> QED BY <1>2, <1>5, <1>6, <2>2, LeftSound
<1>8. Becomes(v)
  BY <1>1, <1>4, <1>6
<1>9. AuthTypeOK' /\ Sound(State)'
  <2>1. closeDownMode' \in [Clients -> {"DestroyAll", "Retain"}] /\ miscounted' \subseteq Auths
    BY <1>1, <1>2 DEF Base, AuthTypeOK
  <2> QED BY <1>7, <1>8, <2>1, BecomesSound, TypeKept DEF Base
<1>10. RefcntCountsUsers'
  <2>1. /\ \A b \in Auths \ {a} : v.auths[b] = auths[b]
        /\ v.auths[a].valid =>
               /\ auths[a].valid
               /\ v.auths[a].refcnt = Card(auths[a].refcnt - 1)
               /\ \A k \in Clients \ {c} : v.clients[k] = clients[k]
        /\ \A k \in Clients \ {c} : \/ v.clients[k] = clients[k]
                                    \/ clients[k].authId = a /\ Leftover(v.clients[k], a)
        /\ Leftover(v.clients[c], a)
    BY <1>1, <1>3, <1>5, <1>7
  <2>2. \/ miscounted' = miscounted /\ clients[c].state = "Running"
        \/ miscounted' = miscounted \cup {a}
    BY <1>1
  <2> QED BY <1>1, <1>2, <1>8, <2>1, <2>2, LeaveCounts
<1> QED BY <1>9, <1>10 DEF Base

(* Retired is one case of it. *)
LEMMA RetiredLeft ==
    ASSUME NEW s, NEW c, NEW a
    PROVE  Retired(s, c) = Left(s, c, NoClient) /\ Leftover(NoClient, a)
BY DEF Retired, Left, Leftover

(* The record of a client that is retained is the other. *)
LEMMA RetainLeft ==
    ASSUME Base, NEW c \in Clients, Retain(c), NEW r, r = [clients[c] EXCEPT !.state = "Retained"]
    PROVE  /\ Leftover(r, clients[c].authId)
           /\ Becomes(Left(Uncounted(State, clients[c].authId), c, r))
<1>1. clients[c] \in ClientRec
  BY StateFacts DEF Base
<1>2. r = [state |-> "Retained", authId |-> clients[c].authId]
  BY <1>1 DEF ClientRec
<1>3. Becomes(Left(Uncounted(State, clients[c].authId), c, r))
  BY DEF Retain, Left
<1> QED BY <1>2, <1>3 DEF Leftover

LEMMA RetainBase ==
    ASSUME Base, NEW c \in Clients, Retain(c)
    PROVE  Base'
<1>1. PICK r : r = [clients[c] EXCEPT !.state = "Retained"]
  OBVIOUS
<1>2. /\ Leftover(r, clients[c].authId)
      /\ Becomes(Left(Uncounted(State, clients[c].authId), c, r))
  BY <1>1, RetainLeft
<1>3. /\ clients[c].state = "Running" /\ UpdateIdle
      /\ UNCHANGED <<time, closeDownMode, miscounted>>
  BY DEF Retain
<1> QED BY <1>2, <1>3, LeaveBase

LEMMA DisconnectBase ==
    ASSUME Base, NEW c \in Clients, Disconnect(c)
    PROVE  Base'
BY LeaveBase, RetiredLeft DEF Disconnect

LEMMA KillRetainedBase ==
    ASSUME Base, NEW c \in Clients, KillRetained(c)
    PROVE  Base'
BY LeaveBase, RetiredLeft DEF KillRetained

LEMMA RevokeBase ==
    ASSUME Base, NEW a \in Auths, RevokeAuthorization(a)
    PROVE  Base'
<1>1. PICK v : v = Deleted(State, a)
  OBVIOUS
<1>2. /\ Becomes(v) /\ UpdateIdle /\ UNCHANGED <<time, closeDownMode, miscounted>>
  BY <1>1 DEF RevokeAuthorization
<1>3. Sound(v) /\ OnlyTimed(State, v, a)
  BY <1>1, DeletedSound DEF Base
<1>4. closeDownMode' \in [Clients -> {"DestroyAll", "Retain"}] /\ miscounted' \subseteq Auths
  BY <1>2 DEF Base, AuthTypeOK
<1> QED BY <1>2, <1>3, <1>4, BecomesSound, TypeKept, TimedCounts DEF Base

LEMMA ChangeCloseDownModeBase ==
    ASSUME Base, NEW c \in Clients, ChangeCloseDownMode(c)
    PROVE  Base'
<1>1. /\ closeDownMode' = [closeDownMode EXCEPT ![c] = "Retain"]
      /\ UNCHANGED <<time, timers, auths, clients, idleSince, miscounted>>
  BY DEF ChangeCloseDownMode
<1>2. closeDownMode' \in [Clients -> {"DestroyAll", "Retain"}]
  BY <1>1 DEF Base, AuthTypeOK
<1>3. AuthTypeOK'
  BY <1>1, <1>2 DEF Base, AuthTypeOK
<1>4. State' = State
  BY <1>1 DEF State
<1>5. Sound(State)'
  BY <1>4 DEF Base, Sound
<1>6. RefcntCountsUsers'
  BY <1>1 DEF Base, RefcntCountsUsers, Users
<1> QED BY <1>3, <1>5, <1>6 DEF Base

LEMMA TickBase ==
    ASSUME Base, TimePasses
    PROVE  Base'
<1>1. /\ time' = time + 1 /\ time < MaxTime
      /\ UNCHANGED <<timers, auths, clients, closeDownMode, idleSince, miscounted>>
  BY DEF TimePasses
<1>2. AuthTypeOK'
  BY <1>1, AuthorizationsAssumption DEF Base, AuthTypeOK
<1>3. State' = State
  BY <1>1 DEF State
<1>4. Sound(State)'
  BY <1>3 DEF Base, Sound
<1>5. RefcntCountsUsers'
  BY <1>1 DEF Base, RefcntCountsUsers, Users
<1> QED BY <1>2, <1>4, <1>5 DEF Base

LEMMA StutterBase ==
    ASSUME Base, UNCHANGED authVars
    PROVE  Base'
<1>1. UNCHANGED <<time, timers, auths, clients, closeDownMode, idleSince, miscounted>>
  BY DEF authVars
<1>2. State' = State
  BY <1>1 DEF State
<1> QED BY <1>1, <1>2 DEF Base, AuthTypeOK, Sound, RefcntCountsUsers, Users

(* The state when DoTimer has taken the first timer out of the list        *)
LEMMA FirstTaken ==
    ASSUME Base, timers # <<>>, NEW s, s = [State EXCEPT !.timers = Tail(@)]
    PROVE  /\ Sound(s) /\ s.timers = Tail(timers) /\ s.auths = auths /\ s.clients = clients
           /\ auths[Head(timers).timer].valid
<1>1. /\ Listed(Auths, timers)
      /\ \A i \in 1 .. Len(timers) : timers[i].timer \in Auths /\ auths[timers[i].timer].valid
      /\ \A c \in Clients : clients[c].state # "NULL" => clients[c].authId \in Auths
      /\ \A b \in Auths : auths[b].fresh =>
            ~auths[b].valid /\ \A c \in Clients : clients[c].authId # b
      /\ auths \in [Auths -> Auth] /\ clients \in [Clients -> ClientRec]
  BY StateFacts DEF Base
<1>2. /\ Listed(Auths, Tail(timers)) /\ PartOf(Tail(timers), timers)
      /\ Head(timers) = timers[1] /\ 1 \in 1 .. Len(timers)
  BY <1>1, TailListed
<1>3. /\ s.timers = Tail(timers) /\ s.auths = auths /\ s.clients = clients
      /\ s \in [timers: {Tail(timers)}, auths: {auths}, clients: {clients}]
  BY DEF State
<1>4. s \in States
  BY <1>1, <1>2, <1>3 DEF States, Listed
<1>5. ASSUME NEW i \in 1 .. Len(Tail(timers))
      PROVE  auths[Tail(timers)[i].timer].valid
  <2>1. PICK j \in 1 .. Len(timers) : Tail(timers)[i] = timers[j]
    BY <1>2 DEF PartOf
  <2> QED BY <1>1, <2>1
<1>6. Sound(s)
  <2>1. \A i \in 1 .. Len(s.timers) : s.auths[s.timers[i].timer].valid
    BY <1>3, <1>5
  <2>2. Listed(Auths, s.timers)
    BY <1>2, <1>3
  <2>3. /\ \A c \in Clients : s.clients[c].state # "NULL" => s.clients[c].authId \in Auths
        /\ \A b \in Auths : s.auths[b].fresh =>
              ~s.auths[b].valid /\ \A c \in Clients : s.clients[c].authId # b
    BY <1>1, <1>3
  <2> QED BY <1>4, <2>1, <2>2, <2>3 DEF Sound
<1>7. auths[Head(timers).timer].valid
  BY <1>1, <1>2
<1> QED BY <1>3, <1>6, <1>7

LEMMA TimerExpiresBase ==
    ASSUME Base, NEW a \in Auths, TimerExpires(a)
    PROVE  Base'
<1>1. PICK s : s = [State EXCEPT !.timers = Tail(@)]
  OBVIOUS
<1>2. PICK e : e = Expired(s, a)
  OBVIOUS
<1>3. PICK again : again = ExpiredReturns(State, a)
  OBVIOUS
<1>4. PICK v : v = IF again = 0 THEN e ELSE WithTimer(e, a, again)
  OBVIOUS
<1>5. /\ timers # <<>> /\ Head(timers).timer = a
      /\ Becomes(v) /\ UpdateIdle /\ UNCHANGED <<time, closeDownMode, miscounted>>
  BY <1>1, <1>2, <1>3, <1>4 DEF TimerExpires, FirstIsDue
<1>6. Sound(s) /\ s.auths = auths /\ s.clients = clients /\ s.auths[a].valid
  BY <1>1, <1>5, FirstTaken
<1>7. /\ Sound(e) /\ OnlyTimed(s, e, a)
      /\ s.auths[a].secondsRemaining # 0 => e.auths[a].valid
      /\ s.auths[a].secondsRemaining = 0 => ExpiredReturns(s, a) = 0
      /\ ExpiredReturns(s, a) \in Nat
  BY <1>2, <1>6, ExpiredFacts
<1>8. ExpiredReturns(s, a) = again
  BY <1>3, <1>6 DEF ExpiredReturns, State
<1>9. Sound(v) /\ OnlyTimed(s, v, a)
  <2>1. CASE again = 0
    BY <1>4, <1>7, <2>1
  <2>2. CASE again # 0
    <3>1. v = WithTimer(e, a, again) /\ e.auths[a].valid /\ again \in Nat /\ time \in Nat
      BY <1>4, <1>7, <1>8, <2>2, AuthorizationsAssumption DEF Base, AuthTypeOK
    <3>2. Sound(v) /\ OnlyTimed(e, v, a)
      BY <1>7, <3>1, WithTimerFacts
    <3> QED BY <1>7, <3>2, OnlyTimedTwice
  <2> QED BY <2>1, <2>2
<1>10. OnlyTimed(State, v, a)
  BY <1>6, <1>9, StateFacts DEF Base, OnlyTimed
<1>11. closeDownMode' \in [Clients -> {"DestroyAll", "Retain"}] /\ miscounted' \subseteq Auths
  BY <1>5 DEF Base, AuthTypeOK
<1> QED BY <1>5, <1>9, <1>10, <1>11, BecomesSound, TypeKept, TimedCounts DEF Base

LEMMA InitBase == AuthInit => Base
<1> SUFFICES ASSUME AuthInit PROVE Base
  OBVIOUS
<1> USE DEF AuthInit
<1>1. timers = <<>> /\ timers \in Seq(Entries(Auths)) /\ Len(timers) = 0
  OBVIOUS
<1>2. NewAuth \in Auth /\ NewAuth.fresh /\ ~NewAuth.valid
  <2>1. 0 \in 0 .. Wrap - 1
    BY TimerListAssumption
  <2> QED BY <2>1 DEF NewAuth, Auth
<1>3. auths \in [Auths -> Auth] /\ \A b \in Auths : auths[b].fresh /\ ~auths[b].valid
  BY <1>2
<1>4. /\ clients \in [Clients -> ClientRec]
      /\ \A c \in Clients : clients[c].state = "NULL" /\ clients[c].authId = NoAuth
  BY DEF NoClient, ClientRec
<1>5. AuthTypeOK
  <2>1. 0 \in 0 .. MaxTime /\ 0 \in 0 .. InUse
    BY AuthorizationsAssumption DEF InUse
  <2>2. /\ idleSince \in [Auths -> 0 .. InUse] /\ miscounted \subseteq Auths
        /\ closeDownMode \in [Clients -> {"DestroyAll", "Retain"}] /\ time \in 0 .. MaxTime
    BY <2>1
  <2> QED BY <1>1, <1>3, <1>4, <2>2 DEF AuthTypeOK, Entries, ClientRec
<1>6. Sound(State)
  <2>1. /\ State.timers = timers /\ State.auths = auths /\ State.clients = clients
        /\ State \in [timers: {timers}, auths: {auths}, clients: {clients}]
    BY DEF State
  <2>2. State \in States
    BY <1>1, <1>3, <1>4, <2>1 DEF States
  <2>3. \A i \in 1 .. Len(timers) : FALSE
    BY <1>1
  <2>4. \A b \in Auths, c \in Clients : clients[c].authId # b
    BY <1>4, AuthorizationsAssumption
  <2> QED BY <1>1, <1>3, <1>4, <2>1, <2>2, <2>3, <2>4 DEF Sound, Listed
<1>7. RefcntCountsUsers
  BY <1>3 DEF RefcntCountsUsers
<1> QED BY <1>5, <1>6, <1>7 DEF Base

LEMMA NextBase == Base /\ [AuthNext]_authVars => Base'
<1> SUFFICES ASSUME Base, [AuthNext]_authVars PROVE Base'
  OBVIOUS
<1>1. ASSUME NEW a \in Auths, NEW seconds \in Timeouts, GenerateAuthorization(a, seconds) PROVE Base'
  BY <1>1, GenerateBase
<1>2. ASSUME NEW a \in Auths, NEW c \in Clients, Connect(c, a) PROVE Base'
  BY <1>2, ConnectBase
<1>3. ASSUME NEW a \in Auths, RevokeAuthorization(a) PROVE Base'
  BY <1>3, RevokeBase
<1>4. ASSUME NEW a \in Auths, TimerExpires(a) PROVE Base'
  BY <1>4, TimerExpiresBase
<1>5. ASSUME NEW c \in Clients, ChangeCloseDownMode(c) PROVE Base'
  BY <1>5, ChangeCloseDownModeBase
<1>6. ASSUME NEW c \in Clients, Retain(c) PROVE Base'
  BY <1>6, RetainBase
<1>7. ASSUME NEW c \in Clients, Disconnect(c) PROVE Base'
  BY <1>7, DisconnectBase
<1>8. ASSUME NEW c \in Clients, KillRetained(c) PROVE Base'
  BY <1>8, KillRetainedBase
<1>9. CASE TimePasses
  BY <1>9, TickBase
<1>10. CASE UNCHANGED authVars
  BY <1>10, StutterBase
<1> QED BY <1>1, <1>2, <1>3, <1>4, <1>5, <1>6, <1>7, <1>8, <1>9, <1>10 DEF AuthNext

LEMMA BaseImplies == Base => AuthorizationsInv
<1> SUFFICES ASSUME Base PROVE TimersOfValidAuths
  BY DEF AuthorizationsInv, Base
<1>1. timers \in Seq(Entries(Auths))
  BY StateFacts DEF Base
<1>2. DOMAIN timers = 1 .. Len(timers)
  BY <1>1
<1> QED BY <1>2, StateFacts DEF Base, TimersOfValidAuths

LEMMA AlwaysBase == AuthSpec => []Base
BY InitBase, NextBase, PTL DEF AuthSpec

(* Every state: an authorization's refcnt is the number of the clients     *)
(* that use it, unless a retained client of it was killed, and no timer    *)
(* outlives its authorization, whatever the timeouts, also those that      *)
(* TimerSet takes for over at once.                                        *)
THEOREM UsersCounted == AuthSpec => []AuthorizationsInv
BY AlwaysBase, BaseImplies, PTL

-----------------------------------------------------------------------------
(***************************************************************************)
(* The timers, when every timeout is less than half the clock: TimerSet    *)
(* takes a longer one for over, and the authorization is purged at once.   *)
(***************************************************************************)

HalfClock == \A seconds \in Timeouts : 2 * (seconds * MILLI_PER_SECOND) < Wrap

Ahead == {seconds * MILLI_PER_SECOND : seconds \in Timeouts \ {0}}

(* The timers of s run until d, and none is a part of a longer timeout. *)
Timely(s, d, tm) ==
    /\ d \in [Auths -> Nat]
    /\ InTime(Auths, 0, Ahead, s.timers, d, tm)
    /\ \A b \in Auths : s.auths[b].secondsRemaining = 0

(* From s to v nothing happens but to a's timer. *)
Retimed(s, v, a, d, e, tm) ==
    /\ Timely(v, e, tm)
    /\ \A b \in Auths \ {a} : e[b] = d[b]
    /\ OthersStay(a, v.timers, s.timers)

(* a's timer runs for its timeout from tm on, if it has one. *)
Running(v, a, e, tm) ==
    IF v.auths[a].timeout = 0 THEN Absent(v.timers, a)
    ELSE ~Absent(v.timers, a) /\ e[a] = tm + v.auths[a].timeout * MILLI_PER_SECOND

LEMMA HalfClockFacts ==
    ASSUME HalfClock
    PROVE  /\ Near(0, Ahead)
           /\ \A seconds \in Timeouts \cup {0} :
                 /\ Milliseconds(seconds) = seconds * MILLI_PER_SECOND
                 /\ Overflow(seconds) = 0
           /\ \A seconds \in Timeouts \ {0} :
                 /\ seconds * MILLI_PER_SECOND \in Ahead
                 /\ seconds * MILLI_PER_SECOND \in Nat \ {0}
                 /\ 2 * (seconds * MILLI_PER_SECOND) < Wrap
<1>1. MILLI_PER_SECOND \in Nat \ {0} /\ \A seconds \in Timeouts : seconds \in Nat
  BY AuthorizationsAssumption
<1>2. \A m, n \in Nat \ {0} : m * n \in Nat \ {0}
  BY ProductPositive
<1>3. ASSUME NEW seconds \in Timeouts \ {0}
      PROVE  /\ seconds * MILLI_PER_SECOND \in Ahead
             /\ seconds * MILLI_PER_SECOND \in Nat \ {0}
             /\ 2 * (seconds * MILLI_PER_SECOND) < Wrap
  <2>1. seconds * MILLI_PER_SECOND \in Nat \ {0}
    BY <1>1, <1>2
  <2>2. 2 * (seconds * MILLI_PER_SECOND) < Wrap
    BY DEF HalfClock
  <2>3. seconds * MILLI_PER_SECOND \in Ahead
    BY DEF Ahead
  <2> QED BY <2>1, <2>2, <2>3
<1>4. Near(0, Ahead)
  <2>1. ASSUME NEW p \in Ahead PROVE p \in Nat \ {0} /\ 2 * (0 + p) < Wrap
    <3>1. PICK seconds \in Timeouts \ {0} : p = seconds * MILLI_PER_SECOND
      BY DEF Ahead
    <3>2. p \in Nat \ {0} /\ 2 * p < Wrap
      BY <1>3, <3>1
    <3> QED BY <3>2
  <2> QED BY <2>1 DEF Near
<1>5. ASSUME NEW seconds \in Timeouts \cup {0}
      PROVE  seconds <= MaxSecs
  <2>1. seconds \in Nat /\ seconds * MILLI_PER_SECOND \in Nat
    BY <1>1
  <2>2. seconds * MILLI_PER_SECOND <= Wrap - 1
    <3>1. CASE seconds = 0
      <4>1. 0 * MILLI_PER_SECOND = 0
        BY <1>1
      <4> QED BY <3>1, <4>1, TimerListAssumption
    <3>2. CASE seconds # 0
      <4>1. 2 * (seconds * MILLI_PER_SECOND) < Wrap
        BY <1>3, <3>2
      <4> QED BY <2>1, <4>1, TimerListAssumption
    <3> QED BY <3>1, <3>2
  <2>3. Wrap - 1 \in Nat
    BY TimerListAssumption
  <2> QED BY <1>1, <2>1, <2>2, <2>3, QuotientAtLeast DEF MaxSecs
<1>6. ASSUME NEW seconds \in Timeouts \cup {0}
      PROVE  /\ Milliseconds(seconds) = seconds * MILLI_PER_SECOND
             /\ Overflow(seconds) = 0
  <2>1. ~(seconds > MaxSecs)
    BY <1>1, <1>5, SecondsFacts
  <2> QED BY <2>1 DEF Milliseconds, Overflow
<1> QED BY <1>3, <1>4, <1>6

(* The condition of DoTimer's loop, when the clock has not passed a timer  *)
LEMMA FirstIsDue0 ==
    ASSUME NEW list, NEW d \in [Auths -> Nat], NEW tm \in Nat,
           Near(0, Ahead), InTime(Auths, 0, Ahead, list, d, tm), list # <<>>
    PROVE  FirstIsDue(list, Card(tm)) <=> d[list[1].timer] <= tm
<1>1. tm <= tm /\ tm - tm <= 0
  OBVIOUS
<1> QED BY <1>1, FirstIsDueFacts

LEMMA DeletedTimely ==
    ASSUME NEW s, Sound(s), NEW a \in Auths, NEW d, NEW tm, Timely(s, d, tm)
    PROVE  Retimed(s, Deleted(s, a), a, d, d, tm)
<1>1. PICK v : v = Deleted(s, a)
  OBVIOUS
<1>2. /\ v.timers = Unlinked(s.timers, a)
      /\ \A b \in Auths \ {a} : v.auths[b] = s.auths[b]
      /\ v.auths[a].secondsRemaining = 0
  BY <1>1, DeletedFields
<1>3. InTime(Auths, 0, Ahead, v.timers, d, tm)
  BY <1>2, UnlinkInTime DEF Timely
<1>4. Timely(v, d, tm)
  BY <1>2, <1>3 DEF Timely
<1>5. OthersStay(a, v.timers, s.timers)
  BY <1>2, UnlinkOthers DEF Sound
<1> QED BY <1>1, <1>4, <1>5 DEF Retimed

(* SecurityStartAuthorizationTimer                                         *)
LEMMA StartedTimely ==
    ASSUME HalfClock, time \in Nat, NEW s, Sound(s), NEW a \in Auths, s.auths[a].valid,
           NEW d, Timely(s, d, time)
    PROVE  /\ Started(s, a).auths[a].valid
           /\ \E e : Retimed(s, Started(s, a), a, d, e, time) /\ Running(Started(s, a), a, e, time)
<1>1. PICK seconds : seconds = s.auths[a].timeout
  OBVIOUS
<1>2. seconds \in Timeouts \cup {0}
  BY <1>1 DEF Sound, States, Auth
<1>3. PICK p : p = seconds * MILLI_PER_SECOND
  OBVIOUS
<1>4. Milliseconds(seconds) = p /\ Overflow(seconds) = 0
  BY <1>2, <1>3, HalfClockFacts
<1>5. PICK u : u = SecondsBecome(s, a, 0)
  OBVIOUS
<1>6. /\ Sound(u) /\ u.auths[a].valid /\ u.auths[a].timeout = seconds
      /\ u.auths[a].secondsRemaining = 0
      /\ u.timers = s.timers
      /\ \A b \in Auths \ {a} : u.auths[b] = s.auths[b]
  <2>1. /\ Sound(u) /\ u.auths[a].valid /\ u.auths[a].timeout = s.auths[a].timeout
        /\ u.auths[a].secondsRemaining = 0
    BY <1>5, SecondsSet
  <2>2. \E n : Edited(s, u, a, n)
    BY <1>5, SecondsSet
  <2> QED BY <1>1, <2>1, <2>2 DEF Edited
<1>7. PICK v : v = WithTimer(u, a, p)
  OBVIOUS
<1>8. Started(s, a) = v
  BY <1>1, <1>4, <1>5, <1>7 DEF Started, SecondsBecome
<1>9. PICK again : again = ExpiredReturns(u, a)
  OBVIOUS
<1>10. PICK l : l = TimerSet(s.timers, a, p, Card(time), again)
  OBVIOUS
<1>11. Card(time) \in Int
  BY CardType
<1>12. ASSUME ~IsOver(p, Card(time))
       PROVE  v.timers = l /\ v.auths = u.auths
  <2>1. v = [u EXCEPT !.timers = l]
    BY <1>6, <1>7, <1>9, <1>10, <1>12 DEF WithTimer
  <2> QED BY <1>6, <2>1 DEF Sound, States
<1>13. CASE seconds = 0
  <2>1. p = 0
    BY <1>3, <1>13, AuthorizationsAssumption
  <2>2. ~IsOver(p, Card(time))
    BY <2>1 DEF IsOver
  <2>3. l = Unlinked(s.timers, a)
    BY <1>10, <2>1 DEF TimerSet
  <2>4. InTime(Auths, 0, Ahead, l, d, time) /\ Absent(l, a) /\ OthersStay(a, l, s.timers)
    BY <2>3, UnlinkInTime, UnlinkOthers DEF Timely, Sound
  <2>5. v.timers = l /\ v.auths = u.auths
    BY <1>12, <2>2
  <2>6. Timely(v, d, time)
    BY <1>6, <2>4, <2>5 DEF Timely
  <2>7. Retimed(s, v, a, d, d, time) /\ Running(v, a, d, time)
    BY <1>6, <1>13, <2>4, <2>5, <2>6 DEF Retimed, Running
  <2> QED BY <1>6, <1>8, <2>5, <2>7
<1>14. CASE seconds # 0
  <2>1. p \in Ahead /\ p \in Nat \ {0} /\ 2 * p < Wrap /\ Near(0, Ahead)
    BY <1>2, <1>3, <1>14, HalfClockFacts
  <2>2. ~IsOver(p, Card(time))
    BY <1>11, <2>1, NotOver
  <2>3. PICK e : e = [d EXCEPT ![a] = time + p]
    OBVIOUS
  <2>4. d \in [Auths -> Nat] /\ InTime(Auths, 0, Ahead, s.timers, d, time)
    BY DEF Timely
  <2>5. e \in [Auths -> Nat] /\ e[a] = time + p /\ \A b \in Auths \ {a} : e[b] = d[b]
    <3>1. time + p \in Nat
      BY <2>1
    <3> QED BY <2>3, <2>4, <3>1
  <2>6. InTime(Auths, 0, Ahead, l, e, time)
    BY <1>10, <2>1, <2>4, <2>5, SetInTime
  <2>7. OthersStay(a, l, s.timers) /\ ~Absent(l, a)
    BY <1>10, <1>11, <2>1, <2>2, SetOthers DEF Sound
  <2>8. v.timers = l /\ v.auths = u.auths
    BY <1>12, <2>2
  <2>9. Timely(v, e, time)
    <3>1. \A b \in Auths : v.auths[b].secondsRemaining = 0
      BY <1>6, <2>8 DEF Timely
    <3> QED BY <2>5, <2>6, <2>8, <3>1 DEF Timely
  <2>10. Retimed(s, v, a, d, e, time)
    BY <2>5, <2>7, <2>8, <2>9 DEF Retimed
  <2>11. Running(v, a, e, time)
    BY <1>3, <1>6, <1>14, <2>5, <2>7, <2>8 DEF Running
  <2> QED BY <1>6, <1>8, <2>8, <2>10, <2>11
<1> QED BY <1>13, <1>14

(* A client with the authorization is gone or retained.                    *)
LEMMA UncountedTimely ==
    ASSUME HalfClock, time \in Nat, NEW s, Sound(s), NEW a \in Auths, NEW d, Timely(s, d, time)
    PROVE  /\ s.auths[a].valid => Uncounted(s, a).auths[a].valid
           /\ ~s.auths[a].valid => Uncounted(s, a) = s
           /\ \E e :
                 /\ Retimed(s, Uncounted(s, a), a, d, e, time)
                 /\ s.auths[a].valid /\ Card(s.auths[a].refcnt - 1) = 0
                    => Running(Uncounted(s, a), a, e, time)
                 /\ s.auths[a].valid /\ Card(s.auths[a].refcnt - 1) # 0
                    => Uncounted(s, a).timers = s.timers /\ e = d
<1>1. s \in States /\ s.auths \in [Auths -> Auth] /\ s.auths[a] \in Auth /\ a # NoAuth
  BY AuthorizationsAssumption DEF Sound, States
<1>2. \A l : OthersStay(a, l, l)
  BY DEF OthersStay
<1>3. CASE ~s.auths[a].valid
  <2>1. Uncounted(s, a) = s
    BY <1>3 DEF Uncounted
  <2>2. Retimed(s, s, a, d, d, time)
    BY <1>2 DEF Retimed
  <2> QED BY <1>3, <2>1, <2>2
<1>4. CASE s.auths[a].valid
  <2>1. PICK r : r = Card(s.auths[a].refcnt - 1)
    OBVIOUS
  <2>2. r \in 0 .. Wrap - 1
    <3>1. s.auths[a].refcnt - 1 \in Int
      BY <1>1, TimerListAssumption DEF Auth
    <3> QED BY <2>1, <3>1, CardType
  <2>3. PICK u : u = RefcntBecomes(s, a, r)
    OBVIOUS
  <2>4. /\ Sound(u) /\ u.timers = s.timers /\ u.auths[a].valid /\ u.auths[a].refcnt = r
        /\ \A b \in Auths : u.auths[b].secondsRemaining = s.auths[b].secondsRemaining
    <3>1. /\ Sound(u) /\ u.auths[a].valid /\ u.auths[a].refcnt = r
          /\ u.auths[a].secondsRemaining = s.auths[a].secondsRemaining
      BY <1>4, <2>2, <2>3, RefcntSet
    <3>2. \E n : Edited(s, u, a, n)
      BY <1>4, <2>2, <2>3, RefcntSet
    <3> QED BY <3>1, <3>2 DEF Edited
  <2>5. Timely(u, d, time)
    BY <2>4 DEF Timely
  <2>6. PICK v : v = Uncounted(s, a)
    OBVIOUS
  <2>7. v = IF r = 0 THEN Started(u, a) ELSE u
    <3>1. [s EXCEPT !.auths[a].refcnt = Card(@ - 1)] = u
      BY <1>1, <2>1, <2>3 DEF States, RefcntBecomes
    <3> QED BY <1>1, <1>4, <2>4, <2>6, <3>1 DEF Uncounted
  <2>8. CASE r # 0
    <3>1. v.timers = s.timers /\ v.auths[a].valid
      BY <2>4, <2>7, <2>8
    <3>2. Retimed(s, v, a, d, d, time)
      BY <1>2, <2>4, <2>5, <2>7, <2>8 DEF Retimed
    <3> QED BY <1>4, <2>1, <2>6, <2>8, <3>1, <3>2
  <2>9. CASE r = 0
    <3>1. v.auths[a].valid /\ \E e : Retimed(u, v, a, d, e, time) /\ Running(v, a, e, time)
      BY <2>4, <2>5, <2>7, <2>9, StartedTimely
    <3>2. PICK e : Retimed(u, v, a, d, e, time) /\ Running(v, a, e, time)
      BY <3>1
    <3>3. Retimed(s, v, a, d, e, time)
      BY <2>4, <3>2 DEF Retimed
    <3> QED BY <1>4, <2>1, <2>6, <2>9, <3>1, <3>2, <3>3
  <2> QED BY <2>8, <2>9
<1> QED BY <1>3, <1>4

-----------------------------------------------------------------------------
(* The authorization has a timer just when it has a timeout and no client  *)
(* uses it; the timer runs for the timeout from then on.                   *)
Attended(b, d) ==
    auths[b].valid /\ b \notin miscounted =>
        /\ Users(b) = {} => idleSince[b] <= time
        /\ ~Absent(timers, b) <=> Users(b) = {} /\ auths[b].timeout # 0
        /\ ~Absent(timers, b) => d[b] = idleSince[b] + auths[b].timeout * MILLI_PER_SECOND

Timing(d) == Timely(State, d, time) /\ \A b \in Auths : Attended(b, d)

(* A client that does not use another authorization than a *)
Elsewhere(r, a) == r.state # "Running" \/ r.authId = a

LEMMA LeftoverElsewhere ==
    ASSUME NEW a, NEW r, Leftover(r, a)
    PROVE  r.state # "Running"
BY DEF Leftover, NoClient

(* An authorization that a step leaves alone                               *)
LEMMA OthersAttended ==
    ASSUME Base, NEW v, Becomes(v), UpdateIdle, time' = time, miscounted \subseteq miscounted',
           NEW a \in Auths, NEW b \in Auths, b # a, v.auths[b] = auths[b],
           \A k \in Clients : \/ v.clients[k] = clients[k]
                              \/ Elsewhere(clients[k], a) /\ Elsewhere(v.clients[k], a),
           NEW d, NEW e, Retimed(State, v, a, d, e, time), Attended(b, d)
    PROVE  Attended(b, e)'
<1>1. timers' = v.timers /\ auths' = v.auths /\ clients' = v.clients
  BY DEF Becomes
<1>2. ASSUME NEW k \in Clients
      PROVE  clients'[k] = [state |-> "Running", authId |-> b]
                 <=> clients[k] = [state |-> "Running", authId |-> b]
  BY <1>1 DEF Elsewhere
<1>3. Users(b)' = Users(b)
  BY <1>2 DEF Users
<1>4. auths'[b] = auths[b] /\ e[b] = d[b] /\ (Absent(timers, b)' <=> Absent(timers, b))
  <2>1. e[b] = d[b] /\ (Absent(v.timers, b) <=> Absent(timers, b))
    BY DEF Retimed, OthersStay, State
  <2>2. Absent(timers, b)' <=> Absent(v.timers, b)
    BY <1>1 DEF Absent
  <2> QED BY <1>1, <2>1, <2>2
<1>5. SUFFICES ASSUME auths[b].valid, b \notin miscounted
               PROVE  /\ Users(b)' = {} => idleSince'[b] <= time'
                      /\ ~Absent(timers, b)' <=> Users(b)' = {} /\ auths'[b].timeout # 0
                      /\ ~Absent(timers, b)'
                         => e[b] = idleSince'[b] + auths'[b].timeout * MILLI_PER_SECOND
  BY <1>4 DEF Attended
<1>6. /\ Users(b) = {} => idleSince[b] <= time
      /\ ~Absent(timers, b) <=> Users(b) = {} /\ auths[b].timeout # 0
      /\ ~Absent(timers, b) => d[b] = idleSince[b] + auths[b].timeout * MILLI_PER_SECOND
  BY <1>5 DEF Attended
<1>7. Users(b) = {} => idleSince'[b] = idleSince[b]
  BY <1>3, <1>4, <1>5 DEF UpdateIdle
<1> QED BY <1>3, <1>4, <1>6, <1>7

(* A step that changes a and its timer only                                *)
LEMMA TimingKept ==
    ASSUME Base, NEW v, Sound(v), Becomes(v), UpdateIdle, time' = time, miscounted \subseteq miscounted',
           NEW a \in Auths, \A b \in Auths \ {a} : v.auths[b] = auths[b],
           \A k \in Clients : \/ v.clients[k] = clients[k]
                              \/ Elsewhere(clients[k], a) /\ Elsewhere(v.clients[k], a),
           NEW d, NEW e, Timing(d), Retimed(State, v, a, d, e, time), Attended(a, e)'
    PROVE  Timing(e)'
<1>1. State' = v
  BY BecomesSound
<1>2. Timely(State, e, time)'
  <2>1. Timely(v, e, time)
    BY DEF Retimed
  <2> QED BY <1>1, <2>1
<1>3. ASSUME NEW b \in Auths, b # a PROVE Attended(b, e)'
  BY <1>3, OthersAttended DEF Timing
<1> QED BY <1>2, <1>3 DEF Timing

(* a is deleted.                                                           *)
LEMMA GoneAttended ==
    ASSUME NEW a, NEW e, ~auths'[a].valid
    PROVE  Attended(a, e)'
BY DEF Attended

(* a has had its last user leave, and has its timer started.               *)
LEMMA IdleAttended ==
    ASSUME NEW v, Becomes(v), UpdateIdle, time' = time, time \in Nat,
           NEW a \in Auths, auths'[a].valid, Users(a)' = {}, Users(a) # {} \/ ~auths[a].valid,
           NEW e, Running(v, a, e, time)
    PROVE  Attended(a, e)'
<1>1. timers' = v.timers /\ auths' = v.auths
  BY DEF Becomes
<1>2. idleSince'[a] = time
  BY DEF UpdateIdle
<1>3. Absent(timers, a)' <=> Absent(v.timers, a)
  BY <1>1 DEF Absent
<1>4. IF auths'[a].timeout = 0 THEN Absent(timers, a)'
      ELSE ~Absent(timers, a)' /\ e[a] = time + auths'[a].timeout * MILLI_PER_SECOND
  BY <1>1, <1>3 DEF Running
<1> QED BY <1>2, <1>4 DEF Attended

(* a has users before and after the step, or none, and keeps its timer.    *)
LEMMA UsedAttended ==
    ASSUME NEW a \in Auths, Users(a)' # {}, Absent(timers, a)', NEW e
    PROVE  Attended(a, e)'
BY DEF Attended

-----------------------------------------------------------------------------
(***************************************************************************)
(* What each action does to the timers.  No action purges an authorization *)
(* but RevokeAuthorization and DoTimer.                                    *)
(***************************************************************************)

NonePurged == \A b \in Auths : ~Purged(b)

LEMMA RetimedAgain ==
    ASSUME NEW s, NEW u, NEW v, NEW a, NEW d, NEW e, NEW tm,
           OthersStay(a, u.timers, s.timers), Retimed(u, v, a, d, e, tm)
    PROVE  Retimed(s, v, a, d, e, tm)
BY DEF Retimed, OthersStay

LEMMA GenerateTiming ==
    ASSUME HalfClock, Base, NEW d, Timing(d),
           NEW a \in Auths, NEW seconds \in Timeouts, GenerateAuthorization(a, seconds)
    PROVE  NonePurged /\ \E e : Timing(e)'
<1>1. PICK s : s = Generated(a, seconds)
  OBVIOUS
<1>2. PICK v : v = IF seconds # 0 THEN Started(s, a) ELSE s
  OBVIOUS
<1>3. /\ auths[a].fresh /\ Becomes(v) /\ UpdateIdle
      /\ UNCHANGED <<time, closeDownMode, miscounted>>
  BY <1>1, <1>2 DEF GenerateAuthorization, Generated
<1>4. /\ Sound(s) /\ s.timers = timers /\ s.clients = clients
      /\ s.auths[a].valid /\ s.auths[a].timeout = seconds
      /\ s.auths[a].secondsRemaining = 0
      /\ \A b \in Auths \ {a} : s.auths[b] = auths[b]
      /\ ~auths[a].valid /\ \A c \in Clients : clients[c].authId # a
      /\ Absent(timers, a)
  BY <1>1, <1>3, GeneratedSound
<1>5. time \in Nat
  BY AuthorizationsAssumption DEF Base, AuthTypeOK
<1>6. Timely(s, d, time)
  BY <1>4 DEF Timing, Timely, State
<1>7. Sound(v) /\ OnlyTimed(s, v, a) /\ v.auths[a].valid
  <2>1. OnlyTimed(s, s, a)
    BY DEF OnlyTimed
  <2> QED BY <1>2, <1>4, <1>5, <1>6, <2>1, StartedFacts, StartedTimely
<1>8. \E e : Retimed(s, v, a, d, e, time) /\ Running(v, a, e, time)
  <2>1. CASE seconds # 0
    BY <1>2, <1>4, <1>5, <1>6, <2>1, StartedTimely
  <2>2. CASE seconds = 0
    <3>1. OthersStay(a, s.timers, s.timers)
      BY DEF OthersStay
    <3>2. Retimed(s, s, a, d, d, time) /\ Running(s, a, d, time)
      BY <1>4, <1>6, <2>2, <3>1 DEF Retimed, Running
    <3> QED BY <1>2, <2>2, <3>2
  <2> QED BY <2>1, <2>2
<1>9. PICK e : Retimed(s, v, a, d, e, time) /\ Running(v, a, e, time)
  BY <1>8
<1>10. Retimed(State, v, a, d, e, time)
  BY <1>4, <1>9 DEF Retimed, State
<1>11. /\ \A b \in Auths \ {a} : v.auths[b] = auths[b]
       /\ \A k \in Clients : v.clients[k] = clients[k]
  BY <1>4, <1>7 DEF OnlyTimed
<1>12. auths' = v.auths /\ clients' = v.clients
  BY <1>3 DEF Becomes
<1>13. Users(a)' = {}
  BY <1>4, <1>11, <1>12 DEF Users
<1>14. Attended(a, e)'
  BY <1>3, <1>4, <1>5, <1>7, <1>9, <1>12, <1>13, IdleAttended
<1>15. Timing(e)'
  BY <1>3, <1>7, <1>10, <1>11, <1>14, TimingKept
<1>16. NonePurged
  BY <1>7, <1>11, <1>12 DEF NonePurged, Purged
<1> QED BY <1>15, <1>16

LEMMA ConnectTiming ==
    ASSUME Base, NEW d, Timing(d), NEW a \in Auths, NEW c \in Clients, Connect(c, a)
    PROVE  NonePurged /\ \E e : Timing(e)'
<1>1. PICK r : r = [state |-> "Running", authId |-> a]
  OBVIOUS
<1>2. PICK s : s = Turned(c, r)
  OBVIOUS
<1>3. PICK v : v = Counted(s, a)
  OBVIOUS
<1>4. /\ clients[c].state = "NULL" /\ auths[a].valid
      /\ Becomes(v) /\ UpdateIdle /\ UNCHANGED <<time, miscounted>>
  BY <1>1, <1>2, <1>3 DEF Connect, Turned
<1>5. r \in ClientRec /\ r.authId = a /\ ~auths[a].fresh
  BY <1>1, <1>4, StateFacts DEF ClientRec, Base
<1>6. /\ Sound(s) /\ s.timers = timers /\ s.auths = auths
      /\ s.clients[c] = r /\ \A k \in Clients \ {c} : s.clients[k] = clients[k]
  BY <1>2, <1>5, TurnedSound
<1>7. PICK n : n = Card(auths[a].refcnt + 1)
  OBVIOUS
<1>8. /\ Sound(v) /\ \A b \in Auths \ {a} : v.auths[b] = auths[b]
      /\ v.auths[a].valid /\ v.auths[a].refcnt = n /\ v.clients = s.clients
      /\ v.timers = IF n = 1 THEN Unlinked(timers, a) ELSE timers
      /\ \A b \in Auths : v.auths[b].secondsRemaining = auths[b].secondsRemaining
  <2>1. /\ Sound(v) /\ \A b \in Auths \ {a} : v.auths[b] = s.auths[b]
        /\ v.auths[a].valid /\ v.auths[a].refcnt = Card(s.auths[a].refcnt + 1)
        /\ v.clients = s.clients
        /\ v.timers = IF Card(s.auths[a].refcnt + 1) = 1 THEN Unlinked(s.timers, a) ELSE s.timers
        /\ v.auths[a].secondsRemaining = s.auths[a].secondsRemaining
    BY <1>3, <1>4, <1>6, CountedFacts
  <2> QED BY <1>6, <1>7, <2>1
<1>9. Listed(Auths, timers) /\ InTime(Auths, 0, Ahead, timers, d, time)
  BY StateFacts DEF Base, Timing, Timely, State
<1>10. /\ InTime(Auths, 0, Ahead, v.timers, d, time) /\ OthersStay(a, v.timers, timers)
       /\ n = 1 => Absent(v.timers, a)
  <2>1. OthersStay(a, timers, timers)
    BY DEF OthersStay
  <2>2. /\ InTime(Auths, 0, Ahead, Unlinked(timers, a), d, time)
        /\ OthersStay(a, Unlinked(timers, a), timers)
        /\ Absent(Unlinked(timers, a), a)
    BY <1>9, UnlinkInTime, UnlinkOthers
  <2> QED BY <1>8, <1>9, <2>1, <2>2
<1>11. Retimed(State, v, a, d, d, time)
  BY <1>8, <1>10 DEF Retimed, Timing, Timely, State
<1>12. auths' = v.auths /\ clients' = v.clients /\ timers' = v.timers
  BY <1>4 DEF Becomes
<1>13. Users(a)' # {}
  <2>1. clients'[c] = [state |-> "Running", authId |-> a]
    BY <1>1, <1>6, <1>8, <1>12
  <2> QED BY <2>1 DEF Users
<1>14. Attended(a, d)'
  <2>1. CASE a \in miscounted'
    BY <2>1 DEF Attended
  <2>2. CASE a \notin miscounted'
    <3>1. auths[a].refcnt = Cardinality(Users(a)) /\ a \notin miscounted
      BY <1>4, <2>2 DEF Base, RefcntCountsUsers
    <3>2. Absent(v.timers, a)
      <4>1. CASE Users(a) = {}
        <5>1. 1 \in 0 .. Wrap - 1
          <6>1. Cardinality({c}) \in 0 .. Wrap - 1
            BY CardinalityFacts
          <6> QED BY <6>1, FS_Singleton
        <5>2. auths[a].refcnt = 0
          BY <3>1, <4>1, FS_EmptySet
        <5>3. Card(1) = 1
          BY <5>1, TimerListAssumption, ModSmall DEF Card
        <5>4. n = 1
          BY <1>7, <5>2, <5>3
        <5> QED BY <1>10, <5>4
      <4>2. CASE Users(a) # {}
        <5>1. Absent(timers, a)
          BY <1>4, <3>1, <4>2 DEF Timing, Attended
        <5> QED BY <1>8, <1>10, <5>1
      <4> QED BY <4>1, <4>2
    <3>3. Absent(timers, a)'
      BY <1>12, <3>2 DEF Absent
    <3> QED BY <1>13, <3>3, UsedAttended
  <2> QED BY <2>1, <2>2
<1>15. ASSUME NEW k \in Clients
       PROVE  \/ v.clients[k] = clients[k]
              \/ Elsewhere(clients[k], a) /\ Elsewhere(v.clients[k], a)
  BY <1>4, <1>5, <1>6, <1>8 DEF Elsewhere
<1>16. Timing(d)'
  BY <1>4, <1>8, <1>11, <1>14, <1>15, TimingKept
<1>17. NonePurged
  BY <1>8, <1>12 DEF NonePurged, Purged
<1> QED BY <1>16, <1>17

(* A client is retained or gone for good, and is counted off.              *)
LEMMA LeaveTiming ==
    ASSUME Base, Base', NEW d, Timing(d), NEW v, Sound(v), Becomes(v), UpdateIdle, time' = time,
           NEW c \in Clients, clients[c].state # "NULL",
           NEW a \in Auths, a = clients[c].authId,
           \A b \in Auths \ {a} : v.auths[b] = auths[b],
           v.auths[a].valid => v.auths[a].refcnt = Card(auths[a].refcnt - 1),
           v.auths[a].valid <=> auths[a].valid,
           \A k \in Clients \ {c} : \/ v.clients[k] = clients[k]
                                    \/ clients[k].authId = a /\ Leftover(v.clients[k], a),
           Leftover(v.clients[c], a),
           \/ miscounted' = miscounted /\ clients[c].state = "Running"
           \/ miscounted' = miscounted \cup {a},
           NEW e, Retimed(State, v, a, d, e, time),
           auths[a].valid /\ Card(auths[a].refcnt - 1) = 0 => Running(v, a, e, time),
           auths[a].valid /\ Card(auths[a].refcnt - 1) # 0 => v.timers = timers
    PROVE  Timing(e)'
<1>1. auths' = v.auths /\ clients' = v.clients /\ timers' = v.timers
  BY DEF Becomes
<1>2. time \in Nat
  BY AuthorizationsAssumption DEF Base, AuthTypeOK
<1>3. Attended(a, e)'
  <2>1. SUFFICES ASSUME auths'[a].valid, a \notin miscounted' PROVE Attended(a, e)'
    BY DEF Attended
  <2>2. clients[c].state = "Running" /\ a \notin miscounted /\ auths[a].valid
    BY <1>1, <2>1
  <2>3. c \in Users(a)
    <3>1. clients[c] \in ClientRec
      BY StateFacts DEF Base
    <3>2. clients[c] = [state |-> "Running", authId |-> a]
      BY <2>2, <3>1 DEF ClientRec
    <3> QED BY <3>2 DEF Users
  <2>4. PICK n : n = Card(auths[a].refcnt - 1)
    OBVIOUS
  <2>5. PICK U : U = Users(a)'
    OBVIOUS
  <2>6. n = Cardinality(U)
    <3>1. auths'[a].refcnt = Cardinality(Users(a)')
      BY <2>1 DEF Base, RefcntCountsUsers
    <3> QED BY <1>1, <2>1, <2>4, <2>5, <3>1
  <2>7. n = 0 <=> U = {}
    <3>1. U \subseteq Clients
      BY <2>5 DEF Users
    <3>2. IsFiniteSet(U)
      BY <3>1, CardinalityFacts
    <3> QED BY <2>6, <3>2, FS_EmptySet
  <2>8. CASE n = 0
    <3>1. Users(a)' = {} /\ Users(a) # {}
      BY <2>3, <2>5, <2>7, <2>8
    <3>2. Running(v, a, e, time)
      BY <2>2, <2>4, <2>8
    <3> QED BY <1>2, <2>1, <3>1, <3>2, IdleAttended
  <2>9. CASE n # 0
    <3>1. Absent(timers, a)
      BY <2>2, <2>3 DEF Timing, Attended
    <3>2. timers' = timers
      BY <1>1, <2>2, <2>4, <2>9
    <3>3. Absent(timers, a)'
      BY <3>1, <3>2 DEF Absent
    <3>4. Users(a)' # {}
      BY <2>5, <2>7, <2>9
    <3> QED BY <3>3, <3>4, UsedAttended
  <2> QED BY <2>8, <2>9
<1>4. ASSUME NEW k \in Clients
      PROVE  \/ v.clients[k] = clients[k]
             \/ Elsewhere(clients[k], a) /\ Elsewhere(v.clients[k], a)
  <2>1. Leftover(v.clients[k], a) => Elsewhere(v.clients[k], a)
    BY LeftoverElsewhere DEF Elsewhere
  <2> QED BY <2>1 DEF Elsewhere
<1>5. miscounted \subseteq miscounted'
  OBVIOUS
<1> QED BY <1>3, <1>4, <1>5, TimingKept

(* A connected or retained client is retained or gone for good.            *)
LEMMA LeavingTiming ==
    ASSUME HalfClock, Base, Base', NEW d, Timing(d), NEW c \in Clients, clients[c].state # "NULL",
           NEW r, Leftover(r, clients[c].authId),
           Becomes(Left(Uncounted(State, clients[c].authId), c, r)), UpdateIdle,
           UNCHANGED <<time, closeDownMode>>,
           \/ miscounted' = miscounted /\ clients[c].state = "Running"
           \/ miscounted' = miscounted \cup {clients[c].authId}
    PROVE  NonePurged /\ \E e : Timing(e)'
<1>1. PICK a : a = clients[c].authId
  OBVIOUS
<1>2. a \in Auths /\ time \in Nat
  BY <1>1, StateFacts, AuthorizationsAssumption DEF Base, AuthTypeOK
<1>3. /\ Sound(State) /\ State.auths = auths /\ State.clients = clients
      /\ State.timers = timers /\ Timely(State, d, time)
  BY StateFacts DEF Base, Timing
<1>4. PICK u : u = Uncounted(State, a)
  OBVIOUS
<1>5. /\ Sound(u)
      /\ \A b \in Auths \ {a} : u.auths[b] = auths[b]
      /\ u.auths[a].valid => auths[a].valid /\ u.auths[a].refcnt = Card(auths[a].refcnt - 1)
      /\ \A k \in Clients : \/ u.clients[k] = clients[k]
                            \/ clients[k].authId = a /\ Leftover(u.clients[k], a)
      /\ u.auths[a].fresh => auths[a].fresh
  BY <1>2, <1>3, <1>4, UncountedFacts
<1>6. PICK v : v = Left(u, c, r)
  OBVIOUS
<1>7. /\ Sound(v) /\ v.timers = u.timers /\ v.auths = u.auths /\ v.clients[c] = r
      /\ \A k \in Clients \ {c} : v.clients[k] = u.clients[k]
  <2>1. ~auths[a].fresh
    BY <1>1, <1>2, StateFacts DEF Base
  <2>2. ~u.auths[a].fresh /\ Leftover(r, a)
    BY <1>1, <1>5, <2>1
  <2> QED BY <1>2, <1>5, <1>6, <2>2, LeftSound
<1>8. Becomes(v)
  BY <1>1, <1>4, <1>6
<1>9. /\ auths[a].valid => u.auths[a].valid
      /\ ~auths[a].valid => u = State
      /\ \E e :
            /\ Retimed(State, u, a, d, e, time)
            /\ auths[a].valid /\ Card(auths[a].refcnt - 1) = 0 => Running(u, a, e, time)
            /\ auths[a].valid /\ Card(auths[a].refcnt - 1) # 0 => u.timers = timers /\ e = d
  BY <1>2, <1>3, <1>4, UncountedTimely
<1>10. PICK e :
          /\ Retimed(State, u, a, d, e, time)
          /\ auths[a].valid /\ Card(auths[a].refcnt - 1) = 0 => Running(u, a, e, time)
          /\ auths[a].valid /\ Card(auths[a].refcnt - 1) # 0 => u.timers = timers
  BY <1>9
<1>11. /\ Retimed(State, v, a, d, e, time)
       /\ auths[a].valid /\ Card(auths[a].refcnt - 1) = 0 => Running(v, a, e, time)
       /\ auths[a].valid /\ Card(auths[a].refcnt - 1) # 0 => v.timers = timers
  BY <1>7, <1>10 DEF Retimed, Timely, Running
<1>12. /\ \A b \in Auths \ {a} : v.auths[b] = auths[b]
       /\ v.auths[a].valid => v.auths[a].refcnt = Card(auths[a].refcnt - 1)
       /\ v.auths[a].valid <=> auths[a].valid
       /\ Leftover(v.clients[c], a)
  BY <1>1, <1>5, <1>7, <1>9
<1>13. \A k \in Clients \ {c} : \/ v.clients[k] = clients[k]
                                \/ clients[k].authId = a /\ Leftover(v.clients[k], a)
  BY <1>5, <1>7
<1>14. \/ miscounted' = miscounted /\ clients[c].state = "Running"
       \/ miscounted' = miscounted \cup {a}
  BY <1>1
<1>15. Timing(e)'
  BY <1>1, <1>2, <1>7, <1>8, <1>11, <1>12, <1>13, <1>14, LeaveTiming
<1>16. NonePurged
  <2>1. auths' = v.auths
    BY <1>8 DEF Becomes
  <2>2. u = State => u.auths[a].fresh = auths[a].fresh
    BY <1>3
  <2> QED BY <1>7, <1>9, <1>12, <2>1, <2>2 DEF NonePurged, Purged
<1> QED BY <1>15, <1>16

LEMMA RetireTiming ==
    ASSUME HalfClock, Base, Base', NEW d, Timing(d), NEW c \in Clients, clients[c].state # "NULL",
           Becomes(Retired(Uncounted(State, clients[c].authId), c)), UpdateIdle,
           UNCHANGED <<time, closeDownMode>>,
           \/ miscounted' = miscounted /\ clients[c].state = "Running"
           \/ miscounted' = miscounted \cup {clients[c].authId}
    PROVE  NonePurged /\ \E e : Timing(e)'
BY LeavingTiming, RetiredLeft

LEMMA RetainTiming ==
    ASSUME HalfClock, Base, Base', NEW d, Timing(d), NEW c \in Clients, Retain(c)
    PROVE  NonePurged /\ \E e : Timing(e)'
<1>1. PICK r : r = [clients[c] EXCEPT !.state = "Retained"]
  OBVIOUS
<1>2. /\ Leftover(r, clients[c].authId)
      /\ Becomes(Left(Uncounted(State, clients[c].authId), c, r))
  BY <1>1, RetainLeft
<1>3. /\ clients[c].state = "Running" /\ UpdateIdle
      /\ UNCHANGED <<time, closeDownMode, miscounted>>
  BY DEF Retain
<1> QED BY <1>2, <1>3, LeavingTiming

(* SecurityDeleteAuthorization, called by a request or by DoTimer, which   *)
(* has taken the timer out of the list                                     *)
LEMMA DeleteTiming ==
    ASSUME Base, NEW d, Timing(d), NEW a \in Auths,
           NEW s, Sound(s), s.auths = auths, s.clients = clients, Timely(s, d, time),
           OthersStay(a, s.timers, timers),
           NEW v, v = Deleted(s, a), Becomes(v), UpdateIdle, UNCHANGED <<time, miscounted>>
    PROVE  Timing(d)' /\ \A b \in Auths \ {a} : ~Purged(b)
<1>1. Sound(v) /\ OnlyTimed(s, v, a) /\ ~v.auths[a].valid
  BY DeletedSound, DeletedFields
<1>2. /\ \A b \in Auths \ {a} : v.auths[b] = auths[b]
      /\ \A k \in Clients : \/ v.clients[k] = clients[k]
                            \/ clients[k].authId = a /\ Leftover(v.clients[k], a)
  BY <1>1 DEF OnlyTimed
<1>3. ASSUME NEW k \in Clients
      PROVE  \/ v.clients[k] = clients[k]
             \/ Elsewhere(clients[k], a) /\ Elsewhere(v.clients[k], a)
  BY <1>2, LeftoverElsewhere DEF Elsewhere
<1>4. Retimed(State, v, a, d, d, time)
  <2>1. Retimed(s, v, a, d, d, time)
    BY DeletedTimely
  <2>2. OthersStay(a, s.timers, State.timers)
    BY DEF State
  <2> QED BY <2>1, <2>2, RetimedAgain
<1>5. auths' = v.auths
  BY DEF Becomes
<1>6. Attended(a, d)'
  BY <1>1, <1>5, GoneAttended
<1>7. Timing(d)'
  BY <1>1, <1>2, <1>3, <1>4, <1>6, TimingKept
<1> QED BY <1>2, <1>5, <1>7 DEF Purged

LEMMA RevokeTiming ==
    ASSUME Base, NEW d, Timing(d), NEW a \in Auths, RevokeAuthorization(a)
    PROVE  Timing(d)' /\ \A b \in Auths \ {a} : ~Purged(b)
<1>1. PICK v : v = Deleted(State, a)
  OBVIOUS
<1>2. Becomes(v) /\ UpdateIdle /\ UNCHANGED <<time, miscounted>>
  BY <1>1 DEF RevokeAuthorization
<1>3. /\ Sound(State) /\ State.auths = auths /\ State.clients = clients
      /\ State.timers = timers /\ Timely(State, d, time)
  BY StateFacts DEF Base, Timing
<1>4. OthersStay(a, State.timers, timers)
  BY <1>3 DEF OthersStay
<1> QED BY <1>1, <1>2, <1>3, <1>4, DeleteTiming

(* DoTimer deletes a when its time is over.                                *)
LEMMA TimerExpiresTiming ==
    ASSUME HalfClock, Base, NEW d, Timing(d), NEW a \in Auths, TimerExpires(a)
    PROVE  /\ Timing(d)' /\ \A b \in Auths \ {a} : ~Purged(b)
           /\ auths[a].valid
           /\ d[a] <= time /\ ~Absent(timers, a)
<1>1. PICK s : s = [State EXCEPT !.timers = Tail(@)]
  OBVIOUS
<1>2. FirstIsDue(timers, Card(time)) /\ timers # <<>> /\ Head(timers).timer = a
  BY DEF TimerExpires, FirstIsDue
<1>3. /\ Sound(s) /\ s.timers = Tail(timers) /\ s.auths = auths /\ s.clients = clients
      /\ auths[a].valid
  BY <1>1, <1>2, FirstTaken
<1>4. /\ InTime(Auths, 0, Ahead, timers, d, time) /\ d \in [Auths -> Nat]
      /\ \A b \in Auths : auths[b].secondsRemaining = 0
      /\ Listed(Auths, timers) /\ time \in Nat
  BY StateFacts, AuthorizationsAssumption DEF Base, AuthTypeOK, Timing, Timely, State
<1>5. /\ InTime(Auths, 0, Ahead, Tail(timers), d, time)
      /\ Head(timers) = timers[1] /\ 1 \in 1 .. Len(timers)
  BY <1>2, <1>4, TailInTime, FirstInTime
<1>6. OthersStay(a, s.timers, timers)
  BY <1>2, <1>3, <1>4, <1>5, TailOthers
<1>7. Timely(s, d, time)
  BY <1>3, <1>4, <1>5 DEF Timely
<1>8. Milliseconds(0) = 0
  BY SecondsFacts
<1>9. ExpiredReturns(State, a) = 0
  BY <1>4, <1>8 DEF ExpiredReturns, State
<1>10. Expired(s, a) = Deleted(s, a)
  BY <1>3, <1>4 DEF Expired
<1>11. PICK v : v = Deleted(s, a)
  OBVIOUS
<1>12. Becomes(v) /\ UpdateIdle /\ UNCHANGED <<time, miscounted>>
  BY <1>1, <1>9, <1>10, <1>11 DEF TimerExpires
<1>13. Timing(d)' /\ \A b \in Auths \ {a} : ~Purged(b)
  BY <1>3, <1>6, <1>7, <1>11, <1>12, DeleteTiming
<1>14. d[a] <= time
  <2>1. Near(0, Ahead)
    BY HalfClockFacts
  <2>2. FirstIsDue(timers, Card(time)) <=> d[timers[1].timer] <= time
    BY <1>2, <1>4, <2>1, FirstIsDue0
  <2> QED BY <1>2, <1>5, <2>2
<1>15. ~Absent(timers, a)
  BY <1>2, <1>5 DEF Absent
<1> QED BY <1>3, <1>13, <1>14, <1>15

(* The clock does not pass the first timer.                                *)
LEMMA TickTiming ==
    ASSUME HalfClock, Base, NEW d, Timing(d), TimePasses
    PROVE  Timing(d)'
<1>1. /\ time' = time + 1 /\ ~FirstIsDue(timers, Card(time))
      /\ UNCHANGED <<timers, auths, clients, closeDownMode, idleSince, miscounted>>
  BY DEF TimePasses
<1>2. /\ InTime(Auths, 0, Ahead, timers, d, time) /\ d \in [Auths -> Nat]
      /\ time \in Nat
  BY AuthorizationsAssumption DEF Base, AuthTypeOK, Timing, Timely, State
<1>3. PICK later : later = time + 1
  OBVIOUS
<1>4. Near(0, Ahead)
  BY HalfClockFacts
<1>5. ASSUME NEW i \in 1 .. Len(timers)
      PROVE  later <= d[timers[i].timer] /\ \E p \in Ahead : d[timers[i].timer] <= later + p
  <2>1. timers # <<>>
    BY <1>5
  <2>2. FirstIsDue(timers, Card(time)) <=> d[timers[1].timer] <= time
    BY <1>2, <1>4, <2>1, FirstIsDue0
  <2>3. /\ d[timers[i].timer] \in Nat /\ d[timers[1].timer] \in Nat
        /\ d[timers[1].timer] <= d[timers[i].timer]
    BY <1>2, <2>1, FirstInTime
  <2>4. PICK p \in Ahead : d[timers[i].timer] <= time + p
    BY <1>2 DEF InTime
  <2>5. p \in Nat
    BY <1>4 DEF Near
  <2>6. d[timers[i].timer] <= later + p
    BY <1>2, <1>3, <2>3, <2>4, <2>5
  <2>7. later <= d[timers[i].timer]
    BY <1>1, <1>2, <1>3, <2>2, <2>3
  <2> QED BY <2>6, <2>7
<1>6. InTime(Auths, 0, Ahead, timers, d, later)
  <2>1. ASSUME NEW i \in 1 .. Len(timers)
        PROVE  later - 0 <= d[timers[i].timer]
    BY <1>2, <1>3, <1>5
  <2> QED BY <1>2, <1>5, <2>1 DEF InTime
<1>7. Timely(State, d, later)
  BY <1>6 DEF Timing, Timely, State
<1>8. State' = State
  BY <1>1 DEF State
<1>9. Timely(State, d, time)'
  BY <1>1, <1>3, <1>7, <1>8
<1>10. ASSUME NEW b \in Auths PROVE Attended(b, d)'
  <2>1. Attended(b, d) /\ idleSince[b] \in Nat
    BY AuthorizationsAssumption DEF Timing, Base, AuthTypeOK, InUse
  <2>2. Users(b)' = Users(b)
    BY <1>1 DEF Users
  <2>3. idleSince[b] <= time => idleSince[b] <= time + 1
    BY <1>2, <2>1
  <2>4. Absent(timers, b)' <=> Absent(timers, b)
    BY <1>1 DEF Absent
  <2> QED BY <1>1, <2>1, <2>2, <2>3, <2>4 DEF Attended
<1> QED BY <1>9, <1>10 DEF Timing

LEMMA SameTiming ==
    ASSUME NEW d, Timing(d), UNCHANGED <<time, timers, auths, clients, idleSince, miscounted>>
    PROVE  Timing(d)'
<1>1. State' = State
  BY DEF State
<1>2. Timely(State, d, time)'
  BY <1>1 DEF Timing
<1>3. ASSUME NEW b \in Auths PROVE Attended(b, d)'
  <2>1. Users(b)' = Users(b) /\ (Absent(timers, b)' <=> Absent(timers, b))
    BY DEF Users, Absent
  <2>2. Attended(b, d)
    BY DEF Timing
  <2> QED BY <2>1, <2>2 DEF Attended
<1> QED BY <1>2, <1>3 DEF Timing

-----------------------------------------------------------------------------
Timed == Base /\ \E d : Timing(d)

LEMMA InitTimed ==
    ASSUME HalfClock, AuthInit
    PROVE  Timed
<1>1. Base
  BY InitBase
<1>2. PICK d : d = [b \in Auths |-> 0]
  OBVIOUS
<1>3. timers = <<>> /\ Len(timers) = 0 /\ timers \in Seq(Entries(Auths))
  BY DEF AuthInit
<1>4. InTime(Auths, 0, Ahead, timers, d, time)
  BY <1>3 DEF InTime
<1>5. auths = [b \in Auths |-> NewAuth]
  BY DEF AuthInit
<1>6. \A b \in Auths : auths[b].secondsRemaining = 0 /\ ~auths[b].valid
  BY <1>5 DEF NewAuth
<1>7. d \in [Auths -> Nat]
  BY <1>2
<1>8. Timely(State, d, time)
  BY <1>4, <1>6, <1>7 DEF Timely, State
<1>9. \A b \in Auths : Attended(b, d)
  BY <1>6 DEF Attended
<1> QED BY <1>1, <1>8, <1>9 DEF Timed, Timing

LEMMA NextTimed ==
    ASSUME HalfClock, Timed, [AuthNext]_authVars
    PROVE  Timed'
<1>1. Base /\ Base'
  BY NextBase DEF Timed
<1>2. PICK d : Timing(d)
  BY DEF Timed
<1>3. ASSUME \E e : Timing(e)' PROVE Timed'
  BY <1>1, <1>3 DEF Timed
<1>4. ASSUME NEW a \in Auths, NEW seconds \in Timeouts, GenerateAuthorization(a, seconds)
      PROVE  Timed'
  BY <1>1, <1>2, <1>3, <1>4, GenerateTiming
<1>5. ASSUME NEW a \in Auths, NEW c \in Clients, Connect(c, a) PROVE Timed'
  BY <1>1, <1>2, <1>3, <1>5, ConnectTiming
<1>6. ASSUME NEW a \in Auths, RevokeAuthorization(a) PROVE Timed'
  <2>1. Timing(d)'
    BY <1>1, <1>2, <1>6, RevokeTiming
  <2> QED BY <1>3, <2>1
<1>7. ASSUME NEW a \in Auths, TimerExpires(a) PROVE Timed'
  <2>1. Timing(d)'
    BY <1>1, <1>2, <1>7, TimerExpiresTiming
  <2> QED BY <1>3, <2>1
<1>8. ASSUME NEW c \in Clients, ChangeCloseDownMode(c) PROVE Timed'
  <2>1. UNCHANGED <<time, timers, auths, clients, idleSince, miscounted>>
    BY <1>8 DEF ChangeCloseDownMode
  <2>2. Timing(d)'
    BY <1>2, <2>1, SameTiming
  <2> QED BY <1>3, <2>2
<1>9. ASSUME NEW c \in Clients, Retain(c) PROVE Timed'
  BY <1>1, <1>2, <1>3, <1>9, RetainTiming
<1>10. ASSUME NEW c \in Clients, Disconnect(c) \/ KillRetained(c) PROVE Timed'
  <2>1. /\ clients[c].state # "NULL"
        /\ Becomes(Retired(Uncounted(State, clients[c].authId), c)) /\ UpdateIdle
        /\ UNCHANGED <<time, closeDownMode>>
        /\ \/ miscounted' = miscounted /\ clients[c].state = "Running"
           \/ miscounted' = miscounted \cup {clients[c].authId}
    BY <1>10 DEF Disconnect, KillRetained
  <2>2. \E e : Timing(e)'
    BY <1>1, <1>2, <2>1, RetireTiming
  <2> QED BY <1>3, <2>2
<1>11. CASE TimePasses
  <2>1. Timing(d)'
    BY <1>1, <1>2, <1>11, TickTiming
  <2> QED BY <1>3, <2>1
<1>12. CASE UNCHANGED authVars
  <2>1. UNCHANGED <<time, timers, auths, clients, idleSince, miscounted>>
    BY <1>12 DEF authVars
  <2>2. Timing(d)'
    BY <1>2, <2>1, SameTiming
  <2> QED BY <1>3, <2>2
<1> QED BY <1>4, <1>5, <1>6, <1>7, <1>8, <1>9, <1>10, <1>11, <1>12 DEF AuthNext

LEMMA TimedPurges == Timed => PurgedInTime
<1> SUFFICES ASSUME Timed PROVE PurgedInTime
  OBVIOUS
<1>1. PICK d : Timing(d)
  BY DEF Timed
<1>2. /\ InTime(Auths, 0, Ahead, timers, d, time) /\ d \in [Auths -> Nat]
      /\ time \in Nat /\ timers \in Seq(Entries(Auths))
  BY <1>1, AuthorizationsAssumption DEF Timed, Base, AuthTypeOK, Timing, Timely, State, InTime
<1>3. ASSUME NEW a \in Auths \ miscounted, auths[a].valid, auths[a].timeout # 0, Users(a) = {}
      PROVE  /\ time <= idleSince[a] + auths[a].timeout * MILLI_PER_SECOND
             /\ \E i \in DOMAIN timers : timers[i].timer = a
  <2>1. /\ ~Absent(timers, a)
        /\ d[a] = idleSince[a] + auths[a].timeout * MILLI_PER_SECOND
    BY <1>1, <1>3 DEF Timing, Attended
  <2>2. PICK i \in 1 .. Len(timers) : timers[i].timer = a
    BY <2>1 DEF Absent
  <2>3. time - 0 <= d[a] /\ d[a] \in Nat
    BY <1>2, <2>2 DEF InTime
  <2>4. DOMAIN timers = 1 .. Len(timers)
    BY <1>2
  <2>5. time <= d[a]
    BY <1>2, <2>3
  <2> QED BY <2>1, <2>2, <2>4, <2>5
<1> QED BY <1>3 DEF PurgedInTime

(* Every state, when no timeout is as long as half the clock: an unused    *)
(* authorization with a timeout is there only until its timeout is over,   *)
(* and its timer runs.                                                     *)
THEOREM UnusedArePurged == ASSUME HalfClock PROVE AuthSpec => []PurgedInTime
<1>1. AuthInit => Timed
  BY InitTimed
<1>2. Timed /\ [AuthNext]_authVars => Timed'
  BY NextTimed
<1> QED BY <1>1, <1>2, TimedPurges, PTL DEF AuthSpec

LEMMA NotEarly ==
    ASSUME HalfClock, Timed, AuthNext, NEW a \in Auths \ miscounted', Purged(a),
           TimerExpires(a) \/ ~RevokeAuthorization(a)
    PROVE  /\ auths[a].valid
           /\ idleSince[a] # InUse
           /\ time - idleSince[a] >= auths[a].timeout * MILLI_PER_SECOND
<1>1. Base /\ Base'
  BY NextBase DEF Timed
<1>2. PICK d : Timing(d)
  BY DEF Timed
<1>3. CASE TimerExpires(a)
  <2>1. auths[a].valid /\ d[a] <= time /\ ~Absent(timers, a)
    BY <1>1, <1>2, <1>3, TimerExpiresTiming
  <2>2. a \notin miscounted
    BY <1>3 DEF TimerExpires
  <2>3. /\ idleSince[a] <= time
        /\ d[a] = idleSince[a] + auths[a].timeout * MILLI_PER_SECOND
    BY <1>2, <2>1, <2>2 DEF Timing, Attended
  <2>4. /\ MaxTime \in Nat /\ time \in 0 .. MaxTime /\ idleSince[a] \in 0 .. MaxTime + 1
        /\ d[a] \in Nat
    BY <1>1, <1>2, AuthorizationsAssumption DEF Base, AuthTypeOK, InUse, Timing, Timely
  <2>5. PICK p : p = auths[a].timeout * MILLI_PER_SECOND
    OBVIOUS
  <2>6. p \in Nat
    <3>1. auths[a].timeout \in Timeouts \cup {0}
      <4>1. auths[a] \in Auth
        BY <1>1 DEF Base, AuthTypeOK
      <4> QED BY <4>1 DEF Auth
    <3>2. auths[a].timeout \in Nat /\ MILLI_PER_SECOND \in Nat
      <4>1. \A x \in Timeouts : x \in Nat
        BY AuthorizationsAssumption
      <4>2. PICK x : x = auths[a].timeout
        OBVIOUS
      <4>3. x \in Timeouts \/ x = 0
        BY <3>1, <4>2
      <4>4. x \in Nat
        BY <4>1, <4>3
      <4>5. MILLI_PER_SECOND \in Nat
        BY AuthorizationsAssumption
      <4> QED BY <4>2, <4>4, <4>5
    <3> QED BY <2>5, <3>2
  <2>7. time - idleSince[a] >= p
    BY <2>1, <2>3, <2>4, <2>5, <2>6
  <2>8. idleSince[a] # InUse
    BY <2>3, <2>4 DEF InUse
  <2> QED BY <2>1, <2>5, <2>7, <2>8
<1>4. CASE ~TimerExpires(a)
  <2>1. ~RevokeAuthorization(a)
    BY <1>4
  <2>2. ASSUME NonePurged PROVE FALSE
    BY <2>2 DEF NonePurged
  <2>3. ASSUME NEW b \in Auths, NEW seconds \in Timeouts, GenerateAuthorization(b, seconds)
        PROVE  FALSE
    BY <1>1, <1>2, <2>2, <2>3, GenerateTiming
  <2>4. ASSUME NEW b \in Auths, NEW c \in Clients, Connect(c, b) PROVE FALSE
    BY <1>1, <1>2, <2>2, <2>4, ConnectTiming
  <2>5. ASSUME NEW b \in Auths, RevokeAuthorization(b) PROVE FALSE
    <3>1. a # b
      BY <2>1, <2>5
    <3>2. \A k \in Auths \ {b} : ~Purged(k)
      BY <1>1, <1>2, <2>5, RevokeTiming
    <3> QED BY <3>1, <3>2
  <2>6. ASSUME NEW b \in Auths, TimerExpires(b) PROVE FALSE
    <3>1. a # b
      BY <1>4, <2>6
    <3>2. \A k \in Auths \ {b} : ~Purged(k)
      BY <1>1, <1>2, <2>6, TimerExpiresTiming
    <3> QED BY <3>1, <3>2
  <2>7. ASSUME NEW c \in Clients, ChangeCloseDownMode(c) PROVE FALSE
    BY <2>7 DEF ChangeCloseDownMode, Purged
  <2>8. ASSUME NEW c \in Clients, Retain(c) PROVE FALSE
    BY <1>1, <1>2, <2>2, <2>8, RetainTiming
  <2>9. ASSUME NEW c \in Clients, Disconnect(c) \/ KillRetained(c) PROVE FALSE
    <3>1. /\ clients[c].state # "NULL"
          /\ Becomes(Retired(Uncounted(State, clients[c].authId), c)) /\ UpdateIdle
          /\ UNCHANGED <<time, closeDownMode>>
          /\ \/ miscounted' = miscounted /\ clients[c].state = "Running"
             \/ miscounted' = miscounted \cup {clients[c].authId}
      BY <2>9 DEF Disconnect, KillRetained
    <3>2. NonePurged
      BY <1>1, <1>2, <3>1, RetireTiming
    <3> QED BY <2>2, <3>2
  <2>10. ASSUME TimePasses PROVE FALSE
    BY <2>10 DEF TimePasses, Purged
  <2> QED BY <2>3, <2>4, <2>5, <2>6, <2>7, <2>8, <2>9, <2>10 DEF AuthNext
<1> QED BY <1>3, <1>4

(* Every step, when no timeout is as long as half the clock: what purges   *)
(* an authorization without a request is its own timer, and only when no   *)
(* client has used it for its whole timeout.                               *)
THEOREM PurgesNotEarly == ASSUME HalfClock PROVE AuthSpec => NeverPurgedEarly
<1> DEFINE Late == \A a \in Auths \ miscounted' :
         Purged(a) /\ (TimerExpires(a) \/ ~RevokeAuthorization(a)) =>
             /\ auths[a].valid
             /\ idleSince[a] # InUse
             /\ time - idleSince[a] >= auths[a].timeout * MILLI_PER_SECOND
<1>1. AuthInit => Timed
  BY InitTimed
<1>2. Timed /\ [AuthNext]_authVars => Timed'
  BY NextTimed
<1>3. Timed /\ [AuthNext]_authVars => [Late]_authVars
  BY NotEarly
<1> QED BY <1>1, <1>2, <1>3, PTL DEF AuthSpec, NeverPurgedEarly
=============================================================================

------------------------------ MODULE OsTimers ------------------------------
(***************************************************************************)
(* The timers of os/WaitFor.c and the wait for the first of them: requests *)
(* and callbacks set, cancel and force timers, WaitForSomething sleeps no  *)
(* longer than until the first one is due and then runs all that are.      *)
(*                                                                         *)
(* time is the time since the server started; the program sees it modulo   *)
(* Wrap.  select() returns when its timeout has passed.                    *)
(***************************************************************************)
EXTENDS Timers

CONSTANTS
    TimerIds,   \* timers that callers own
    Periods,    \* the delays they ask for
    InputPending,  \* device input may be queued when select() returns
    MaxLate,    \* how late the server may be for a timer (24 days in the code)
    StartTime   \* the clock when the model starts

ASSUME OsTimersAssumption ==
    /\ Periods \subseteq Nat \ {0}
    /\ InputPending \in BOOLEAN
    /\ MaxLate \in Nat
    /\ \A p \in Periods : 2 * (MaxLate + p) < Wrap
    /\ MaxTime \in Nat /\ StartTime \in 0 .. MaxTime

VARIABLES
    due,     \* history: when each timer that is set is to expire
    pc,      \* "run", "select" (asleep) or "timers" (in the loop over timers)
    now,     \* the clock that the loop compares with
    wake,    \* when select() returns, NoTimeout if it has no timeout
    lastLook \* history: when WaitForSomething last looked at the timers

vars == <<time, timers, due, pc, now, wake, lastLook>>

NoTimeout == MaxTime + 1

TypeOK ==
    /\ time \in StartTime .. MaxTime
    /\ timers \in Seq([timer: TimerIds, expires: 0 .. Wrap - 1])
    /\ \A i, j \in DOMAIN timers : timers[i].timer = timers[j].timer => i = j
    /\ due \in [TimerIds -> Nat]
    /\ pc \in {"run", "select", "timers"}
    /\ now \in 0 .. Wrap - 1
    /\ wake \in Nat
    /\ lastLook \in StartTime .. MaxTime

IsSet(t) == \E i \in DOMAIN timers : timers[i].timer = t

(* What a callback may return: 0, or a delay after which to call it again *)
Returns == Periods \cup {0}

(* What the callback returns if TimerSet calls it at once *)
Again(millis) == IF IsOver(millis, Card(time)) THEN Returns ELSE {0}

(***************************************************************************)
(* What requests, and the callbacks of other timers, do.                   *)
(***************************************************************************)

(* TimerSet of a timer that is not in the list (any more) *)
Start(rest, t, millis) ==
    /\ \E again \in Again(millis) :
          timers' = TimerSet(rest, t, millis, Card(time), again)
    /\ due' = [due EXCEPT ![t] = IF millis = 0 THEN 0 ELSE time + millis]

Set(t, millis) ==
    /\ pc \in {"run", "timers"}
    /\ Start(timers, t, millis)
    /\ UNCHANGED <<time, pc, now, wake, lastLook>>

(* TimerCancel, and TimerSet to 0 *)
Cancel(t) ==
    /\ pc \in {"run", "timers"}
    /\ timers' = Unlinked(timers, t)
    /\ due' = [due EXCEPT ![t] = 0]
    /\ UNCHANGED <<time, pc, now, wake, lastLook>>

(* TimerForce, and DoTimer: the callback returns millis. *)
TimerForce(t, millis) ==
    /\ pc = "run"
    /\ IsSet(t)
    /\ Start(Unlinked(timers, t), t, millis)
    /\ UNCHANGED <<time, pc, now, wake, lastLook>>

-----------------------------------------------------------------------------
(***************************************************************************)
(* WaitForSomething                                                        *)
(***************************************************************************)

(* mutant of Wait: sleeps until the last timer is due *)
WaitForLast ==
    /\ pc = "run"
    /\ pc' = "select"
    /\ wake' = IF timers = <<>> THEN NoTimeout
               ELSE time + Timeout(<<Last(timers)>>, Card(time))
    /\ UNCHANGED <<time, timers, due, now, lastLook>>

Wait ==
    /\ pc = "run"
    /\ pc' = "select"
    /\ wake' = IF timers = <<>> THEN NoTimeout
               ELSE time + Timeout(timers, Card(time))
    /\ UNCHANGED <<time, timers, due, now, lastLook>>

(* select() returns: its timeout has passed, a socket is readable or a     *)
(* signal came.  With device input in the queue it is input that is served *)
(* first.  (With a request in a client's buffer the smart scheduler does   *)
(* not sleep, and leaves the timers alone when no other client is ready:   *)
(* nothing here changes.)                                                  *)
SelectReturns(input) ==
    /\ pc = "select"
    /\ LET skip == timers = <<>> \/ input
       IN  /\ pc' = IF skip THEN "run" ELSE "timers"
           /\ now' = IF skip THEN 0 ELSE Card(time)
    /\ wake' = 0
    /\ lastLook' = IF input THEN lastLook ELSE time
    /\ UNCHANGED <<time, timers, due>>

(* mutant of DoTimer: runs a timer one millisecond early *)
DoTimerEarly(millis) ==
    /\ pc = "timers"
    /\ FirstIsDue(timers, Card(now + 1))
    /\ Start(Tail(timers), Head(timers).timer, millis)
    /\ UNCHANGED <<time, pc, now, wake, lastLook>>

DoTimer(millis) ==
    /\ pc = "timers"
    /\ FirstIsDue(timers, now)
    /\ Start(Tail(timers), Head(timers).timer, millis)
    /\ UNCHANGED <<time, pc, now, wake, lastLook>>

NoMoreDue ==
    /\ pc = "timers"
    /\ ~FirstIsDue(timers, now)
    /\ pc' = "run"
    /\ now' = 0
    /\ UNCHANGED <<time, timers, due, wake, lastLook>>

(* Time passes, while the server sleeps or works; no timer, and no loop    *)
(* over the timers, is as late as half the clock (see MaxLate).            *)
Tick ==
    /\ time < MaxTime
    /\ pc = "select" => time < wake
    /\ \A t \in TimerIds : IsSet(t) => time - due[t] < MaxLate
    /\ pc = "timers" => time - lastLook < MaxLate
    /\ time' = time + 1
    /\ UNCHANGED <<timers, due, pc, now, wake, lastLook>>

Init ==
    /\ time = StartTime
    /\ timers = <<>>
    /\ due = [t \in TimerIds |-> 0]
    /\ pc = "run"
    /\ now = 0
    /\ wake = 0
    /\ lastLook = StartTime

Next ==
    \/ \E t \in TimerIds, m \in Periods : Set(t, m)
    \/ \E t \in TimerIds : Cancel(t)
    \/ \E t \in TimerIds, m \in Returns : TimerForce(t, m)
    \/ \E m \in Returns : DoTimer(m)
    \/ \E input \in {FALSE, InputPending} : SelectReturns(input)
    \/ Wait \/ NoMoreDue \/ Tick

Spec == Init /\ [][Next]_vars

-----------------------------------------------------------------------------
(***************************************************************************)
(* Properties.  The times that are compared are less than half the clock   *)
(* apart (MaxLate), the clock itself may wrap any number of times.         *)
(***************************************************************************)

(* The list is in the order in which the timers are due, also when the     *)
(* clock wraps between them (TimerSet).                                    *)
InOrder ==
    \A i, j \in DOMAIN timers :
        i < j => due[timers[i].timer] <= due[timers[j].timer]

(* No timer runs before it is due (DoTimer).                               *)
NeverEarly ==
    [][(\E m \in Returns : DoTimer(m)) => time >= due[Head(timers).timer]]_vars

(* The server does not sleep past the time at which a timer is due.        *)
NeverOversleeps ==
    pc = "select" => \A t \in TimerIds : IsSet(t) => wake <= due[t] \/ wake <= time

(* "A callback function will be called when the timer fires": when         *)
(* WaitForSomething has looked at the timers, none is left that was due by *)
(* then, also if callbacks set, cancelled or moved others meanwhile.       *)
DueTimersRun ==
    pc = "run" => \A t \in TimerIds : IsSet(t) => due[t] > lastLook

(* The invariant of the list: no timer is in it twice, it is in order      *)
(* across the wrap of the clock, and no due timer is left in it.           *)
OsTimersInv == TypeOK /\ InOrder /\ DueTimersRun
=============================================================================

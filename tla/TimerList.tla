------------------------------ MODULE TimerList ------------------------------
(***************************************************************************)
(* The list of timers of os/WaitFor.c: the timers that are set, in the     *)
(* order in which they expire.  Times are CARD32 milliseconds that wrap;   *)
(* which of two is earlier is the sign of their difference.                *)
(***************************************************************************)
EXTENDS Integers, Sequences, SequencesExt

CONSTANT Wrap  \* how many values a CARD32 has (2^32 in the code)

ASSUME TimerListAssumption == Wrap \in Nat \ {0}

Card(n) == n % Wrap

(* (int) (a - b) *)
Difference(a, b) ==
    LET d == Card(a - b) IN IF 2 * d >= Wrap THEN d - Wrap ELSE d

(* The first of some places in a list *)
FirstOf(places) == CHOOSE i \in places : \A j \in places : i <= j

(* *prev = timer->next, at the first place where the timer is *)
Unlinked(list, t) ==
    LET places == {i \in DOMAIN list : list[i].timer = t}
    IN  IF places = {} THEN list ELSE RemoveAt(list, FirstOf(places))

(* mutant of Linked: compares two times without regard to their wrapping *)
LinkedUnsigned(list, t, expires, key) ==
    LET later == {i \in DOMAIN list : list[i].expires > key}
        at    == IF later = {} THEN Len(list) + 1 ELSE FirstOf(later)
    IN  InsertAt(list, at, [timer |-> t, expires |-> expires])

(* The timer goes before the first one that expires after millis. *)
Linked(list, t, expires, millis) ==
    LET later == {i \in DOMAIN list : Difference(list[i].expires, millis) > 0}
        at    == IF later = {} THEN Len(list) + 1 ELSE FirstOf(later)
    IN  InsertAt(list, at, [timer |-> t, expires |-> expires])

(* A time that TimerSet takes for one that is over: it calls back at once. *)
IsOver(millis, now) == millis # 0 /\ Difference(millis + now, now) <= 0

(* TimerSet without flags (no caller has any).  again is what the callback *)
(* returned if the time is over; the timer keeps its old expires then, and *)
(* its place in the list is by again, which is not an absolute time.       *)
TimerSet(list, t, millis, now, again) ==
    LET rest == Unlinked(list, t)
        expires == Card(millis + now)
    IN  IF millis = 0 THEN rest
        ELSE IF ~IsOver(millis, now) THEN Linked(rest, t, expires, expires)
        ELSE IF again = 0 THEN rest
        ELSE Linked(rest, t, expires, again)

(* The first timer is due: the condition of every loop over the timers. *)
FirstIsDue(list, now) == list # <<>> /\ Difference(Head(list).expires, now) <= 0

(* How long select() may wait *)
Timeout(list, now) ==
    LET d == Difference(Head(list).expires, now) IN IF d < 0 THEN 0 ELSE d
=============================================================================

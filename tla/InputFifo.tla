------------------------------ MODULE InputFifo ------------------------------
(***************************************************************************)
(* What the server's input queue promises about button events: they reach  *)
(* dix in the order they happened, each once, and one is refused only      *)
(* when at least Capacity of them already wait.  Motion is not seen here.  *)
(* Events are numbered in the order in which they happen.                  *)
(***************************************************************************)
EXTENDS Naturals, FiniteSets

CONSTANT Capacity  \* how many button events the queue always has room for

VARIABLES
    waiting,    \* events accepted and not yet taken from the queue
    inHand,     \* the event taken and not yet processed, 0 if none
    processed,  \* the last event dix processed
    happened    \* the last event that happened

fifoVars == <<waiting, inHand, processed, happened>>

Init ==
    /\ waiting = {}
    /\ inHand = 0
    /\ processed = 0
    /\ happened = 0

Accept ==
    /\ happened' > happened
    /\ waiting' = waiting \cup {happened'}
    /\ UNCHANGED <<inHand, processed>>

Refuse ==
    /\ happened' > happened
    /\ Cardinality(waiting) >= Capacity
    /\ UNCHANGED <<waiting, inHand, processed>>

Take ==
    /\ inHand = 0
    /\ inHand' \in waiting
    /\ \A n \in waiting : inHand' <= n
    /\ waiting' = waiting \ {inHand'}
    /\ UNCHANGED <<processed, happened>>

Process ==
    /\ inHand # 0
    /\ processed' = inHand
    /\ inHand' = 0
    /\ UNCHANGED <<waiting, happened>>

Next == Accept \/ Refuse \/ Take \/ Process

Spec == Init /\ [][Next]_fifoVars
=============================================================================

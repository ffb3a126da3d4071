-------------------------- MODULE MCSmartScheduler --------------------------
(***************************************************************************)
(* Model-checking instances of SmartScheduler.                             *)
(* The last two formulas are ones that the code does not keep: README.md   *)
(* (Departures) says how they fail.                                        *)
(***************************************************************************)
EXTENDS SmartScheduler

MCMinPriority == -1

MCEqual == [c \in Clients |-> 0]

(* The client in the first word has the highest priority.                  *)
MCFirstWordHighest == [c \in Clients |-> IF c = 1 THEN 2 ELSE c - 2]

(* "Only the highest priority client is returned to dix."                  *)
OnlyHighestPriority ==
    \A c \in ClientsReady(ready), d \in ready : Priority[d] <= Priority[c]

(* A client that always has a request is served again and again.           *)
NobodyStarves == \A c \in Clients : <>[](c \in ready) => []<>(serving = c)
=============================================================================

------------------------------- MODULE Timers -------------------------------
(***************************************************************************)
(* The list of timers of os/WaitFor.c and the clock, that WaitForSomething *)
(* (OsTimers) and those who set timers (Authorizations) share.             *)
(***************************************************************************)
EXTENDS TimerList

CONSTANT MaxTime  \* bound: when the clock stops

VARIABLES
    time,    \* milliseconds since the server started, which the program sees modulo Wrap
    timers   \* the list
=============================================================================

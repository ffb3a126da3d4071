--------------------------- MODULE SmartScheduler ---------------------------
(***************************************************************************)
(* The smart scheduler: SmartScheduleClient and the slices of Dispatch in  *)
(* dix/dispatch.c, the interval timer of os/utils.c, whose signal handler  *)
(* runs between any two steps of the main program, and the part of         *)
(* os/WaitFor.c that starts it and says which clients are ready.           *)
(*                                                                         *)
(* The unit of time is SmartScheduleInterval, one tick of the timer; what  *)
(* the program keeps as the time of an event is its age here, counted only *)
(* while a comparison may look at it and up to where none tells more.      *)
(* Input is seen by select() and by the client that is being served: it    *)
(* arrives there.                                                          *)
(***************************************************************************)
EXTENDS Integers, FiniteSets, DispatchClients

CONSTANTS
    Priority,               \* the priority SyncSetPriority gave each client
    MaskWordBits,           \* bits of a word of a descriptor mask, 32 or 64
    SMART_MIN_PRIORITY,     \* -20 in the code
    SMART_MAX_PRIORITY,     \* 20
    SmartScheduleMaxSlice,  \* 10 ticks
    LongTime                \* 50 ticks: a client has run alone for long

ASSUME SmartSchedulerAssumption ==
    /\ IsFiniteSet(Clients) /\ Clients \subseteq 1 .. 255 /\ NoClient \notin Clients
    /\ Mortal \subseteq Clients
    /\ Priority \in [Clients -> Int] /\ MaskWordBits \in Nat \ {0}
    /\ SMART_MIN_PRIORITY \in Int /\ SMART_MIN_PRIORITY < 0
    /\ SMART_MAX_PRIORITY \in Nat
    /\ SmartScheduleMaxSlice \in Nat \ {0} /\ LongTime \in Nat

VARIABLES
    clients,             \* the clients that are connected
    ready,               \* those whose buffer or socket holds a request
    smart_priority,
    check_age,           \* ticks since smart_check_tick, of each client
    start_age,           \* ticks since smart_start_tick of SmartLastClient
    SmartLastIndex,      \* of each priority: the client last chosen with it
    SmartLastClient,
    SmartScheduleSlice,  \* in ticks
    slice_age,           \* ticks since start_tick of Dispatch
    SmartScheduleIdle, SmartScheduleTimerStopped,
    itimer,              \* the timer runs
    serving,             \* the client that Dispatch serves
    pc,                  \* where the main program is
    overtaken            \* history: who was chosen before each client that waits

scheduling == <<smart_priority, SmartLastIndex, SmartLastClient, SmartScheduleSlice>>
ages == <<check_age, start_age, slice_age>>
timer == <<SmartScheduleIdle, SmartScheduleTimerStopped, itimer>>
scheduleVars == <<clients, ready, scheduling, ages, timer, serving, pc, overtaken>>

Priorities == SMART_MIN_PRIORITY .. SMART_MAX_PRIORITY
Goto(from, to) == pc = from /\ pc' = to

---------------------------------------------------------------------------
(* The timer.                                                              *)

Older(age, limit) == IF age < limit THEN age + 1 ELSE age

Tick ==
    /\ check_age' = [c \in Clients |->
                       IF c = serving \/ smart_priority[c] < 0
                       THEN Older(check_age[c], 2 * SmartScheduleMaxSlice)
                       ELSE check_age[c]]
    /\ start_age' = IF SmartLastClient = NoClient THEN 0 ELSE Older(start_age, LongTime + 1)
    /\ slice_age' = IF serving = NoClient THEN 0 ELSE Older(slice_age, SmartScheduleMaxSlice)

(* The handler of SIGALRM: it stops the timer of an idle server.           *)
SmartScheduleTimer ==
    /\ itimer /\ Tick
    /\ IF SmartScheduleIdle THEN itimer' = FALSE /\ SmartScheduleTimerStopped' = TRUE
       ELSE UNCHANGED <<itimer, SmartScheduleTimerStopped>>
    /\ UNCHANGED <<clients, ready, scheduling, SmartScheduleIdle, serving, pc, overtaken>>

---------------------------------------------------------------------------
(* WaitForSomething.                                                       *)

EnterSelect ==
    /\ Goto("wait", "select")
    /\ SmartScheduleIdle' = TRUE
    /\ UNCHANGED <<clients, ready, scheduling, ages, SmartScheduleTimerStopped, itimer,
                   serving, overtaken>>

(* A signal, or a descriptor that was closed: the server stays idle.       *)
SelectFails ==
    /\ Goto("select", "wait")
    /\ UNCHANGED <<clients, ready, scheduling, ages, timer, serving, overtaken>>

(* select() finds input, or was only asked whether there is some, or its   *)
(* time is over.                                                           *)
SelectReturns ==
    /\ Goto("select", "return")
    /\ UNCHANGED <<clients, ready, scheduling, ages, timer, serving, overtaken>>

(* mutant of NoLongerIdle: only when the timer must be started             *)
NoLongerIdleIfStopped ==
    /\ Goto("return", IF SmartScheduleTimerStopped THEN "start" ELSE "choose")
    /\ SmartScheduleIdle' = ~SmartScheduleTimerStopped
    /\ UNCHANGED <<clients, ready, scheduling, ages, SmartScheduleTimerStopped, itimer,
                   serving, overtaken>>

NoLongerIdle ==
    \/ /\ Goto("return", "test")
       /\ SmartScheduleIdle' = FALSE
       /\ UNCHANGED <<clients, ready, scheduling, ages, SmartScheduleTimerStopped, itimer,
                      serving, overtaken>>
    \/ /\ Goto("test", IF SmartScheduleTimerStopped THEN "start" ELSE "choose")
       /\ UNCHANGED <<clients, ready, scheduling, ages, timer, serving, overtaken>>

SmartScheduleStartTimer ==
    \/ /\ Goto("start", "setitimer")
       /\ SmartScheduleTimerStopped' = FALSE
       /\ UNCHANGED <<clients, ready, scheduling, ages, SmartScheduleIdle, itimer, serving,
                      overtaken>>
    \/ /\ Goto("setitimer", "choose")
       /\ itimer' = TRUE
       /\ UNCHANGED <<clients, ready, scheduling, ages, SmartScheduleIdle,
                      SmartScheduleTimerStopped, serving, overtaken>>

(* The loop over the words of the mask, the lowest first: the clients of   *)
(* the highest priority of a word, if that is above 0, replace the list so *)
(* far; those of priority 0 are added; any priority will do when the list  *)
(* is empty.                                                               *)
WordOf(c) == c \div MaskWordBits

HighestOfWord(S) ==
    {c \in S : \A d \in S : WordOf(d) = WordOf(c) => Priority[d] <= Priority[c]}

Replacing(S) ==
    {c \in HighestOfWord(S) : Priority[c] > 0 \/ \A d \in S : WordOf(c) <= WordOf(d)}

ClientsReady(S) ==
    {c \in HighestOfWord(S) :
        /\ c \in Replacing(S) \/ Priority[c] = 0
        /\ \A d \in Replacing(S) : WordOf(d) <= WordOf(c)}

---------------------------------------------------------------------------
(* Dispatch.                                                               *)

(* "Praise clients which are idle"                                         *)
Praised(list) ==
    [c \in Clients |->
        IF c \in list /\ check_age[c] >= 2 * SmartScheduleSlice /\ smart_priority[c] < 0
        THEN smart_priority[c] + 1 ELSE smart_priority[c]]

(* mutant of Robin: clients behind the last one do not come first *)
RobinUnwrapped(c, prio) == c - SmartLastIndex[prio] + 256

(* mutant of Robin: goes round from the client that ran last, whatever its *)
(* priority                                                                *)
RobinFromLastClient(c, prio) ==
    (c - IF SmartLastClient = NoClient THEN 0 ELSE SmartLastClient) % 256

Robin(c, prio) == (c - SmartLastIndex[prio]) % 256

Best(list, prio) ==
    CHOOSE c \in list : \A d \in list :
        \/ prio[d] < prio[c]
        \/ prio[d] = prio[c] /\ Robin(d, prio[d]) <= Robin(c, prio[c])

(* "If it's been a long time since another client has run"                 *)
AdjustedSlice(alone, ran) ==
    IF ~alone THEN 1
    ELSE IF ran > LongTime /\ SmartScheduleSlice < SmartScheduleMaxSlice
         THEN SmartScheduleSlice + 1 ELSE SmartScheduleSlice

(* Who was passed over now: the clients of the same priority that wait.    *)
PassedOver(list, best, prio) ==
    [c \in Clients |->
        IF c \notin list \/ c = best THEN {}
        ELSE LET before == IF prio[c] = smart_priority[c] THEN overtaken[c] ELSE {}
             IN IF prio[best] = prio[c] THEN before \cup {best} ELSE before]

SmartScheduleClient ==
    LET list == ClientsReady(ready)
        prio == Praised(list)
        best == Best(list, prio)
        ran  == IF SmartLastClient = best THEN start_age ELSE 0
    IN /\ list # {}
       /\ Goto("choose", "serve")
       /\ smart_priority' = prio
       /\ check_age' = [c \in Clients |-> IF c \in list THEN 0 ELSE check_age[c]]
       /\ SmartLastIndex' = [SmartLastIndex EXCEPT ![prio[best]] = best]
       /\ SmartLastClient' = best /\ start_age' = ran
       /\ SmartScheduleSlice' = AdjustedSlice(Cardinality(list) = 1, ran)
       /\ serving' = best /\ slice_age' = 0
       /\ overtaken' = PassedOver(list, best, prio)
       /\ UNCHANGED <<clients, ready, timer>>

(* WaitForSomething goes on or returns none: no client is ready, or OS     *)
(* timers were due and it ran those instead.                               *)
NobodyReturned ==
    /\ Goto("choose", "wait")
    /\ UNCHANGED <<clients, ready, scheduling, ages, timer, serving, overtaken>>

Stopped == serving' = NoClient /\ slice_age' = 0 /\ pc' = "wait"
GoesOn == UNCHANGED <<serving, slice_age, pc>>

(* The times smart_check_tick that may still be compared: of the client    *)
(* that is served, and of those with a priority below 0.                   *)
AgesKept ==
    check_age' = [c \in Clients |->
                    IF c = serving' \/ smart_priority'[c] < 0 THEN check_age[c] ELSE 0]

SliceIsOver == slice_age >= SmartScheduleSlice

(* "Penalize clients which consume ticks"                                  *)
SliceEnds ==
    /\ pc = "serve" /\ SliceIsOver
    /\ smart_priority' = [smart_priority EXCEPT ![serving] =
                            IF @ > SMART_MIN_PRIORITY THEN @ - 1 ELSE @]
    /\ Stopped /\ AgesKept
    /\ UNCHANGED <<clients, ready, SmartLastIndex, SmartLastClient, SmartScheduleSlice,
                   start_age, timer, overtaken>>

(* ReadRequestFromClient returns 0: there is no whole request.             *)
NothingToRead ==
    /\ pc = "serve" /\ ~SliceIsOver /\ serving \notin ready
    /\ UNCHANGED <<clients, ready, scheduling, start_age, timer, overtaken>>
    /\ Stopped /\ AgesKept

(* A request fails, puts the client to sleep, or makes Dispatch yield.     *)
RequestYields ==
    /\ pc = "serve" /\ ~SliceIsOver /\ serving \in ready
    /\ ready' \in {ready, ready \ {serving}}
    /\ UNCHANGED <<clients, scheduling, start_age, timer, overtaken>>
    /\ Stopped /\ AgesKept

(* A request is executed; there may be another.                            *)
Request ==
    /\ pc = "serve" /\ ~SliceIsOver /\ serving \in ready
    /\ ready' \in {ready, ready \ {serving}}
    /\ GoesOn
    /\ UNCHANGED <<clients, scheduling, check_age, start_age, timer, overtaken>>

(* A client is sent a critical event: of input, processed before or during *)
(* a client's slice or by a timer, or of damage that Composite waits for.  *)
(* One that waits is then among clients of another priority.               *)
CriticalEvent(c) ==
    /\ pc \in {"wait", "choose", "serve"} /\ c \in clients
    /\ smart_priority[c] < SMART_MAX_PRIORITY
    /\ \E prio \in {smart_priority[c] + 1, SMART_MAX_PRIORITY} :
         smart_priority' = [smart_priority EXCEPT ![c] = prio]
    /\ overtaken' = [overtaken EXCEPT ![c] = {}]
    /\ UNCHANGED <<clients, ready, SmartLastIndex, SmartLastClient, SmartScheduleSlice,
                   start_age, slice_age, timer, serving, pc>>
    /\ AgesKept

(* CloseDownClient: of the client that is served, of another that its      *)
(* request kills, or from the work queue and CheckConnections before the   *)
(* next select().  A client that is retained stays, and sends no more.     *)
ClientClosed(c) ==
    /\ \/ pc = "serve" /\ ~SliceIsOver /\ (c = serving \/ serving \in ready)
       \/ pc = "wait"
    /\ c \in Mortal \cap clients
    /\ clients' = clients \ {c}
    /\ ready' \in {ready \ {c}, ready \ {c, serving}}
    /\ SmartLastClient' = NoClient /\ start_age' = 0
    /\ smart_priority' = [smart_priority EXCEPT ![c] = 0]
    /\ (IF c = serving THEN Stopped ELSE GoesOn) /\ AgesKept
    /\ overtaken' = [overtaken EXCEPT ![c] = {}]
    /\ UNCHANGED <<SmartLastIndex, SmartScheduleSlice, timer>>

(* NextAvailableClient, InitClient: with the fake request it is ready.     *)
NextAvailableClient(c) ==
    /\ pc = "wait" /\ c \in Mortal \ clients
    /\ clients' = clients \cup {c} /\ ready' = ready \cup {c}
    /\ smart_priority' = [smart_priority EXCEPT ![c] = 0]
    /\ overtaken' = [overtaken EXCEPT ![c] = {}]
    /\ UNCHANGED <<SmartLastIndex, SmartLastClient, SmartScheduleSlice, ages,
                   timer, serving, pc>>

RequestArrives(c) ==
    /\ pc = "select" \/ c = serving
    /\ c \in clients \ ready
    /\ ready' = ready \cup {c}
    /\ UNCHANGED <<clients, scheduling, ages, timer, serving, pc, overtaken>>

---------------------------------------------------------------------------
(* SmartScheduleInit leaves the timer stopped.                             *)
ScheduleInit ==
    /\ clients = Clients \ Mortal /\ ready = {}
    /\ smart_priority = [c \in Clients |-> 0] /\ check_age = [c \in Clients |-> 0]
    /\ start_age = 0 /\ slice_age = 0
    /\ SmartLastIndex = [p \in Priorities |-> 0]
    /\ SmartLastClient = NoClient /\ SmartScheduleSlice = 1
    /\ SmartScheduleIdle = FALSE /\ SmartScheduleTimerStopped = TRUE /\ itimer = FALSE
    /\ serving = NoClient /\ pc = "wait" /\ overtaken = [c \in Clients |-> {}]

Main ==
    \/ EnterSelect \/ NoLongerIdle \/ SmartScheduleStartTimer
    \/ SmartScheduleClient \/ NobodyReturned
    \/ SliceEnds \/ NothingToRead \/ RequestYields \/ Request

ScheduleNext ==
    \/ Main \/ SelectFails \/ SelectReturns
    \/ SmartScheduleTimer
    \/ \E c \in Clients : ClientClosed(c) \/ NextAvailableClient(c) \/ RequestArrives(c)
                           \/ CriticalEvent(c)

ScheduleSpec == ScheduleInit /\ [][ScheduleNext]_scheduleVars

(* The main program runs on: it stays at none of its places, nor with a    *)
(* client whose slice is over or that has no request.  The timer ticks     *)
(* while it runs; select() does not fail, and OS timers are not due, each  *)
(* time that a client is ready.  Nothing is assumed of clients: one may    *)
(* send requests for ever.                                                 *)
FairSchedule ==
    /\ ScheduleSpec
    /\ \A place \in {"wait", "return", "test", "start", "setitimer", "choose"} :
         []<>(pc # place)
    /\ []<>(pc = "serve" => ~SliceIsOver /\ serving \in ready)
    /\ WF_scheduleVars(SmartScheduleTimer)
    /\ []<>(pc = "select" /\ ready # {}) => []<>(pc = "serve")

---------------------------------------------------------------------------
(* Properties.                                                             *)

(* Every variable has its type: a priority is one that SmartLastIndex has  *)
(* an entry for.                                                           *)
ScheduleTypeOK ==
    /\ clients \subseteq Clients /\ ready \subseteq clients
    /\ smart_priority \in [Clients -> Priorities]
    /\ check_age \in [Clients -> 0 .. 2 * SmartScheduleMaxSlice]
    /\ start_age \in 0 .. LongTime + 1 /\ slice_age \in 0 .. SmartScheduleMaxSlice
    /\ SmartLastIndex \in [Priorities -> Clients \cup {0}]
    /\ SmartLastClient \in clients \cup {NoClient}
    /\ SmartScheduleSlice \in 1 .. SmartScheduleMaxSlice
    /\ {SmartScheduleIdle, SmartScheduleTimerStopped, itimer} \subseteq BOOLEAN
    /\ serving \in clients \cup {NoClient} /\ (serving # NoClient <=> pc = "serve")
    /\ overtaken \in [Clients -> SUBSET Clients]

(* Whenever a client is served the timer runs and the handler will not     *)
(* stop it, at whatever instant between select() and the first request it  *)
(* interrupted the program.                                                *)
ServedUnderTimer == pc = "serve" => itimer /\ ~SmartScheduleIdle

(* The invariant: priorities stay indices of SmartLastIndex, and nobody is *)
(* served without the timer.                                               *)
SmartSchedulerInv == ScheduleTypeOK /\ ServedUnderTimer

(* A client that waits is passed over at most once by each client of its   *)
(* own priority, while others join that priority, leave it and close.      *)
PassedOverOnce ==
    [][pc = "choose" /\ pc' = "serve" =>
         \A c \in ClientsReady(ready) \ {serving'} :
             smart_priority'[c] = smart_priority'[serving'] /\ smart_priority'[c] = smart_priority[c]
               => serving' \notin overtaken[c]]_scheduleVars

(* A client that always has a request, while others are penalized at least *)
(* as much and favoured for their events at most as much, is served again  *)
(* and again.                                                              *)
TopClientsServed ==
    \A c \in Clients :
        <>[](c \in ready /\ \A d \in clients : smart_priority[d] <= smart_priority[c])
          => []<>(serving = c)
=============================================================================

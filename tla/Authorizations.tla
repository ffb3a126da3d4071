--------------------------- MODULE Authorizations ---------------------------
(***************************************************************************)
(* The authorizations of the Security extension (Xext/security.c) over the *)
(* timers of os/WaitFor.c: an authorization that no client uses is purged  *)
(* when its timeout is over.  Clients connect with an authorization, exit, *)
(* may leave their resources behind (RetainPermanent), which KillClient    *)
(* then destroys; the authorization may be revoked at any time.            *)
(*                                                                         *)
(* time is in milliseconds; the program sees it modulo Wrap.               *)
(***************************************************************************)
EXTENDS Timers, FiniteSets

CONSTANTS
    Auths,            \* authorizations that SecurityGenerateAuthorization makes
    NoAuth,           \* the authId of a client without one
    Clients,          \* slots of clients[]
    Timeouts,         \* timeouts asked for, in seconds; 0: never
    Retainers,        \* clients that issue ChangeCloseDownMode
    MILLI_PER_SECOND  \* 1000 in the code

ASSUME AuthorizationsAssumption ==
    /\ NoAuth \notin Auths
    /\ Timeouts \subseteq Nat
    /\ IsFiniteSet(Clients) /\ Cardinality(Clients) < Wrap
    /\ Retainers \subseteq Clients
    /\ MILLI_PER_SECOND \in Nat \ {0}
    /\ MaxTime \in Nat

VARIABLES
    auths,       \* the SecurityAuthorizationRecs; their timers have their names
    clients,     \* the clients' states and authIds
    closeDownMode,
    idleSince,   \* history: since when no client has used an authorization
    miscounted   \* history: authorizations a killed retained client was counted off

authVars == <<time, timers, auths, clients, closeDownMode, idleSince, miscounted>>

InUse == MaxTime + 1

Auth == [valid: BOOLEAN, fresh: BOOLEAN, timeout: Timeouts \cup {0},
         refcnt: 0 .. Wrap - 1, secondsRemaining: Nat]

NewAuth == [valid |-> FALSE, fresh |-> TRUE, timeout |-> 0, refcnt |-> 0,
            secondsRemaining |-> 0]

NoClient == [state |-> "NULL", authId |-> NoAuth]

AuthTypeOK ==
    /\ time \in 0 .. MaxTime
    /\ timers \in Seq([timer: Auths, expires: 0 .. Wrap - 1])
    /\ auths \in [Auths -> Auth]
    /\ clients \in [Clients -> [state: {"NULL", "Running", "Retained"},
                                authId: Auths \cup {NoAuth}]]
    /\ closeDownMode \in [Clients -> {"DestroyAll", "Retain"}]
    /\ idleSince \in [Auths -> 0 .. InUse]
    /\ miscounted \subseteq Auths

Users(a) == {c \in Clients : clients[c] = [state |-> "Running", authId |-> a]}

-----------------------------------------------------------------------------
(***************************************************************************)
(* The functions of security.c, on the state s = [timers, auths, clients]. *)
(***************************************************************************)

State == [timers |-> timers, auths |-> auths, clients |-> clients]

Becomes(s) ==
    /\ timers' = s.timers
    /\ auths' = s.auths
    /\ clients' = s.clients

(* SecurityComputeAuthorizationTimeout: milliseconds and what is left over *)
MaxSecs == (Wrap - 1) \div MILLI_PER_SECOND

Milliseconds(seconds) ==
    (IF seconds > MaxSecs THEN MaxSecs ELSE seconds) * MILLI_PER_SECOND

Overflow(seconds) == IF seconds > MaxSecs THEN seconds - MaxSecs ELSE 0

(* The client is gone for good: clients[i] = NullClient.  With a valid     *)
(* authorization ClientStateCallback counts it (see Uncounted).            *)
Retired(s, c) == [s EXCEPT !.clients[c] = NoClient]

(* CloseDownClient of a client whose authorization no longer exists *)
Closed(s, c) ==
    IF s.clients[c].state = "Running" /\ closeDownMode[c] = "Retain"
    THEN [s EXCEPT !.clients[c].state = "Retained"]
    ELSE Retired(s, c)

(* SecurityDeleteAuthorization: the resource is gone, its timer is freed   *)
(* and the clients that have this authId are closed down.                  *)
Deleted(s, a) ==
    [timers  |-> Unlinked(s.timers, a),
     auths   |-> [s.auths EXCEPT ![a] = [NewAuth EXCEPT !.fresh = FALSE]],
     clients |-> [c \in Clients |-> IF s.clients[c].authId = a THEN Closed(s, c).clients[c]
                                    ELSE s.clients[c]]]

(* SecurityAuthorizationExpired, and what it returns *)
Expired(s, a) ==
    LET left == s.auths[a].secondsRemaining
    IN  IF left # 0 THEN [s EXCEPT !.auths[a].secondsRemaining = Overflow(left)]
        ELSE Deleted(s, a)

ExpiredReturns(s, a) == Milliseconds(s.auths[a].secondsRemaining)

(* TimerSet of the authorization's timer, which may call back at once *)
WithTimer(s, a, millis) ==
    LET v == IF IsOver(millis, Card(time)) THEN Expired(s, a) ELSE s
    IN  [v EXCEPT !.timers = TimerSet(s.timers, a, millis, Card(time), ExpiredReturns(s, a))]

(* SecurityStartAuthorizationTimer *)
Started(s, a) ==
    LET seconds == s.auths[a].timeout
    IN  WithTimer([s EXCEPT !.auths[a].secondsRemaining = Overflow(seconds)],
                  a, Milliseconds(seconds))

(* mutant of Uncounted: does not start the timer *)
UncountedOnly(s, a) ==
    IF a = NoAuth \/ ~s.auths[a].valid THEN s ELSE [s EXCEPT !.auths[a].refcnt = Card(@ - 1)]

(* SecurityClientStateCallback of a client that is gone or retained *)
Uncounted(s, a) ==
    IF a = NoAuth \/ ~s.auths[a].valid THEN s
    ELSE LET u == [s EXCEPT !.auths[a].refcnt = Card(@ - 1)]
         IN  IF u.auths[a].refcnt = 0 THEN Started(u, a) ELSE u

(* mutant of Counted: does not cancel the timer *)
CountedOnly(s, a) == [s EXCEPT !.auths[a].refcnt = Card(@ + 1)]

(* ... and of one that is running *)
Counted(s, a) ==
    LET u == [s EXCEPT !.auths[a].refcnt = Card(@ + 1)]
    IN  IF u.auths[a].refcnt = 1 THEN [u EXCEPT !.timers = Unlinked(@, a)] ELSE u

-----------------------------------------------------------------------------
UpdateIdle ==
    idleSince' = [a \in Auths |->
        IF ~auths'[a].valid THEN 0
        ELSE IF Users(a)' # {} THEN InUse
        ELSE IF Users(a) # {} \/ ~auths[a].valid THEN time
        ELSE idleSince[a]]

(* ProcSecurityGenerateAuthorization *)
GenerateAuthorization(a, seconds) ==
    /\ auths[a].fresh
    /\ LET s == [State EXCEPT !.auths[a] = [NewAuth EXCEPT !.valid = TRUE, !.fresh = FALSE,
                                                           !.timeout = seconds]]
       IN  Becomes(IF seconds # 0 THEN Started(s, a) ELSE s)
    /\ UpdateIdle
    /\ UNCHANGED <<time, closeDownMode, miscounted>>

(* A client connects with the authorization. *)
Connect(c, a) ==
    /\ clients[c].state = "NULL"
    /\ auths[a].valid
    /\ Becomes(Counted([State EXCEPT !.clients[c] = [state |-> "Running", authId |-> a]], a))
    /\ closeDownMode' = [closeDownMode EXCEPT ![c] = "DestroyAll"]
    /\ UpdateIdle
    /\ UNCHANGED <<time, miscounted>>

ChangeCloseDownMode(c) ==
    /\ c \in Retainers
    /\ clients[c].state = "Running"
    /\ closeDownMode' = [closeDownMode EXCEPT ![c] = "Retain"]
    /\ UNCHANGED <<time, timers, auths, clients, idleSince, miscounted>>

(* CloseDownClient of a connected client: it is retained ...  clientGone   *)
(* is set after the callbacks: should they delete the authorization, its   *)
(* clients are closed down with this one still counting as connected.      *)
Retain(c) ==
    /\ clients[c].state = "Running"
    /\ closeDownMode[c] = "Retain"
    /\ Becomes([Uncounted(State, clients[c].authId)
                   EXCEPT !.clients[c] = [clients[c] EXCEPT !.state = "Retained"]])
    /\ UpdateIdle
    /\ UNCHANGED <<time, closeDownMode, miscounted>>

(* mutant of Disconnect: does not call the callbacks *)
DisconnectSilently(c) ==
    /\ clients[c].state = "Running"
    /\ closeDownMode[c] = "DestroyAll"
    /\ Becomes(Retired(State, c))
    /\ UpdateIdle
    /\ UNCHANGED <<time, closeDownMode, miscounted>>

(* ... or gone. *)
Disconnect(c) ==
    /\ clients[c].state = "Running"
    /\ closeDownMode[c] = "DestroyAll"
    /\ Becomes(Retired(Uncounted(State, clients[c].authId), c))
    /\ UpdateIdle
    /\ UNCHANGED <<time, closeDownMode, miscounted>>

(* CloseDownClient of a client that was retained: it is gone now, and is   *)
(* counted off a second time.                                              *)
KillRetained(c) ==
    /\ clients[c].state = "Retained"
    /\ Becomes(Retired(Uncounted(State, clients[c].authId), c))
    /\ miscounted' = miscounted \cup {clients[c].authId}
    /\ UpdateIdle
    /\ UNCHANGED <<time, closeDownMode>>

(* ProcSecurityRevokeAuthorization *)
RevokeAuthorization(a) ==
    /\ auths[a].valid
    /\ Becomes(Deleted(State, a))
    /\ UpdateIdle
    /\ UNCHANGED <<time, closeDownMode, miscounted>>

(* DoTimer *)
TimerExpires(a) ==
    /\ FirstIsDue(timers, Card(time))
    /\ Head(timers).timer = a
    /\ LET s == Expired([State EXCEPT !.timers = Tail(@)], a)
           again == ExpiredReturns(State, a)
       IN  Becomes(IF again = 0 THEN s ELSE WithTimer(s, a, again))
    /\ UpdateIdle
    /\ UNCHANGED <<time, closeDownMode, miscounted>>

(* The server wakes when a timer is due. *)
TimePasses ==
    /\ time < MaxTime
    /\ ~FirstIsDue(timers, Card(time))
    /\ time' = time + 1
    /\ UNCHANGED <<timers, auths, clients, closeDownMode, idleSince, miscounted>>

AuthInit ==
    /\ time = 0
    /\ timers = <<>>
    /\ auths = [a \in Auths |-> NewAuth]
    /\ clients = [c \in Clients |-> NoClient]
    /\ closeDownMode = [c \in Clients |-> "DestroyAll"]
    /\ idleSince = [a \in Auths |-> 0]
    /\ miscounted = {}

AuthNext ==
    \/ \E a \in Auths :
          \/ \E seconds \in Timeouts : GenerateAuthorization(a, seconds)
          \/ \E c \in Clients : Connect(c, a)
          \/ RevokeAuthorization(a)
          \/ TimerExpires(a)
    \/ \E c \in Clients :
          ChangeCloseDownMode(c) \/ Retain(c) \/ Disconnect(c) \/ KillRetained(c)
    \/ TimePasses

AuthSpec == AuthInit /\ [][AuthNext]_authVars

-----------------------------------------------------------------------------
(***************************************************************************)
(* Properties.                                                             *)
(***************************************************************************)

(* The authorization ends; it may do so while it is being generated. *)
Purged(a) ==
    /\ auths[a].valid \/ auths[a].fresh
    /\ ~auths'[a].valid /\ ~auths'[a].fresh

(* "how many clients connected with this auth", of an authorization that   *)
(* no killed retained client was counted off: CloseDownClient calls the    *)
(* callbacks when it retains a client and again when it destroys it.       *)
RefcntCountsUsers ==
    \A a \in Auths \ miscounted :
        auths[a].valid => auths[a].refcnt = Cardinality(Users(a))

(* Nothing but a request purges an authorization before "timeout seconds   *)
(* have elapsed since the last time that [it] entered the state of having  *)
(* no connections authorized by it", so a new one is there when the        *)
(* request that generates it is over.                                      *)
NeverPurgedEarly ==
    [][\A a \in Auths \ miscounted' :
         Purged(a) /\ (TimerExpires(a) \/ ~RevokeAuthorization(a)) =>
             /\ auths[a].valid
             /\ idleSince[a] # InUse
             /\ time - idleSince[a] >= auths[a].timeout * MILLI_PER_SECOND]_authVars

(* An unused authorization is purged when its timeout is over: as long as  *)
(* it exists a timer runs that is due by then.                             *)
PurgedInTime ==
    \A a \in Auths \ miscounted :
        auths[a].valid /\ auths[a].timeout # 0 /\ Users(a) = {} =>
            /\ time <= idleSince[a] + auths[a].timeout * MILLI_PER_SECOND
            /\ \E i \in DOMAIN timers : timers[i].timer = a

(* No timer outlives its authorization, however that ended.                *)
TimersOfValidAuths ==
    \A i \in DOMAIN timers : auths[timers[i].timer].valid

(* The invariant of authorizations: their users are counted, and no timer  *)
(* outlives one, whether it expired, was revoked or was never complete.    *)
AuthorizationsInv == AuthTypeOK /\ RefcntCountsUsers /\ TimersOfValidAuths
=============================================================================

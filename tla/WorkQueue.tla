----------------------------- MODULE WorkQueue -----------------------------
(***************************************************************************)
(* The work queue and the sleeping clients of dix/dixutils.c, with those   *)
(* that use them: a client that waits for a font server sleeps until its   *)
(* answer is there (dix/dixfonts.c, lib/font/fc/fserve.c); a client of an  *)
(* LBX proxy has a work function that is called until it is not blocked    *)
(* any more (lbx/lbxmain.c); a new connection is accepted by a work        *)
(* function, which may close other clients (os/connection.c); and          *)
(* CloseDownClient runs the work functions of the client that is gone.     *)
(*                                                                         *)
(* The queue is its list in memory: workQueue is location 0, the next      *)
(* field of node n location n, and the NULL pointer 0.  A freed node keeps *)
(* what it holds until it is allocated again.  The loops run one node a    *)
(* step, and nest: EstablishNewConnections, called from ProcessWorkQueue,  *)
(* calls CloseDownClient, which calls ProcessWorkQueueZombies.             *)
(***************************************************************************)
EXTENDS Integers, Sequences, FiniteSets

CONSTANTS
    Clients,    \* client structures, none used twice: 1 .. n
    Sleepers,   \* clients that open fonts
    LbxClients, \* clients of an LBX proxy
    Mortal,     \* clients that are killed, or whose connection breaks
    Stragglers, \* clients that may be closed when another connects
    Nodes       \* addresses of the nodes of the queue, 1 .. n

NoClient == 0

ASSUME WorkQueueAssumption ==
    /\ IsFiniteSet(Clients) /\ Clients = 1 .. Cardinality(Clients)
    /\ Sleepers \subseteq Clients /\ LbxClients \subseteq Clients
    /\ Mortal \subseteq Clients /\ Stragglers \subseteq Clients
    /\ IsFiniteSet(Nodes) /\ Nodes = 1 .. Cardinality(Nodes)
    /\ Cardinality(Nodes) >= 1 + 2 * Cardinality(Sleepers) + Cardinality(LbxClients)

VARIABLES
    wq,            \* the work queue
    sleepQueue,    \* the clients that sleep
    closure,       \* the closure of each client's OpenFont
    blockrec,      \* the font server's record of each client's OpenFont
    input_blocked, \* LBX clients that wait to be unblocked
    status,        \* each client: not there, served, clientGone, closed down
    stack,         \* the loops over the queue that run, the innermost first
    server,        \* where it is when none does
    twice          \* history: clients killed after they had been signalled

workVars == <<wq, sleepQueue, closure, blockrec, input_blocked, status, stack, server, twice>>

Locations == Nodes \cup {0}
Functions == {"EstablishNewConnections", "doOpenFont", "LbxWaitForUnblocked"}
Work(function, client) == [function |-> function, client |-> client]

---------------------------------------------------------------------------
(* The list.  Memory, the set Nodes, suffices for what is ever queued.     *)

FreeNode(w) == CHOOSE n \in Nodes \ w.alive : \A m \in Nodes \ w.alive : n <= m

(* mutant of QueueWorkProc: workQueueLast stays *)
QueueWorkProcAtLast(w, work) ==
    LET q == FreeNode(w)
    IN IF w.alive = Nodes THEN w
       ELSE [w EXCEPT !.next = [@ EXCEPT ![q] = 0, ![w.last] = q],
                      !.work[q] = work, !.alive = @ \cup {q}]

QueueWorkProc(w, work) ==
    LET q == FreeNode(w)
    IN IF w.alive = Nodes THEN w
       ELSE [w EXCEPT !.next = [@ EXCEPT ![q] = 0, ![w.last] = q],
                      !.work[q] = work, !.alive = @ \cup {q}, !.last = q]

(* The node q is taken from the list, where p points at it, and freed.     *)
Removed(w, p, q) == [w EXCEPT !.next[p] = w.next[q], !.alive = @ \ {q}]

ClientIsAsleep(c) == c \in sleepQueue

ClientSignal(w, c) ==
    IF ClientIsAsleep(c) THEN QueueWorkProc(w, Work("doOpenFont", c)) ELSE w

Signalled(w, S) ==
    LET after[c \in 0 .. Cardinality(Clients)] ==
          IF c = 0 THEN w
          ELSE IF c \in S THEN ClientSignal(after[c - 1], c) ELSE after[c - 1]
    IN after[Cardinality(Clients)]

Queued(c, w) == {n \in w.alive : w.work[n] = Work("doOpenFont", c)}

---------------------------------------------------------------------------
(* The loops.                                                              *)

(* A loop: p as in the code, the node whose function runs, the client that *)
(* is being closed, and those that EstablishNewConnections still closes.   *)
Loop(name, client) ==
    [loop |-> name, p |-> 0, q |-> 0, closing |-> client, left |-> {}]

Running == stack # <<>>
Top == Head(stack)
Entry == wq.next[Top.p]
ClientGone(c) == c \in {d \in Clients : status[d] \in {"gone", "closed"}}
AtEntry == Running /\ Top.q = 0 /\ Entry # 0
Advance == stack' = [stack EXCEPT ![1].p = Entry]

(* ProcessWorkQueue calls every function, ProcessWorkQueueZombies those of *)
(* clients that are gone.                                                  *)
Called ==
    \/ Top.loop = "ProcessWorkQueue"
    \/ wq.work[Entry].client # NoClient /\ ClientGone(wq.work[Entry].client)

Calls(function, c) == AtEntry /\ Called /\ wq.work[Entry] = Work(function, c)

NotCalled ==
    /\ AtEntry /\ ~Called
    /\ Advance
    /\ UNCHANGED <<wq, sleepQueue, closure, blockrec, input_blocked, status, server, twice>>

(* mutant of LoopEnds: workQueueLast is not set again *)
LoopEndsForgettingLast ==
    /\ Running /\ Top.q = 0 /\ Entry = 0
    /\ stack' = Tail(stack)
    /\ status' = IF Top.closing = NoClient THEN status
                 ELSE [status EXCEPT ![Top.closing] = "closed"]
    /\ UNCHANGED <<wq, sleepQueue, closure, blockrec, input_blocked, server, twice>>

(* The end of the loop, and, with the zombies done, CloseDownConnection.   *)
LoopEnds ==
    /\ Running /\ Top.q = 0 /\ Entry = 0
    /\ wq' = [wq EXCEPT !.last = Top.p]
    /\ stack' = Tail(stack)
    /\ status' = IF Top.closing = NoClient THEN status
                 ELSE [status EXCEPT ![Top.closing] = "closed"]
    /\ UNCHANGED <<sleepQueue, closure, blockrec, input_blocked, server, twice>>

(* ClientWakeup.                                                           *)
Awake(c) == sleepQueue \ {c}

(* doOpenFont at bail: the font is open, or cannot be opened, or the       *)
(* client is gone and the font server is told so.                          *)
DoOpenFontDone(c) ==
    /\ Calls("doOpenFont", c)
    /\ blockrec[c] # "StillWorking" \/ ClientGone(c)
    /\ blockrec' = [blockrec EXCEPT ![c] = "none"]
    /\ sleepQueue' = Awake(c)
    /\ closure' = [closure EXCEPT ![c] = "freed"]
    /\ wq' = Removed(wq, Top.p, Entry)
    /\ UNCHANGED <<input_blocked, status, stack, server, twice>>

(* The next font path element, or a new connection to the font server, is  *)
(* asked: Suspended once more.                                             *)
DoOpenFontSuspended(c) ==
    /\ Calls("doOpenFont", c) /\ ~ClientGone(c)
    /\ blockrec' = [blockrec EXCEPT ![c] = "StillWorking"]
    /\ wq' = Removed(wq, Top.p, Entry)
    /\ UNCHANGED <<sleepQueue, closure, input_blocked, status, stack, server, twice>>

(* TRUE if the client is gone or no longer blocked, FALSE otherwise.       *)
LbxWaitForUnblocked(c) ==
    /\ Calls("LbxWaitForUnblocked", c)
    /\ \/ /\ input_blocked' = input_blocked \ {c}
          /\ wq' = Removed(wq, Top.p, Entry)
          /\ UNCHANGED stack
       \/ /\ ~ClientGone(c)
          /\ Advance
          /\ UNCHANGED <<wq, input_blocked>>
    /\ UNCHANGED <<sleepQueue, closure, blockrec, status, server, twice>>

(* mutant of CloseDownClient: a client that sleeps is not signalled *)
CloseDownClientUnsignalled(c, s) ==
    /\ status' = [status EXCEPT ![c] = "gone"]
    /\ stack' = <<Loop("ProcessWorkQueueZombies", c)>> \o s
    /\ UNCHANGED <<wq, sleepQueue, closure, blockrec, input_blocked, twice>>

(* CloseDownClient up to ProcessWorkQueueZombies, with s the loops that    *)
(* run meanwhile.                                                          *)
CloseDownClient(c, s) ==
    /\ status' = [status EXCEPT ![c] = "gone"]
    /\ wq' = ClientSignal(wq, c)
    /\ twice' = IF ClientIsAsleep(c) /\ Queued(c, wq) # {} THEN twice \cup {c} ELSE twice
    /\ stack' = <<Loop("ProcessWorkQueueZombies", c)>> \o s
    /\ UNCHANGED <<sleepQueue, closure, blockrec, input_blocked>>

(* EstablishNewConnections: it closes the clients of S, one after the      *)
(* other, accepts a connection and returns TRUE.                           *)
CallEstablish(S) ==
    /\ Calls("EstablishNewConnections", NoClient)
    /\ S \subseteq {c \in Stragglers : status[c] = "served"}
    /\ stack' = [stack EXCEPT ![1].q = Entry, ![1].left = S]
    /\ UNCHANGED <<wq, sleepQueue, closure, blockrec, input_blocked, status, server, twice>>

EstablishCloses(c) ==
    /\ Running /\ Top.q # 0 /\ c \in Top.left /\ \A d \in Top.left : c <= d
    /\ CloseDownClient(c, [stack EXCEPT ![1].left = @ \ {c}])
    /\ UNCHANGED server

EstablishReturns ==
    /\ Running /\ Top.q # 0 /\ Top.left = {}
    /\ wq' = Removed(wq, Top.p, Top.q)
    /\ stack' = [stack EXCEPT ![1].q = 0]
    /\ LET unused == {c \in Clients : status[c] = "none"}
       IN status' = [c \in Clients |-> IF c \in unused /\ \A d \in unused : c <= d
                                       THEN "served" ELSE status[c]]
    /\ UNCHANGED <<sleepQueue, closure, blockrec, input_blocked, server, twice>>

---------------------------------------------------------------------------
(* The requests, and WaitForSomething.                                     *)

Dispatching(c) == /\ ~Running /\ server = "Dispatch" /\ status[c] = "served"
                  /\ ~ClientIsAsleep(c) /\ c \notin input_blocked

(* OpenFont of a font that the font server has to be asked for.            *)
OpenFont(c) ==
    /\ c \in Sleepers /\ Dispatching(c)
    /\ closure' = [closure EXCEPT ![c] = "live"]
    /\ blockrec' = [blockrec EXCEPT ![c] = "StillWorking"]
    /\ sleepQueue' = sleepQueue \cup {c}
    /\ UNCHANGED <<wq, input_blocked, status, stack, server, twice>>

LbxSetForBlock(c) ==
    /\ c \in LbxClients /\ Dispatching(c)
    /\ input_blocked' = input_blocked \cup {c}
    /\ wq' = QueueWorkProc(wq, Work("LbxWaitForUnblocked", c))
    /\ UNCHANGED <<sleepQueue, closure, blockrec, status, stack, server, twice>>

(* KillClient, or a read that fails; CheckConnections after select().      *)
CloseClient(c) ==
    /\ ~Running /\ c \in Mortal /\ status[c] = "served"
    /\ CloseDownClient(c, stack)
    /\ server' = IF server = "select" THEN "WaitForSomething" ELSE server

(* mutant of EnterWait: the work queue is run once per call only *)
EnterWaitOnce ==
    /\ ~Running /\ server \in {"Dispatch", "WaitForSomething"}
    /\ stack' = IF wq.next[0] = 0 \/ server = "WaitForSomething" THEN stack
                ELSE <<Loop("ProcessWorkQueue", NoClient)>>
    /\ server' = "select"
    /\ UNCHANGED <<wq, sleepQueue, closure, blockrec, input_blocked, status, twice>>

EnterWait ==
    /\ ~Running /\ server \in {"Dispatch", "WaitForSomething"}
    /\ stack' = IF wq.next[0] = 0 THEN stack
                ELSE <<Loop("ProcessWorkQueue", NoClient)>>
    /\ server' = "select"
    /\ UNCHANGED <<wq, sleepQueue, closure, blockrec, input_blocked, status, twice>>

(* select() returns: fs_wakeup reads the font server's answers to the      *)
(* clients of S, or has to connect to it again, which drops the records of *)
(* all; and there may be a new connection.                                 *)
SelectWakes(S, reconnected) ==
    LET waiting == {c \in Clients : blockrec[c] = "StillWorking"}
        w == Signalled(wq, S)
    IN /\ ~Running /\ server = "select"
       /\ S \subseteq waiting /\ (reconnected => S = waiting)
       /\ blockrec' = [c \in Clients |-> IF c \notin S THEN blockrec[c]
                                         ELSE IF reconnected THEN "none" ELSE "answered"]
       /\ wq' \in {w, QueueWorkProc(w, Work("EstablishNewConnections", NoClient))}
       /\ server' \in {"Dispatch", "WaitForSomething"}
       /\ UNCHANGED <<sleepQueue, closure, input_blocked, status, stack, twice>>

---------------------------------------------------------------------------
WorkInit ==
    /\ wq = [next |-> [n \in Locations |-> 0],
             work |-> [n \in Nodes |-> Work("EstablishNewConnections", NoClient)],
             alive |-> {}, last |-> 0]
    /\ sleepQueue = {} /\ input_blocked = {} /\ twice = {}
    /\ closure = [c \in Clients |-> "none"] /\ blockrec = [c \in Clients |-> "none"]
    /\ status = [c \in Clients |-> "none"]
    /\ stack = <<>> /\ server = "Dispatch"

ProcessNode ==
    \/ NotCalled \/ LoopEnds \/ EstablishReturns
    \/ \E S \in SUBSET Stragglers : CallEstablish(S)
    \/ \E c \in Clients : DoOpenFontDone(c) \/ DoOpenFontSuspended(c)
                            \/ LbxWaitForUnblocked(c) \/ EstablishCloses(c)

WorkNext ==
    \/ ProcessNode \/ EnterWait
    \/ \E S \in SUBSET Clients, reconnected \in BOOLEAN : SelectWakes(S, reconnected)
    \/ \E c \in Clients : OpenFont(c) \/ LbxSetForBlock(c) \/ CloseClient(c)

(* Functions return, and Dispatch calls WaitForSomething again.  That      *)
(* select() returns is not assumed.                                        *)
WorkSpec == WorkInit /\ [][WorkNext]_workVars /\ WF_workVars(ProcessNode) /\ WF_workVars(EnterWait)

---------------------------------------------------------------------------
(* Properties.                                                             *)

(* Every variable has its type.                                            *)
WorkTypeOK ==
    /\ wq.next \in [Locations -> Locations] /\ wq.alive \subseteq Nodes
    /\ wq.last \in Locations
    /\ \A n \in Nodes : /\ wq.work[n].function \in Functions
                        /\ wq.work[n].client \in Clients \cup {NoClient}
    /\ {sleepQueue, input_blocked, twice} \subseteq SUBSET Clients
    /\ closure \in [Clients -> {"none", "live", "freed"}]
    /\ blockrec \in [Clients -> {"none", "StillWorking", "answered"}]
    /\ status \in [Clients -> {"none", "served", "gone", "closed"}]
    /\ Len(stack) <= 2 /\ server \in {"Dispatch", "WaitForSomething", "select"}

(* The nodes that can be reached from location p in at most i steps.       *)
From(p) ==
    LET reached[i \in 0 .. Cardinality(Nodes)] ==
          IF i = 0 THEN {wq.next[p]} \ {0}
          ELSE reached[i - 1] \cup ({wq.next[n] : n \in reached[i - 1]} \ {0})
    IN reached[Cardinality(Nodes)]

(* The list holds the nodes that are allocated, every one of them and no   *)
(* other, and ends; the pointers that the loops and QueueWorkProc write    *)
(* through lead to the rest of it, however the loops nest and whatever the *)
(* functions queue and free: no work is lost and none is done twice.       *)
QueueIntact ==
    /\ From(0) = wq.alive
    /\ \A n \in wq.alive : n \notin From(n)
    /\ \A i \in DOMAIN stack : stack[i].p \in wq.alive \cup {0}
                                 /\ stack[i].q \in wq.alive \cup {0}
                                 /\ (stack[i].q # 0 => wq.next[stack[i].p] = stack[i].q)
    /\ ~Running => wq.last \in wq.alive \cup {0} /\ wq.next[wq.last] = 0

(* A client that sleeps will be woken: the font server still owes it an    *)
(* answer, or its function is in the queue.  A client that does not sleep  *)
(* is not in the queue.                                                    *)
SleepersAreWoken ==
    \A c \in Clients :
        /\ c \in sleepQueue => blockrec[c] = "StillWorking" \/ Queued(c, wq) # {}
        /\ c \notin sleepQueue => blockrec[c] = "none" /\ (Queued(c, wq) # {} => c \in twice)

(* A function is not called on a closure that was freed, unless the client *)
(* was killed after it had been signalled.                                 *)
ClosuresLive ==
    \A c \in Clients : Queued(c, wq) # {} => closure[c] = "live" \/ c \in twice

(* The invariant of the queue: the list is whole while loops nest and free *)
(* its nodes, and no function in it is about to use a closure that was     *)
(* freed.                                                                  *)
WorkQueueInv == WorkTypeOK /\ QueueIntact /\ ClosuresLive

(* When CloseDownClient returns, nothing will be done for the client any   *)
(* more: it has no function in the queue, no place among the sleepers, no  *)
(* closure, and the font server was told.                                  *)
ClosedForgotten ==
    \A c \in Clients : status[c] = "closed" =>
        /\ c \notin sleepQueue /\ blockrec[c] = "none" /\ closure[c] # "live"
        /\ \A n \in wq.alive : wq.work[n].client # c

(* A client whose answer has come is woken, or its connection is closed.   *)
AnsweredIsServed ==
    \A c \in Clients : blockrec[c] = "answered" ~> blockrec[c] # "answered"
=============================================================================

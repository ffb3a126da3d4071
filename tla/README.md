# Verification of the X server's core

The repository is OpenBSD's XF4 tree: XFree86 4 with its libraries, programs,
fonts and documents. The program with state worth verifying is the X server,
`src/xc/programs/Xserver`: one process, one thread and one signal handler that
serve any number of clients, read input devices, keep timers and own every
shared resource. This project models the parts of it that decide *who is served,
when, and from which stale knowledge*: the dispatch loop with the server grab
and its scheduler, the buffers of requests and of output, the input event queue
and the grabs of devices, the timers and the authorizations that live on them,
the work queue with its sleeping clients, and the table of resources.
Paths below are relative to `src/xc/programs/Xserver` unless they start with
`xc/`.

1. [Inventory](#1-inventory) 2. [Modules](#2-modules) 3. [Runs](#3-runs)
4. [Fairness](#4-fairness) 5. [Proofs](#5-proofs) 6. [Departures](#6-departures)
7. [Not modelled](#7-not-modelled) 8. [Plan](#8-plan)

## 1. Inventory

### How the parts interact

`Dispatch` (`dix/dispatch.c`) loops for ever: process device input if there is
some, call `WaitForSomething` (`os/WaitFor.c`) for a list of clients that have a
request, and serve each of them (`ReadRequestFromClient`, `os/io.c`; the
request's procedure) for a time slice. `WaitForSomething` first runs the work
queue, then `select()`s on the masks that `os/connection.c` keeps, runs the
timers that are due, and accepts connections through the work queue. A request's
procedure may change any of this: grab the server, ignore or attend to a client,
kill another client, set a timer, queue work, warp the pointer. The only
preemption is SIGIO: a pointer driver's handler puts events in the input queue
at any instant, and SIGALRM, whose handler counts the ticks of the smart
scheduler. There are no locks but `xf86BlockSIGIO`; what makes the code hard
is state that is read in one step and used several steps later, and functions
that change, through several calls, the list that a caller is in the middle of.

### Components

| Component | State | Operations | What is hard | What must hold |
|---|---|---|---|---|
| Connection masks, `os/connection.c` | `AllSockets`, `AllClients`, `ClientsWithInput`, their `Saved` copies, `IgnoredClientsWithInput`, `GrabImperviousClients`, `EnabledDevices` | allocate and close a connection, add and remove a device, ignore, attend, listen to one or to all, make (im)pervious | every mask exists twice during a grab; calls come in any order | a client is listened to iff nothing holds it back; no buffered request is forgotten; no closed descriptor stays |
| Dispatch and server grab, `dix/dispatch.c` | `grabState`, `grabClient`, `grabWaiters`, `clients[]`, the list `clientReady` | serve, GrabServer, UngrabServer, KillClient, ChangeCloseDownMode, CloseDownClient | the list is older than the grab, the kill or the sleep that a request on it caused | the grab excludes; the served client exists; a released grab goes on to a waiter |
| Waiting, `os/WaitFor.c` | `LastSelectMask`, `timeout`, the choice of clients | WaitForSomething | early returns; time passes between the steps | it does not sleep past a timer nor pass over a client for ever |
| Timer list, `os/WaitFor.c` | `timers` | TimerSet, TimerForce, TimerCancel, TimerFree, DoTimer | a clock that wraps; callbacks that change the list | order, none early, none forgotten |
| Input event queue, `hw/xfree86/common/xf86Xinput.c` | ring, `lastMotion`, enqueue and dequeue screen | xf86eqEnqueue, xf86eqSwitchScreen, xf86eqProcessInputEvents | a signal handler against the loop, without blocking signals | FIFO of button events; motion compressed, never reordered; the queue empties |
| Security authorizations, `Xext/security.c` | refcnt, timeout, timer, secondsRemaining | generate, revoke, client state callback, expire | timer against connect against revoke; the callback comes twice for retained clients | counted, purged neither early nor late |
| Work queue and sleepers, `dix/dixutils.c` | `workQueue`, `sleepQueue` entries | QueueWorkProc, ProcessWorkQueue, ProcessWorkQueueZombies, ClientSleep, ClientSignal, ClientWakeup | entries freed while the list is walked | the list stays whole; each sleeper is woken; nothing is called for a client that is closed |
| Callback lists, `dix/dixutils.c` | lists, entries marked deleted | AddCallback, DeleteCallback, CallCallbacks | deletion from inside a call | each entry called once per call, none after its deletion |
| Request and output buffers, `os/io.c` | `oc->input`, `oc->output`, free lists, `OutputPending`, `ClientsWriteBlocked` | ReadRequestFromClient, InsertFakeRequest, ResetCurrentRequest, WriteToClient, FlushClient, FlushAllOutput | buffers shared between clients; partial writes | requests whole, in order, once; bytes in order; blocked output resumes |
| Smart scheduler, `dix/dispatch.c`, `os/utils.c` | `smart_priority`, `SmartLastIndex`, slices, `SmartScheduleIdle` | SmartScheduleClient, the end of a slice, the itimer's start, stop and handler | a handler against the main program; starvation | a slice ends; a ready client is served |
| Resource table, `dix/resource.c` | hash tables | AddResource, RebuildTable, FreeResource, FreeClientResources | delete functions that free others of the chain being walked | each freed once, dependents with it, none left |
| Event delivery and device grabs, `dix/events.c` | active and passive grabs, `sync`, `syncEvents` | Activate/DeactivateGrab, ComputeFreezes, EnqueueEvent, PlayReleasedEvents, AllowEvents, ReleaseActiveGrabs | a played event grabs, freezes and plays again; two devices in one queue | frozen by live grabs only; events in order; one event per AllowEvents |
| Screen saver and DPMS, `dix/window.c`, `os/WaitFor.c`, `Xext/dpms.c` | saver state, `lastDeviceEventTime`, four timers | SaveScreens, SetScreenSaverTimer | signed and unsigned times | the screen is saved after the timeout, and not before |
| SYNC, `Xext/sync.c` | counters, alarms, awaits | ChangeCounter, Await | triggers that change counters | each await answered once |
| Font opening, `dix/dixfonts.c` | closures | OpenFont, ListFonts | continuations over sleeping clients | each closure freed once |

The generic event queue `mi/mieq.c` is the same ring with smaller events. The
rest of the tree (drivers, drawing code, client libraries, programs, vendored
libraries, packaging) is listed in `PROJECT.json` with the reason it is left out.

`PROJECT.json` lists the hazards of this code line by line, with the properties
that would catch each of them going wrong.

## 2. Modules

```
     DispatchClients             TimerList             InputFifo
EXTENDS |       |  EXTENDS           |  EXTENDS            |  INSTANCE (refinement)
    ConnMasks   |                  Timers              EventQueue
        |       |                 |      |                 |
ServerGrab  SmartScheduler   OsTimers  Authorizations  MCEventQueue
    |           |                |          |
MCServerGrab  MCSmartScheduler  MCOsTimers  MCAuthorizations

RequestBuffers  OutputBuffers  WorkQueue  ResourceTable  DeviceGrabs
      |               |            |            |            |
MCRequest...    MCOutput...    MCWork...  MCResource...  MCDevice...

TimerList_proofs     ServerGrab_proofs     RequestBuffers_proofs   ResourceTable_proofs
    |  EXTENDS       Queues_proofs         OutputBuffers_proofs    DeviceGrabs_proofs
Timers_proofs        (each EXTENDS the module or modules it is about)
```

`ServerGrab_proofs` also extends `SmartScheduler`, the other half of `Dispatch`, and holds
its proofs; this is why the initial state, the specification, ... of that module are
called `ScheduleInit`, `ScheduleSpec`, ... In the same way `Queues_proofs` extends
`EventQueue` and `WorkQueue`, whose specification is `WorkSpec`, and holds the proofs
about both, and `Timers_proofs` extends `OsTimers` and `Authorizations`, whose
specification is `AuthSpec`.

The modules of the lowest row, and `SmartScheduler`, stand alone: each takes its neighbours' part as an
action of its environment (what arrives on a socket, which client runs, what
a font server answers). One module's variable is another's nondeterminism:
`ClientsWithInput` is exact in `RequestBuffers` and changes at any time in
`OutputBuffers`; who is ready is `ready` in `SmartScheduler` and a count of
requests in `ServerGrab`.

**`DispatchClients`** declares the clients, for both halves of `Dispatch`.

**`ConnMasks`** is `os/connection.c` as a library: the nine masks and
`GrabInProgress` are one record, each C function an operator from record to
record, so that a handler that calls three of them is their composition. A
client stands for its index and its socket. `XFD_*` macros are set operations.

**`ServerGrab`** is the dispatch loop and the grab over these masks. A step is
what the single thread does between two points where it chooses: accept or lose
a connection, return from `WaitForSomething` with a list, take the next client
from the list, execute one request. Requests are counted (in the socket and in
the input buffer); of their content only the kind matters. `resetRequest` says
that the next request is a `GrabServer` pushed back by `ResetCurrentRequest`.
`SmartScheduleDisable` selects between the two schedulers: the classic one
returns any nonempty list of ready clients, the smart one exactly one.
`clientState` tells `clients[c]` being NULL from a client that is gone but
retained. `ProcXTestGrabControl`, `Sleep` (ClientSleep, SyncAwait, SleepUntil)
and `OtherRequest` are the requests of other files as far as they touch this state.

**`EventQueue`** is the ring of `xf86Xinput.c` with its producers
(`xf86PostMotionEvent` and `xf86PostButtonEvent` in the SIGIO handler,
`ProcWarpPointer` and `NewCurrentScreen` in the main program) and its consumer.
The handler is atomic; the main program is cut at every access to memory the
handler writes (`pc`). A position is the serial number of the input that
produced it, so "later" can be said. The copy of a slot's fields is one step:
the handler rewrites a slot only by a later motion, and a position is one word.
The index arithmetic of the ring is kept, wrap included.
**`InputFifo`** is the abstract queue of button events that `EventQueue`
implements: accept at the tail, refuse only when at least `Capacity` wait, take
from the head, process. Motions disappear in it. `Capacity` is
`(QUEUE_SIZE - 1) \div 2`, because between two button events there may be one
(compressed) motion.

**`TimerList`** is the timer list of `os/WaitFor.c` as operators on a sequence,
with `CARD32` times of `Wrap` values (2^32 in the code) and the code's signed
differences.
**`Timers`** declares the clock and the list, for the two modules that put timers on it.
**`OsTimers`** puts it in the server: requests set, move, cancel and force
timers, `WaitForSomething` computes its timeout, sleeps, and runs what is due,
callbacks doing to the list what they like. **`Authorizations`** puts the
Security extension's authorizations on the same list: generated, counted by the
client state callback, timed, purged, revoked; `ClientStateRetained` and
`ClientStateGone` both count a client off, as in the code. The asserts of
`security.c` are compiled out (`-DNDEBUG`), so `refcnt` wraps.

**`SmartScheduler`** is the half of the dispatch loop that `ServerGrab` leaves
open: which of the ready clients is served and for how long. Every step of the
main program between `select()` and the first request is an action, because
`SmartScheduleTimer`, the handler of SIGALRM, runs between any two: it counts a
tick, and stops the timer if `SmartScheduleIdle` is set. The unit of time is one
tick; a time that the program keeps is an age here, counted as long as a
comparison can tell. `ClientsReady` is the loop over the words of
`clientsReadable` with its `highest_priority`; `Praised`, `Best`, `Robin` and
`AdjustedSlice` are the parts of `SmartScheduleClient`. `CriticalEvent` raises the
priority of a client that is sent input. `overtaken` is history.

**`RequestBuffers`** is the input half of `os/io.c`. The unit is the CARD32. A
socket is a stream of words of which `sent` were written and `got` were read;
`ReadRequestFromClient` is one action with every branch of the code: the buffer of
the last client is taken back (`AvailableInput`), a free one is found, the
data is moved down, the buffer grows or shrinks, the input bit is computed,
a Big Request's header is moved over its length. `InsertFakeRequest` and
`ResetCurrentRequest` do to the buffer what they do in the code. Requests of the
kind `grab` may be put back, as `ProcGrabServer` does.

**`OutputBuffers`** is the output half, with the life of a descriptor: the state
`os` is one record and `WriteToClient`, `FlushClient`, `FlushAllOutput`,
`CloseDownConnection`, `CheckConnections` and `EstablishNewConnections` are
operators on it, so that a handler that calls several is their composition; their
loops over the descriptors of a mask are `ForEach`, the lowest descriptor first. A
write that fails closes the descriptor (`trans_conn`) but neither the client nor
its masks; the number may be given to the next connection. A socket has
`SocketSize` units of room.

**`WorkQueue`** keeps the list of `dix/dixutils.c` in memory, with freed nodes that
are used again and the pointers `p` and `q` of the loops, because the question is
whether two loops, one inside the other, leave it whole. A loop takes one node a
step. The functions in the queue are those of its users: `doOpenFont` (calls, is
suspended or done, frees its closure), `LbxWaitForUnblocked`, and
`EstablishNewConnections`, which closes other clients and so calls
`ProcessWorkQueueZombies` inside `ProcessWorkQueue`.

**`ResourceTable`** keeps each client's hash table with its chains, buckets and
count. `stack` holds the loops and delete functions that have not returned. What
a delete function frees is a constant, `Dependents`, and what must exist for a
resource to be added is `Needs`; the instance takes both from windows, passive
grabs, the lists of Shape's clients and DRI drawables. `NeedsAssumption` is what the
code relies on without saying so: whatever cannot be without a resource goes when that one does.

**`DeviceGrabs`** is grabbing, freezing and replaying of the two core devices. A
handler that plays held events takes several steps, with `stack` as what is left
to do, since a played event may grab, freeze, thaw and play in turn.
`AllowSome` has the nine modes of AllowEvents. `activating` says whether the key
is the keyboard's `activatingKey`, with whose release a passive grab ends; nothing
initializes it, so it is either at first.

Each of the modules names its invariant `<Module>Inv`, a conjunction of its type
invariant and of named parts, so that proofs can take them one by one.

`MC*` modules name the instances for TLC and hold the formulas of
[Departures](#6-departures). Operators whose comment says *mutant* are wrong
variants of the definition that follows them; each property is known to fail with
one of them (`PROJECT.json`, "mutants").

## 3. Runs

All runs pass.

| Run | Instance | Question |
|---|---|---|
| `grab_sleep` | 3 clients, 2 whole requests ahead, smart scheduler, client 2 sleeps and retains, 1 kills, 1 and 2 may die, one device | do working and `Saved` masks say the right thing of every client, whatever the order? |
| `grab_fair` | 3 clients, classic scheduler, 2 and 3 impervious, 2 kills, 1 may die, fair | is nobody served under another's grab, or after having been killed, and is a released server grabbed again by a waiter? |
| `smart_schedule` | 3 clients, 1 closes and connects again, smart priorities 0 and -1, slices of 1 and 2 ticks, fair | does whoever is served run under a timer that nothing stops; is nobody passed over twice by one of the same priority; is a client served again and again while no other has a higher priority? |
| `request_buffers` | 2 clients, 1 only connects and may hang up; short, Big and put-back requests of 2, buffers of 2 words up to 5, 3 buffers, fair | are requests executed whole, in order and once, is the input bit exact, is every request executed? |
| `output_buffers` | 3 clients, 2 descriptors, sockets and buffers of 1 unit, up to 2 units written, clients 1 and 2 may die, 3 sleeps, fair | does what is written arrive in order, once, at the right client, and in the end? |
| `work_queue` | 2 font sleepers, 1 LBX client, 6 nodes, client 1 dies, 1 and 2 are closed by a new connection | does the list stay whole, is every sleeper woken, is a closed client forgotten? |
| `resource_table` | 2 clients, 7 resources of 5 ids, tables of 1 to 4 buckets | is each resource freed once and with what depends on it, while chains change under the loops and the table grows? |
| `device_grabs` | 2 clients, 3 passive and 3 kinds of active grabs, 2 windows, 3 events, fair | are devices frozen by live grabs only, are held events played in order and at once, does a synchronous grab see one at a time, do handlers return? |
| `queue_order` | ring of 4, one screen, 7 inputs or warps | refinement of `InputFifo`; compression never crosses a button event |
| `queue_drained` | ring of 4, two screens, 5 inputs or warps, fair | is the queue emptied although each screen switch refills it? |
| `timers_order` | 3 timers, periods 1, 2 and 5, a clock of 20 values from 16 to 26, at most 4 late | order, none early, none overslept, none left behind, while the clock wraps at 20 |
| `auth` | 2 authorizations, 2 clients, 1 retains, timeouts of 0, 1 and 3, a clock of 8 values up to 10, symmetric in the authorizations | counted right, purged in time and never early, no timer outlives its authorization |

*Bounds and why they suffice.* Three clients are the owner, a waiter that is
woken and one that is left; the bits of `grabWaiters` are in words of two
(`WordBits`), so that three clients reach two words and the order in which
`UngrabServer` looks (highest word, lowest bit) matters. Two requests ahead let a
client be ignored with a whole request buffered and another in its socket. A ring
of four has a full ring with two button events and a motion, and wraps in both
directions within seven inputs. In `timers_order` `MaxLate`, the longest time for
which the server does not look at its timers, and any period are together below
half the clock, which the module assumes by name (`OsTimersAssumption`): with 32
bits that is 24 days. The authorizations' timeouts stay below half the clock, for the reason given under
Departures; `secondsRemaining`, which serves timeouts beyond the whole clock,
therefore stays 0 in the run.

In `smart_schedule` three clients are needed for one to be passed over by two
others; two smart priorities and a slice that may grow once have every
comparison of the code come out both ways (levels above 0, which input reaches in
the code, differ from those below only in not rising by idleness); the client
that closes leaves its number in `SmartLastIndex`. In `request_buffers` a buffer of two words is filled by one
request, exceeded by a Big Request, grown past the watermark and shrunk again
behind it, and lent from one client to the other. In `output_buffers` three
clients share two descriptors, so that a number is used again while its first
client is still there; two units overflow the socket and the buffer. A buffer that
grows past the watermark takes three: with `MCWrittenMore` the run has 71,893 states
and passes, but takes a minute. Nodes of `work_queue` suffice for what is ever queued
(`WorkQueueAssumption`). In `resource_table` a table of one bucket is rebuilt twice,
with ids that stay together and one that leaves the chain. Three events of
`device_grabs` are one that freezes, one that is held and one that is played into
a second grab.

`MaxRequests`, `MaxInputs`, `MaxTime`, `MaxWritten`, `MaxElements`, `MaxEvents` and
the length of `Requests` are the only things cut off, each in a guard. Runs that
stop at such a bound say `CHECK_DEADLOCK FALSE`; `grab_sleep`, `grab_fair`,
`smart_schedule`, `work_queue` and `resource_table` check deadlock.

## 4. Fairness

`ServerGrab.FairSpec`: the dispatch loop goes on (`WF` of `DispatchNext` and
`Serve`: it is the program's only thread); the served client's slice ends
(`SF`: `isItTimeToYield` and the itimer); `WaitForSomething` picks each ready
client now and then (`SF` per client). The last holds for the classic scheduler
when priorities are equal: it returns all that are ready. It is not assumed of
the smart scheduler; `grab_fair` therefore uses `-dumbSched`, and what the smart
scheduler does instead is `SmartScheduler`'s subject. Nothing is assumed of
clients: they may never send a request, and nobody is obliged to release a grab.

`EventQueue.RunningSpec`: the main program runs on while it is not in
`select()`. `FairSpec` adds that `select()` returns from time to time, by a
request or a timer. Neither assumes anything of the signal handler.

`SmartScheduler.FairSchedule`: the main program stays at none of its places, nor with
a client whose slice is over or that has no request left; the interval timer
ticks while it is set (`WF` of `SmartScheduleTimer`); and if again and again
`select()` is entered while a client is ready, then again and again one is
served: `select()` does not fail each time, nor is an OS timer due each time,
which makes `WaitForSomething` leave with no client. Of clients nothing is
assumed: one may have requests for ever.

`RequestBuffers.FairSpec`: every handler returns; a client that can be read again
and again is read; a request that is executed again and again is not put back
each time. The last two are strong fairness of a step that is described by what
it changes, so they are written out as `[]<>... => []<>...`.

`OutputBuffers.FairSpec`: the dispatch loop reaches `select()` and leaves it again
and again; a client whose reads fail again and again is closed; the program at
the other end reads (`WF` of `ClientReads`), and requests that were read are
executed (`SF` of `LastRequest`). A client that stops reading for ever is a
promise nobody makes.

`WorkQueue.WorkSpec`: `ProcessWorkQueue` goes on and `WaitForSomething` is entered
(`WF` of `ProcessNode` and `EnterWait`). That `select()` returns is not assumed:
what waits for it waits. `ResourceTable.Spec` and `DeviceGrabs.FairSpec`: a
handler that was entered takes its next step (`WF` of `Step`, `Return`).

The timers' and authorizations' promises are stated as safety with explicit
times (`NeverOversleeps`, `DueTimersRun`, `PurgedInTime`) and need no fairness:
`OsTimers.Tick` does not pass the moment `select()` returns, and
`Authorizations.TimePasses`, in a module that has no `select()`, does not pass a due timer.

## 5. Proofs

TLC shows the properties on the instances above; TLAPS proves the following ones
for every value of the constants that the named assumptions allow. Each
`X_proofs` module is about the specification of `X`, unchanged. The assumptions
are those of the modules (`XAssumption`: types of the constants, names that are
not clients, ...), which TLC evaluates in every run, and the hypotheses named
in the tables.

### The server grab (`ServerGrab_proofs`)

For every set of clients, devices and listeners, every `MaxRequests`, `WordBits`,
both schedulers and any choice of clients that sleep, retain, die, kill or make
themselves impervious:

| Theorem | States |
|---|---|
| `TypeInvariant` | `Spec => []TypeOK` |
| `MasksMatch` | `Spec => []MasksMatchClients` |
| `BufferedNeverForgotten` | `Spec => []BufferedRequestsRemembered` |
| `ClosedForgotten` | `Spec => []ClosedClientsForgotten` |
| `SocketsAlwaysMatch` | `Spec => []SocketsMatch` |
| `OwnerConnected` | `Spec => []GrabOwnerConnected` |
| `GrabExclusive` | `Spec => []GrabExcludesOthers` |
| `ServedAlways` | `Spec => []ServedAlive`: a served client that does not retain resources is connected |
| `ServedConnected` | if nobody retains resources, `Spec => []ServedClientConnected` |

The assumptions are `ConnMasksAssumption` (0 is no client; clients, devices and
listeners are disjoint) and `ServerGrabAssumption` (types of the constants).

*The argument.* None of the properties is inductive. `IInv` conjoins them with
four facts:

- `RolesKept`: only `ImperviousUsers` are ever impervious, only `Sleepers` sleep,
  and only `ImperviousUsers` ever wait for the grab: nobody else is served under
  another's grab and so can issue a second GrabServer;
- `WorkingMasksRestricted`: during a grab nobody but the owner and impervious
  clients is in the working masks, and the owner's input is not in the `Saved` one;
- `InputTidy`: an ignored tracked client has its input bit in
  `IgnoredClientsWithInput` only, so that `AttendClient` and `ListenToAllClients`
  restore no bit too many, and a free slot has nothing buffered;
- `ServiceAllowed`: who may be served, or still be on the list, after a grab
  began or a client went to sleep: until `GrabKickout` has emptied the list,
  anyone may be on it, afterwards only the owner and impervious clients.

Lemmas named `...Fields` say once what a composition of mask operators leaves in
each field (`UngrabFields`, `IgnoreHeldFields`, ...); each action has a lemma
`...Step`; `ReadStep`, `IgnoreStep` and `CloseDownStep` carry what several
actions share. `IInvStep` joins them, `Invariant` is `Spec => []IInv`, and each
theorem follows from it. `ServedAlive` is inductive by itself: a client that
is killed while on the list leaves NULL in `clients[]`, which the loop tests, unless
it retains resources. `ServedConnected` therefore has the hypothesis
`Retainers = {}`; without it the property is false (see Departures).

*`Tracked`.* The masks of a client that makes itself impervious are not kept
right by the code (see Departures), and if there are such clients, neither are
those of a sleeper: an impervious client may end the grab of an owner that
sleeps. `MasksMatchClients` and `BufferedRequestsRemembered` therefore speak of
the tracked clients: all of them when nobody uses XTestGrabControl, and
otherwise those that neither use it nor sleep. The other theorems speak of
all clients.

### The smart scheduler (last part of `ServerGrab_proofs`)

| Theorem | States |
|---|---|
| `ServedUnderTimerAlways` | `ScheduleSpec => []SmartSchedulerInv`: types, and whoever is served runs under a timer |
| `NobodyPassedOverTwice` | `ScheduleSpec => PassedOverOnce` |

For any clients, `priority`, number of smart priorities, slices, `MaskWordBits` and
interval. `SchedulerInv` adds to the type invariant `TimerInv`, where between
`select()` and the first request the handler of SIGALRM may still stop the timer,
and `OvertakenInv`: counted round from the client last chosen with c's
priority (`Robin`), all that were chosen before c lie behind c. It is what makes
one more turn of the others impossible: the choice goes to the nearest.

### The input queue (first part of `Queues_proofs`)

| Theorem | Hypothesis | States |
|---|---|---|
| `TypeInvariant` | | `Spec => []TypeOK`: the indices stay in the ring |
| `ButtonsNotOvertaken` | `OneScreen` | `Spec => []EventQueueInv` |
| `MotionsForward` | `OneScreen` | `Spec => MotionsInOrder` |
| `FifoImplemented` | `OneScreen` | `Spec => InputFifo's Spec`, under the mapping of `EventQueue` |

For any `QUEUE_SIZE` from 2 up. The lemmas first turn the ring into a
sequence (`Ranks`, `EventAt`): where `head` and `tail` go, also when they wrap, what
enqueueing adds and what compression replaces. `RingInv` says of that sequence
that it is in the order of its causes and that no motion is next to another;
`CopyInv` what the main program's copy of a slot is worth at each of its places:
while the slot is still queued, the handler can only have put a later motion
into it. `FifoImplemented` shows that the initial states map to initial states
and each step to a step of `InputFifo` or a stutter; its only step with content
is a refused button, for which the count of a full ring of merged motions gives
`(QUEUE_SIZE - 1) \div 2` waiting buttons.

`OneScreen` is needed: with several, a warp by a request while events of another
screen are queued drops or reorders events (`SwitchesAreMotions` in Departures),
and the three properties are false.

### The work queue (second part of `Queues_proofs`)

| Theorem | Hypothesis | States |
|---|---|---|
| `QueueSafe` | `NoLbxStraggler` | `WorkSpec => []WorkQueueInv`: types, the list is whole and every pointer that will be written through leads to the rest of it, no function is about to use a closure that was freed |
| `SleepersWoken` | `NoLbxStraggler` | `WorkSpec => []SleepersAreWoken` |
| `ClosedAreForgotten` | `NoLbxStraggler` | `WorkSpec => []ClosedForgotten` |

For any number of clients, any of them sleeping, using LBX, mortal or closed by
`EstablishNewConnections`, and any number of nodes. `WorkQueueAssumption` asks for
memory: two nodes for a client that opens fonts (its signal may be queued twice), one
for a client of LBX and one for `EstablishNewConnections`. That this is enough is
a part of the proof (`Room`: each node that is allocated has a place of its own
among them, by `Counted`).

`NoLbxStraggler` says that `EstablishNewConnections` closes no client of an LBX proxy
(`LbxClients` and `Stragglers` are disjoint, as in the run). An entry of such a client
is the only one that `ProcessWorkQueue` leaves behind in the list, and so the only one
that the zombies' loop can free in front of the entry that is executing: without the
hypothesis `QueueIntact` is false (see Departures). A font client that is closed so,
whose entry is behind, is covered.

*The argument.* `WorkInv` is the inductive invariant. Of the list it says that there is a
sequence L of nodes such that

- `IsList`: the links follow L, which has no node twice, and the nodes of L are those that
  are allocated. Every operation on memory is shown to be one on sequences: `QueueList`
  (QueueWorkProc appends), `RemoveList` (a loop takes out the node behind its `p`);
- `Placed`: each loop is at some place of L, with the entries that it has passed being such
  as it leaves (blocked LBX clients; entries of other clients than the one that is closed),
  and, while its function has not returned, the next node being the one it called. The outer of two
  loops is always of this second kind, with `EstablishNewConnections` in the node. The
  inner one frees entries of a client in `Stragglers`, which are not among those that the
  outer has passed (`NoLbxStraggler`) and not the one it is calling: its place moves with
  L (`PlacedOnward`);
- `LastInv`: `workQueueLast` is the last of L, except when a loop has reached its end and is
  about to set it. Functions queue work only when it is right.

The rest is `StackInv`, which loops may run in which state of the server; `CountInv`, how
often each kind of work is queued; and `SleepInv`, which ties for each client its sleep, its
closure, its record at the font server, its entries and its state to each other. For
example it sleeps exactly while its closure lives, which makes of what is known about
the sleepers that no function is about to use a closure that was freed.
`SignalledFacts` says what one answer of the font server that wakes many clients does; being
computed by a recursion over clients, it is proved from one client to the next (`StepByStep`).
Each action has a lemma `...Step`, `WorkSteps` joins them, and `WorkInvariance` is
`WorkSpec => []WorkInv`. `FromFacts` shows that what `QueueIntact` computes by following
links is the rest of L.

### The timers (`TimerList_proofs`, first part of `Timers_proofs`)

| Theorem | States |
|---|---|
| `TimersInOrder` | `Spec => []OsTimersInv`: types, in order, and none left behind that was due |
| `SleepEndsInTime` | `Spec => []NeverOversleeps` |
| `TimersNotEarly` | `Spec => NeverEarly` |

For any timers, periods and `Wrap`; the clock may start anywhere and wrap any
number of times. The one assumption with content is `OsTimersAssumption`:
`MaxLate` and any period are together less than half the clock. `MaxLate` bounds
how long the server does not look at its timers (a guard of `Tick`): signed
differences of CARD32s cannot tell 25 days late from 24 days early.

`TimerList_proofs` is about lists, not about this module: `DifferenceFacts` says
that the signed difference of two CARD32s is the difference of the times when
they are near; `UnlinkedFacts`, `LinkedFacts` what the operators return;
`InTime(T, late, ahead, list, d, tm)` that a list holds each timer of `T` at most
once, in the order of the true times `d`, none earlier than `late` before `tm` nor
farther than some period of `ahead` after it; and `UnlinkInTime`, `TailInTime`,
`LinkInTime`, `SetInTime` that the operators keep it, `FirstIsDueFacts` and
`TimeoutFacts` that the loop and `select()` compare rightly. `Listed` and its lemmas
are what is left of this when nothing is known about the times. The proofs about
`OsTimers` take `due`, the history of true times, for `d`; `IInv` adds `LookInv`: outside the loop
over the timers, what is left is due later than the clock that the loop looked at.

### The authorizations (second part of `Timers_proofs`)

| Theorem | Hypothesis | States |
|---|---|---|
| `UsersCounted` | | `AuthSpec => []AuthorizationsInv`: types, counted right, no timer outlives its authorization |
| `UnusedArePurged` | `HalfClock` | `AuthSpec => []PurgedInTime` |
| `PurgesNotEarly` | `HalfClock` | `AuthSpec => NeverPurgedEarly` |

For any authorizations, clients, timeouts, retainers and clock.
`AuthorizationsAssumption` says that there are fewer clients than a `refcnt` can
count (`MAXCLIENTS` is 256, the count has 32 bits). `HalfClock` says that every
timeout is less than half the clock, 24 days: `TimerSet` takes a longer one for over
and the authorization is purged at once, so that `NeverPurgedEarly` is false
without it (see Departures). `UsersCounted` needs no such hypothesis: it covers
the purge in the middle of a request.

*The argument.* What the functions of `security.c` do is proved on a state
`s = [timers, auths, clients]`: `Sound(s)` says that each timer is in the list once,
for an authorization that exists, and that a client has an authorization that
was generated; `OnlyTimed(s, v, a)` that from s to v nothing happened but to a's
timer, or to a and its clients if it was deleted. `DeletedSound`,
`ExpiredFacts`, `WithTimerFacts`, `StartedFacts`, `UncountedFacts` and `CountedFacts`
are about one function each, in the order in which they call each other.
`Base`, `AuthTypeOK` with `Sound` and `RefcntCountsUsers`, is inductive. For the other two
theorems, `Timed` adds times d to which the list of timers keeps (`InTime` with
`late = 0`, since `TimePasses` does not pass a due timer) and `Attended`: an authorization has a
timer just when it has a timeout and no users, and then the timer is due when the
timeout, counted from `idleSince`, is over. Each action has a lemma `...Timing`, which
also says that it purges nothing, or nothing but the authorization it is about.

### The device grabs (`DeviceGrabs_proofs`)

| Theorem | Hypothesis | States |
|---|---|---|
| `FrozenAlways` | | `Spec => [](TypeOK /\ FrozenByAGrab /\ NothingHeldBack /\ GrabWindowsExist)` |
| `OneEventAlways` | | `Spec => []OneEventAtATime` |
| `InOrderAlways` | | `Spec => []PendingInOrder` |
| `DownAlways` | | `Spec => []DownFollowsHardware` |
| `GrabsAlways` | the owner of the window has no passive grabs | `Spec => []DeviceGrabsInv` |

For any clients, passive and active grabs, windows and number of events. The
hypothesis of `GrabsAlways` is only needed for the one part of `DeviceGrabsInv` that
`FrozenAlways` does not have, `NoGrabOfGoneClient`, which is false without it (see
Departures); the run's constants satisfy it.

*The argument.* Most of the properties speak of the dispatch loop (`stack = <<>>`)
or of events between calls, and none of them survives a single step of a nested
call. `IInv` says what is owed while handlers are under way:

- `DevInv`: the records by themselves. A grab, its end and every mode of
  `AllowSome` is a function from records to records, so that the lemmas about
  `ComputeFreezes`, `AllowThis`, `AllowBoth`, ... are about a function each.
- `StackInv`: which calls can be under which. Events are never played within the
  playing of events (`playingEvents` in the code), the two halves of a
  repeated press are given one after the other, a replay is always the
  innermost call, and under a client's end there is only the end of its window.
- `HeldBackInv`: outside `PlayReleasedEvents`, all that is held back is of frozen
  devices. Inside, it need not be: the event just played may have thawed one.
- `WindowInv`: a grab on a window below the surviving ones is still on the list of
  what the `window` frame has to look at. `DeleteWindowFromAnyEvents` looks at both
  devices when the window is unmapped, where a played event may still grab it
  again, and at both once more when it has left the trace.
- `OrderInv`: events held back are in order and follow those that a frame
  is about to give (`GivenFirst`), and the *last* press or release of a device that
  is held back, given or processed tells the truth about the hardware
  (`HeldTruth`). Compression of motions changes neither.

`NextInv` joins a lemma `...Step` per action. `LiveInv` is added for `GrabsAlways`: a
client that is gone has passive grabs only while `FreeClientResources` frees them.
Nothing is played meanwhile: of all clients only the window's owner has a window
freed, and it has no passive grabs.

### The input buffers (`RequestBuffers_proofs`)

| Theorem | Hypothesis | States |
|---|---|---|
| `BuffersSafe` | `NoBigPutBack` | `Spec => []RequestBuffersInv`: offsets lie in their buffers, each buffer has one owner, the one that may be taken holds nothing unread |
| `RequestsInOrder` | `NoBigPutBack` | `Spec => []ExecutedInOrder` |
| `InputBit` | `NoBigPutBack` | `Spec => []InputBitExact` |

For any clients and requests, any lengths of the setup and sizes of buffers.
`RequestBuffersAssumption` says that a request has at least its header, that there are
more addresses for buffers than clients, and that `BUFSIZE` holds a big header
and is at most `BUFWATERMARK`, which is at most `MAXBUFSIZE`. `NoBigPutBack` says that a request
which may be put back is not sent as a Big Request; a client may do so, and then
the properties are false (see Departures). The run's requests satisfy it.

*The argument.* `Before(c, k)` is the place in c's stream where request k begins,
and `Unread(c, o, n, a, g)` says that the words of buffer o behind the first n are the
words from a up to g of that stream. `IInv` says

- `Waiting`, of a client whose request is not being executed: behind the last
  request, the buffer holds what has been read from where the next one begins, and
  if it has no buffer nothing was left; the input bit is set just when all
  of the next request is there (`Whole`);
- `Executed`, of the one that is: its request begins the buffer (`Begins`), of a Big
  one without the second word, and what follows is the next request. The
  made-up request of a new connection covers the prefix of the setup only;
- `FreeSpent`: a free buffer has nothing unread, so that whoever gets it next does
  not see another's words;
- `SentInv`: Big Requests come only from clients that may send them, so that a
  length of 0 means the same to `ReadRequestFromClient` as to the client.

The lemmas follow the data: the layout of a stream (`Before...`, `WordFacts`), what
`Moved`, `Resized`, `Roomy`, `Filled` and `Shrunk` keep of a buffer, what `Parse` says of a
buffer that begins with a request (`HeadParse`), the possible outcomes of a read
(`ReadOutcomeFacts`), who owns which buffer after `WithBuffer` (`WithBufferFacts`,
`LentBuffers`) and what taking a request, moving its header or putting it back
leaves (`RequestTaken`, `PassedOver`, `PutBackFacts`). `NextInv` joins one lemma `...Inv`
per action.

### The output buffers (`OutputBuffers_proofs`)

| Theorem | States |
|---|---|
| `StreamsIntact` | `Spec => []StreamIntact`: what a client has received, has in its socket and in its buffer is what was written to it; of a failed connection, a beginning |
| `OutputSafe` | `Spec => []OutputBuffersInv`: buffered output has somebody to look for it, a descriptor has one client |

For any clients, descriptors, sizes of buffers and sockets, and numbers of units
written. `OutputBuffersAssumption` says that descriptors are numbered from 1, that sizes
are positive and that 0 and `None` are no clients.

*The argument.* Both properties speak of the state between steps of the server, but one
step of it is a loop over many descriptors: a flush of one client, in the middle of
`FlushAllOutput`, leaves others whose bits the loop has already cleared from
`OutputPending`. `Good(received, os, left)` is what holds in the middle:

- `Remembered`: a client with output in its buffer is in `OutputPending` with
  `NewOutputPending`, or blocked, or its descriptor is in `left`, what the
  loop has still to visit. `IInv` is `Good` with nothing left, and types of the rest;
- `StreamOf`: the stream of each client, with the `extra` that `WriteToClient` was given and
  has not yet put anywhere;
- `FreeEmptied`: a buffer on `FreeOutputs` has nothing in it. Without this, the next
  client to take it would send another's output (the mutant of `StreamIntact`);
- `Connections`: descriptors and clients belong together, the masks hold only
  descriptors that have a client, and a client that is gone has no buffer. It keeps the
  evicted client of a number that is used again apart from the new one;
- `Fresh`: to a client that has not connected, nothing was written.

Each function of the os layer has lemmas that say what it does to each of these
(`FlushClient`, `WriteToClient`, `CloseDownConnection`, `Evicted`, ...). `StepByStep` carries a
property of states over a `ForEach` when every step of the loop keeps it; it is proved
from the least descriptor for which it fails, since the induction theorems of the library
take operators as parameters. `FlushLoop`, `TellLoop`, `CheckLoop` and `KillLoop` apply it. The
actions are then compositions of functions that keep `Good`.

### The resource table (`ResourceTable_proofs`)

| Theorem | States |
|---|---|
| `TablesAreSafe` | `Spec => []ResourceTableInv`: each resource is in one chain, once, the newest of an id first; no loop goes on from a resource that was freed; no resource is deleted twice |
| `NothingIsLeftBehind` | `Spec => []NothingLeft`: between requests, nothing is there without what it needs, and of a client that is gone nothing, or nothing that is never retained |

For any clients, resources and ids, any hash function and number of buckets, and any
graph of what frees what, within three assumptions that TLC evaluates in the run:

- `ResourceTableAssumption`: types; hash values are buckets; a resource is created once in
  a request.
- `DependentsAssumption`: delete functions free with `FreeResource`, which counts
  (`FreeResourceByType` and the loops over a client do not), and those of the types
  that are never retained free nothing. A delete function that frees without counting
  would leave `prev` of an outer loop in freed memory, since the count is all that
  `FreeResource` compares.
- `NeedsAssumption`: what needs a resource has its id, by which they are freed together,
  or is freed by its delete function; and a delete function that skips the other's
  (`skipDeleteFuncType`) frees it in its place, as `DeleteWindow` walks the subtree
  itself. A resource with the id of one of those that are freed by type, or are never
  retained, may not need that one.

*The argument.* Both properties are about a stack of loops over chains and delete functions
that interrupt each other to any depth. `IInv` says

- `TablesInv`, of the tables: chains are whole (`ChainOk`) and the newest of an id first
  (`Newest`), `added` lists just the resources that are there. `RebuildFacts` and `AddFacts`
  show it of a table that grows, `TakenOut` and `UnlinkFacts` of a resource taken out;
- `Shape`, of the stack: who called whom, and no resource's delete function twice. The
  outermost loop skips no delete function;
- `FrameInv`: a loop has passed `prev` and nothing before it in the chain is what it looks
  for (`Passed`), or it will not use `prev` again (`Stale`): `FreeResourceByType`
  returns after the first, and `FreeResource` starts again if the count has gone
  down. `LoopStays` shows that this survives what an inner loop takes out: inner
  loops count, so that a `FreeResource` over the same table becomes stale;
  `FreeClientResources` keeps no `prev`; and in `FreeClientNeverRetainResources`,
  which does, nothing is ever called (`NeverRetainIsTop`);
- `CallsInv`: what a delete function frees it will still free, or is freeing, or is
  gone (`Handled`);
- `OrphansInv`: what is there without a resource that it needs will be freed by a frame
  of the stack (`Frees1`). With the stack empty this is `NoOrphans`;
- `RetainedInv`: a retained client has nothing that is never retained.

`NothingLeft` rests on `CallsInv` and `OrphansInv` and fails without `FrameInv`: a loop
that ends has freed all that it looks for only if it has passed nothing of it.
`PushFacts`, `PopFacts`, `Returns` and `LoopGoesOn` say what calling, returning and
moving on do to the stack; `UnlinkStep` is the one action that changes table and stack
together. The recursive functions that rebuild a table and add several resources are
carried from one step to the next by `StepByStep`, proved from the least number for
which it fails.

### Only model-checked

The liveness properties `ReleasedServerIsRegrabbed`, `TopClientsServed`, `InputDrained`,
`HandlersReturn`, `RequestsExecuted`, `OutputDelivered`, `AnsweredIsServed` and
`FreeingEnds`: liveness under fairness is beyond this prover, as is `ENABLED`. Every
safety property that a run checks is stated by a theorem.

`SocketsMatch` and `ServedAlive` are the other way round: proved, and no run
checks them.

## 6. Departures

Where the code does not do what a comment or document says, or what one would
have expected. Each is a formula of a module named `MC...`, or one of a component's
own properties under other constants, and is violated under the constants given; the runs
of section 3 leave these constants out, so what they show holds outside these cases.

*The grab* (`MCServerGrab`).

- *Stranded waiters*: `WaitersHaveWaker` (smart scheduler, 3 clients,
  `ImperviousUsers = {2, 3}`, `Mortal = {1, 2, 3}`, `Killers = {}`). `UngrabServer`
  (`dix/dispatch.c:1179`) wakes one waiter and trusts it to grab and later release
  the server. If it dies in between, `CloseDownClient` wakes nobody: it does not
  own the grab. The others stay ignored until somebody else grabs and releases.
- *Killed but served*: `ServedClientConnected` (classic scheduler, 2 clients,
  `Retainers = {2}`, `Mortal = {1, 2}`, `Killers = {1}`). After `KillClient` the loop
  tests only `clients[i]` (`dix/dispatch.c:404`), which a retained client leaves
  set with a NULL `osPrivate`.
- `IgnoredNotListenedTo` (3 clients, `ImperviousUsers = {2, 3}`, smart scheduler):
  `IgnoreClient` of an impervious client during a grab clears the working masks
  only (`os/connection.c:1256`), so `ListenToAllClients` brings it back although
  nobody attended to it.
- `NoClientLost` (2 clients, `ImperviousUsers = {2}`, `Sleepers = {2}`): a client
  that slept when the grab began is attended to while impervious, so it enters
  the working masks only (`os/connection.c:1325`), and is then in no mask once it
  is made pervious under the grab (`os/connection.c:1371`).

*Input* (`MCEventQueue`).

- *Lost motion*: `LatestMotionDispatched` (`QUEUE_SIZE = 3`, one screen, no warps, 3
  inputs). Between the copy of the slot at head and the advance of head
  (`xf86Xinput.c:796`) the handler may compress a motion into that very slot,
  although it "Must be reentrant with ProcessInputEvents" (`xf86Xinput.c:666`).
- `WokenByInput` (under `RunningSpec`, `QUEUE_SIZE = 3`, one screen, 2 inputs): the
  queue is tested before and after `select()`
  (`hw/xfree86/common/xf86Events.c:1250`), so an event queued just before the call
  waits for the next request, timer or event. `hw/xfree86/ddx.tbl.ms:406` speaks
  of a server suspended "until" there is input.
- `QueuedTimesInOrder` (`Times = {0, 1, 2}`, 3 inputs): "Make sure that event
  times don't go backwards" (`xf86Xinput.c:740`), but `lastEventTime` is assigned
  by `xf86eqInit` only.
- `SwitchesAreMotions` (2 screens, `WarpScreens = {2}`, 3 inputs): "screen
  switching can only occur on motion events" (`xf86Xinput.c:782`), but a warp by a
  request leaves button events of the old screen in the queue; the first is
  dropped as a switch.
- `ButtonsConsistent` (`QUEUE_SIZE = 3`, 5 inputs): a full ring tosses a button
  event after `xf86CheckButton` has recorded it (`xf86Xinput.c:728`), so dix may
  see a second press.

*Timers and authorizations.*

- *Counted off twice*: `RefcntIsUsers` (`MCAuthorizations`, under
  `Authorizations.cfg`). `ClientStateRetained` and `ClientStateGone` of one client
  both decrement `refcnt` (`Xext/security.c:1169`).
- `NeverPurgedEarly` with `Timeouts = {5}` in `Authorizations.cfg`:
  `SecurityComputeAuthorizationTimeout` lets up to 2^32 ms through, and `TimerSet`
  takes anything from 2^31 up for a time that is over (`os/WaitFor.c:496`): the
  authorization is purged at once. The run keeps to timeouts below half the clock.
  If the last client's end started the timer, its `CloseDownClient` comes a second
  time from within the callback: `Retain` leaves it retained, as the code does, where
  `clientGone` is set only after the callbacks; one that is destroyed is gone, and the
  outer call goes on with the memory of a client that the inner one freed.
- Timers behind a busy client: with the smart scheduler `WaitForSomething`
  returns before it looks at the timers while a client has a request buffered and
  nobody else is ready (`os/WaitFor.c:286`). In `OsTimers` such a return is a
  stutter, so nothing is claimed about it.

*Scheduling* (`MCSmartScheduler`).

- `OnlyHighestPriority` with `Priority <- MCFirstWordHighest` under `Spec`: "Only the
  highest priority client is returned to dix" (`os/WaitFor.c:395`), but
  `highest_priority` starts again at 0 with each word of the mask
  (`os/WaitFor.c:373`): clients of lower priority in a later word are returned
  too, or replace the others.
- `NobodyStarves` with `SmartScheduleMaxSlice = 1` under `FairSchedule`: a client that
  uses up its slices loses smart priority (`dix/dispatch.c:434`) and gets it back
  only by being idle (`dix/dispatch.c:296`) or by input, so others of a higher one that
  are always ready pass it over for ever.

*Buffers* (`MCRequestBuffers`, `MCOutputBuffers`).

- `ExecutedInOrder` and `InputBitExact` with `Requests <- MCPutBack` (under `Spec`):
  a Big Request that is put back gets the length `client->req_len`
  (`os/io.c:642`), from which the word that held the length was subtracted when
  it was read: it comes back a word shorter. The requests that the server puts
  back are short ones, unless a client chooses to send them as Big Requests. The
  theorems about `RequestBuffers` have the hypothesis `NoBigPutBack`, which excludes it.
- `BadFdIsInAllClients` with `Sleepers = {1}` and `MaxWritten <- MCWrittenMore` under `Spec`: when `select()` objects to
  a descriptor, `CheckConnections` looks among `AllClients` only
  (`os/connection.c:1135`). A client that sleeps is not there; if a write to it
  failed, its closed descriptor stays in `ClientsWriteBlocked`, and `select()` fails until
  the client is attended to.

*Work queue* (`MCWorkQueue`).

- `QueueIntact` with `Mortal = {1, 2, 3}`, `Stragglers = {3}`: `EstablishNewConnections`,
  called by `ProcessWorkQueue`, closes a client that has an entry in front of its
  own. `ProcessWorkQueueZombies` frees that entry, to whose link the outer loop's
  pointer `p` (`dix/dixutils.c:575`) still points. The theorems about this module
  have the hypothesis `NoLbxStraggler` for this reason.
- `ClosuresAlwaysLive` under `WorkQueue.cfg`: a font client that was just signalled
  and is closed is signalled once more (`dix/dispatch.c:3588`), for `ClientSignal`
  (`dix/dixutils.c:679`) leaves it asleep: two entries share one closure, and the
  first to be called frees it.

*Resources* (`MCResourceTable`).

- `ChainsNewestFirst` with `HashOf <- MCHashOfMixed`: `RebuildTable` means to "preserve
  insertion order", on which "some ddx layers depend", but takes one old chain
  after the other (`dix/resource.c:471`): where two come together, the order is
  that of the buckets.
- `ElementsCounted` under `ResourceTable.cfg`: `FreeResourceByType` and
  `FreeClientNeverRetainResources` do not count `elements` down
  (`dix/resource.c:573`), so tables grow for resources that are gone.

*Device grabs* (`MCDeviceGrabs`, and a part of `DeviceGrabsInv`).

- `KeyGrabsEnd` with `LeafOwner = None`, `PassiveGrabs <- MCReplayPassive` and
  `ActiveGrabs <- MCReplayActive` under `Spec`: "The active grab is terminated
  automatically when the logical state of the keyboard has the specified key
  released" (`doc/specs/XProtocol/X11.protocol:3823`), but the grab ends with the
  release of `activatingKey` (`dix/events.c:2903`), which is assigned only where a
  press is processed (2882), not where ReplayKeyboard has one start a grab
  (`ComputeFreezes`, 1208). Such a grab outlives its key unless that key happened to
  start the last grab before. The formula holds of grabs with `activating`.
- `RepeatsInOrder` under `DeviceGrabs.cfg`: the release of a repeated press may freeze
  the keyboard; its press is then put behind the events that came after it
  (`dix/events.c:2860`). `cut` remembers it, and `PendingInOrder` and
  `DownFollowsHardware` say nothing from then on.
- `NoGrabOfGoneClient` with `LeafOwner = 1` under `Spec`: after `ReleaseActiveGrabs`
  (`dix/events.c:1558`) a closing client's window is destroyed, which ends another
  client's grab of it; the events then played may start a passive grab of the
  closing client, whose passive grabs are freed only later. `GrabsAlways` has the
  hypothesis that excludes it.

## 7. Not modelled

- Running out of memory; server reset and termination; XDMCP; the proxies of
  LBX (only `LbxWaitForUnblocked`, as a user of the work queue).
- In `ServerGrab`: authentication of a new client and who of the ready clients is
  returned (any may be; see `SmartScheduler`). Output is `OutputBuffers`, the
  work queue through which a connection is accepted is `WorkQueue`.
- In `SmartScheduler`: `SyncSetPriority` (a client's `priority` is a constant);
  `smart_stop_tick` and `SmartScheduleIdleCount`; slices that are no multiple of
  the timer's interval.
- In `RequestBuffers`: `PartialRequest`, bytes within a word (a request is a whole
  number of them), swapped clients. In `OutputBuffers`: padding, `ReplyCallback`,
  `FlushCallback`.
- In `EventQueue`: keys and extension devices (they pass through the same
  `Enqueue` as buttons), the coordinates inside a screen, the screen saver calls
  in the loop. A torn copy of a slot's two fields `rootX` and `rootY` is not
  distinguished from an untorn one.
- In `OsTimers`: the flags of `TimerSet` that no caller sets, `TimerCheck`, which
  nothing calls, and writes to a timer after it was freed. In `Authorizations`: writes
  to a freed authorization record, event clients, access checks and the policy file.
- In `WorkQueue`: the closures of `ListFonts`, `PolyText` and `ImageText`; they sleep
  and are signalled like `OpenFont`'s.
- In `DeviceGrabs`: which window an event is for (it is part of the event),
  event masks and what is written to clients, keyboard focus, extension devices.
- Read, and in the list of hazards, but in no module: the stale `origFontName` that
  `doOpenFont` gives the pattern cache after a sleep (`dix/dixfonts.c:430`);
  `clients[i]` left set when memory runs out (`dix/dispatch.c:3785`); the signed
  difference compared with an unsigned screen saver time (`os/WaitFor.c:579`); an
  assignment for a comparison in `_DeleteCallbackList` (`dix/dixutils.c:858`); the
  pointer to `LastSelectMask` that outlives its content (`os/WaitFor.c:349`).
- The components marked `not_modelled` in `PROJECT.json`: drivers, drawing, client
  libraries, programs, fonts and configuration are most of the tree, and are
  sequential code whose answers depend on data rather than on order.

## 8. Plan

Done: `ConnMasks`, `ServerGrab` and its proofs; `InputFifo`, `EventQueue`;
`TimerList`, `OsTimers`, `Authorizations`; `SmartScheduler`; `RequestBuffers`,
`OutputBuffers`; `WorkQueue`; `ResourceTable`; `DeviceGrabs`.

Next models, most important first: callback lists (`CallCallbacks` with deletions
from inside); the screen saver over `TimerList`; SYNC's awaits and alarms.

Proved: `ServerGrab`, `SmartScheduler`, `EventQueue` (one screen), `TimerList`,
`OsTimers`, `Authorizations`, `DeviceGrabs`, `RequestBuffers`, `OutputBuffers`,
`WorkQueue` and `ResourceTable`: every safety property that their runs check, under the hypotheses that section 5 names.

Next proofs: `EventQueue` with several screens, for what of `MotionsInOrder` is true there; then the
safety of the next models.

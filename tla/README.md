# Verification of the addison device tree

This directory holds TLA+ models of `android_device_motorola_addison`, their TLC
configurations, and TLAPS proofs about them. `PROJECT.json` lists the components,
the runs, which lines of the source each definition models, the known hazards and
the proved theorems.

Contents: [the system](#the-system), [models](#the-models),
[runs](#runs-bounds-and-fairness), [proofs](#proofs),
[disagreements](#where-code-and-documentation-disagree),
[what is not covered](#what-is-not-covered), [plan](#plan).

## The system

The repository is the device tree of one phone. Most of it is configuration; the
code is the GNSS location stack (`gps/`), the sensor HALs
(`hardware-moto-sensors/`), and small HALs (`light`, `vibrator`, `power`,
`pocketmode`). The location stack carries nearly all of the concurrency.

    framework --HIDL--> LocationAPIClientBase --> LocationAPI
                                                     |  calls
                                                     v
        GnssAdapter / BatchingAdapter / GeofenceAdapter  --messages--> MsgTask
             |            |           |                                  |
        AgpsManager   NI sessions   ODCPI --> LocTimer            one thread handles
             |            |                      |                all messages
             v            v                 timerfd thread
          framework    LocApiBase (a vendor library) <--> modem

Every adapter owns no thread: requests of clients, answers of the modem, expiries
of timers and answers of the framework become messages of one `MsgTask`, and all
adapter state is touched by its thread only. What is hard lies between messages:
an answer is handled after other messages that changed what it is about.

### Components

State, operations and hard behaviour of each part, and what makes it correct.

| Component | State | Operations | Hard behaviour | Correct when |
|---|---|---|---|---|
| AGPS manager (`gps/gnss/Agps.cpp`) | per network interface: state, subscriber list with inactive marks | modem requests and releases a call; framework opens, refuses, closes | answers without request identity, stale when handled; release while pending; network loss; modem restart | state agrees with subscribers; every request and release answered once; no connection held for nobody |
| MsgTask, LocThread, msg_q (`gps/utils`) | linked list, unblocked flag, delegate's reference count and runnable | create, send, receive, destroy | destruction at any point of the worker's life; lost wakeups; who deletes what | FIFO, one at a time; delegate and task deleted once, after last use; destroy ends |
| GnssAdapter, tracking (`gps/gnss/GnssAdapter.cpp`) | tables of time-based and distance-based sessions, deferred messages, reported power | start, update, stop, client removal, engine up | many sessions on one modem session; handlers of answers act on captured options; failures; restart | modem tracks fast enough for every session and for none when there is none; one response per request |
| LocTimer and LocHeap (`gps/utils`) | heap of delegates, timerfd and its place in epoll, delegate/client links | start, stop, delete, expire | client stops, restarts or deletes its timer while it expires; two threads set one timerfd | no running timer lost or slept through; delegate deleted once; callback only to live clients, not before time |
| GnssAdapter, NI sessions | two sessions with mutex, condition, thread | notify, user response, timeout, restart | late answer against timeout; fields reset after unlock | each request answered once |
| GnssAdapter, ODCPI | request, active flag, timer | request, stop, expiry, injection | expiry queued behind a restart of the same timer | request repeated while active, not after |
| GnssAdapter, control and configuration | control id, power vote, engine configuration | enable, disable, configure, engine up | commands before the engine is known | one response per command; vote matches state |
| LocationAPIClientBase (`gps/location`) | request queues per kind, two-way session maps, mTracking | start, stop, update, geofence and batching requests, responses | responses matched by order only; queues reset while responses are under way | every response reaches its own request |
| LocationAPI | global tables of clients and of destructions under way | create, updateCallbacks, destroy, remove complete | destruction ends with the last of three adapters' callbacks | deleted once, after the last callback |
| LocAdapterBase, LocApiBase, ContextBase (`gps/core`) | array of adapters, event mask, client table | add, remove, open, close, engine up/down, save and erase client | array changed on one thread and walked on another | mask covers the adapters present |
| BatchingAdapter | batching and trip sessions, trip counters | start, stop, update, trip progress and completion | trips of several clients in one outer batch | trips complete once |
| GeofenceAdapter | geofences by hardware id and by client key | add, remove, pause, resume, modify, restart | answers after a removal; restart re-adds | the two maps stay inverse |
| SystemStatus, OS observer | subscription tables, report rings | subscribe, unsubscribe, notify | subscriptions before the observer exists | each subscriber gets its items |
| XTRA observer | gate, connection state, socket | start, update, notify | daemon restarts | daemon gets the latest state |
| HIDL services (`gps/android`) | callbacks and death recipients | translation of calls | death of the client | sessions stop with their client |
| Synergy modem interface, pps, pla, other utilities | buffers, files | conversion, I/O | - | - |
| Light HAL | two LEDs | setLight | three light types share one LED | an LED shows a light that is on |
| Vibrator HAL | open sysfs streams | on, off, perform | failures ignored | - |
| Power HAL | hint handles in statics | powerHint | unlocked statics, failed acquires | a handle is released once |
| Sensor HALs (`hardware-moto-sensors`) | activation, delays, poll descriptors | activate, batch, flush, poll | event threads against activation | only activated sensors report |
| Device configuration, shims, init | - | - | - | - |

## The models

| Module | What it is |
|---|---|
| `Agps`, `AgpsProofs` | the AGPS state machines with the adapter's queue, the modem and the framework; theorems about them |
| `MsgChannel` | abstract: what a MsgTask promises to those who post to it |
| `MsgTask`, `MCMsgTask`, `MsgTaskProofs` | the task, its queue, its thread's life and death; with a history variable for TLC; theorems, among them that it implements `MsgChannel` |
| `Tracking`, `MCTracking` | GnssAdapter's tracking sessions with the modem; with small sessions and options for TLC |
| `LocTimer`, `LocTimerProofs` | timers, their container, the polling thread; theorems |
| `Odcpi` | on-demand position injection: the request, its timer and the adapter's queue |
| `GnssAdapterProofs` | theorems about the two parts of GnssAdapter, `Tracking` and `Odcpi` |
| `NiSessions`, `NiSessionsProofs` | network-initiated requests: two sessions, a thread with a timeout for each request; theorems |
| `Geofences`, `MCGeofences`, `GeofencesProofs` | one client's geofence requests, GeofenceAdapter and the modem; with symmetry for TLC; theorems |
| `Batching`, `MCBatching` | BatchingAdapter's sessions and the trips' shared batch; with a history variable for TLC |
| `ClientRequests`, `ClientRequestsProofs` | LocationAPIClientBase: request queues and session maps; theorems |
| `ClientLife`, `MCClientLife`, `ClientLifeProofs` | LocationAPI, LocAdapterBase, LocApiBase: clients come and go, adapters are made, the modem is opened for what clients listen to; theorems |

Each module carries a few definitions marked *mutant*. They take no part in the
specification: each is a plausible mistake in the definition it precedes, and the
property it is paired with in `PROJECT.json` fails when it is put in its place.

`MsgTask` is the base the others stand on: `Agps`, `Tracking`, `Odcpi`,
`NiSessions`, `Geofences`, `Batching` and `ClientLife` handle a message in the order posted, one
at a time, which `ImplementsChannel` justifies. `Odcpi` stands on `LocTimer` too: a
started timer expires in the end (`EveryTimerEnds`). `ClientRequests` takes from
`Tracking` that GnssAdapter gives one response per request (`EveryRequestAnswered`);
of BatchingAdapter, which does not, it has the missing and the second responses.

### Agps

`mState`, `subscribers` and `inactive` are the fields of `AgpsStateMachine`; the
order of the subscriber list is dropped because nothing depends on it. `msgQ` is
the part of the adapter's queue that concerns data calls. `ProcessSubscribe`,
`ProcessUnsubscribe`, `ProcessGranted`, `ProcessReleased` and `ProcessDenied` are
the event handlers, case by case; `EndAll` is `notifyAllSubscribers` with
deletion, `Drop` is `deleteSubscriber`. `RequestATL` to `ReportAtlClosed` are the
manager's entry points, run by the `MsgTask` action.

External parts are modelled from how the code uses them. The modem asks for a call
with an idle handle and gives back one it opened or is opening. The framework
answers each command once (`FrameworkOpens`, `FrameworkFails`, `FrameworkCancels`,
...), possibly after others have been queued; the network can drop a connection.
An unusable APN calls `reportAtlClosed` directly (`FrameworkOpensBadApn`); a result
without an APN is dropped by `agpsOpenResultCb` (`FrameworkResultDropped`).
`ModemRestart` is the modem forgetting its handles. Nothing in the repository answers
it, so the machines keep their subscribers.

Constants: `Created` are the state machines that exist. `WaitForClose` are the
handles whose subscribers wait for the close. The shipped caller always passes
false (`requestATL`, line 592), which is `WaitForClose = {}`; a non-empty set
exercises the `RELEASING` state, which the class supports.

### MsgTask

A step is one critical section, or one access to a field another thread uses.
`Snd` is `sendMsg` with `msg_q_snd`; `Receive` and `Wakeup` are the two sides of
`pthread_cond_wait` in `msg_q_rcv`; `Unblock`, `Clear`, `Bye`, `Join` and `Drop` are
the stages of `MsgTask::destroy` through `LocThread::stop` and
`LocThreadDelegate::bye`. `Call` records who runs it: the worker itself, from a
message it handles (`Callers` has `"self"`), or another thread. `thread` is the copy
of `mThread` that `destroy()` takes before it unblocks the queue; `Clear` then writes
`mThread`, in a task that may be gone. The worker's program counter follows `threadMain`.
`Joinable` is the set of values the constructor's argument may have; which one
it had is chosen where it first matters, in `Bye`. `ThreadMayFail` lets
`pthread_create` fail. `MCMsgTask` remembers the choice, which the properties need
that hold for one kind of thread only. A spurious wakeup is left out: it finds the queue as the
worker left it (`NoLostWakeup`) and waits again. A message sent to an unblocked
queue is recorded as rejected, as `sendMsg` ignores the failure.

`MsgChannel` is the abstract view. Its variables are a queue, the message being
handled, whether it is closed, and whether a message was begun after that: the
worker may take one more message from an unblocked queue and no second one.

### Tracking

`timeBased` and `distanceBased` are the two session tables; `powerOn` is what was
last reported to the power vote; `mPendingMsgs` and `resent` are requests put off
until the engine's capabilities are known. A request of a client is one message,
handled in one step (`DoStart`, `DoUpdate`, `DoStop`); the commands
`StartTrackingCommand` and so on add the deferral. `StartMultiplex`,
`UpdateMultiplex` and `StopMultiplex` give the call to the modem that a change to
the tables needs, if any. `calls` are those LocApi has still to answer, in order;
each carries what the handler of its answer captured (`then`, `old`).
`LocApiAnswers` is the modem carrying out a call, or failing, together with that
handler.

The modem's side is a library the adapter loads (`ContextBase::createLocApi`); it
is not in the repository, or is the Synergy translation of another. It is modelled
as working through calls in order on one thread. Session identities are the order
of creation, as `generateSessionId` gives them (`LocAdapterBase.h:46-48`).

Abstracted: the floor under intervals (`MIN_TRACKING_INTERVAL`) and the fallback
into TBM mode, which change option values before the code modelled here; of the
options, the interval, the power mode and whether a distance is set are kept.
Power modes are 1 (most) to 5, as every HIDL service since 1.1 sets one.

Properties are stated when nothing is under way (`Quiet`): no call unanswered, no
deferred request, engine up. `OffWhenUnused`, of which `StoppedStaysStopped` is a part, also needs
`NothingFailed`; see the disagreements below for what happens otherwise.

### LocTimer

One container: `mSwTimers` and `mHwTimers` are two instances of the same class. A
delegate is a number in the order of starts, made by `Start` and never reused, as
an object is. `heap` is a set and `top` its highest-ranking member; `Push` and
`Remove` are what `LocHeap` does to them, with any choice among equal times. The
MsgTask's thread handles `push`, `remove` and `expire` messages, with a program
counter between the points another thread can see (`AddPoll`, `SetTime`,
`Expire`, `ExpireStop`, `TimeOutCallback`, `ExpireNext`); the polling thread is
`Wakeup`, `Disarm`, `RemovePoll`, `Post`. `Start` and `Stop` are atomic: they hold
the lock that a timer shares with its delegate. `expire()` reads its client
without that lock. What happens after a client is deleted in between is undefined
behaviour; the model takes the outcome where nothing more happens, except in
`NoDeadClient`, which says that the situation does not arise (it does).
The timerfd is never read, so it stays readable until it is set anew.

`fate` is a history variable: what became of each delegate.

### Odcpi

`OdcpiTimer` keeps a flag of its own (`mActive`) beside the state of the `LocTimer`
it extends (`armed`). `LocTimerDelegate::expire` stops the LocTimer, not the
OdcpiTimer, so the flag stays up while the expiry travels through the adapter's
queue: `Expire`, `TimeOutCallback` and `OdcpiTimerExpire` are three steps, and
requests, stops and restarts of the modem come between them. `asking` and `asked`
say whether the last step asked the framework and for what. Its specification is named
`OdcpiSpec`, its variables `odcpiVars` and so on, so that one module of proofs can extend
it together with `Tracking`.

### NiSessions

`ni` holds the two `NiSession`s. Each request that a session takes gets a detached
thread (`niThreadProc`): it waits for a response or the end of the time
(`NiThreadStarts`, `Wakes`, `TimesOut`), takes the request out of the session under
`tLock` (`Conclude`), then, no longer under it, clears `reqID` and `respTimeLeft`
and posts the answer. The adapter's handlers `HandleNotify` and `HandleRespond` are
split where they lock: a session is found active, and the response stored, in two
steps; so is `requestNiNotify`, between the setting of the session's fields (`Save`)
and the reading back of its ID (`ShowNotification`), which the thread before may have
cleared: the user then answers by the ID 0 (`unnamed`). `pthread_create` may fail
(`ThreadMayFail`), and nothing then ends the request (`threadless`). A timeout may come
at any moment; its length is not modelled. `ends` records what became of each request.

### Geofences

A request names several geofences. `addGeofencesCommand` and its siblings give
each geofence a turn in LocApi's call queue (`addToCallQueue`, which the library
overrides; the default in `LocApiBase` does nothing), and only in its turn is the
geofence looked up and the modem called. `apiQ` holds turns and calls, taken in
order by a thread of the library's own. `HandleTurn` is the lambda of a turn,
`HandleAnswer` that of a result; `batch` has the arrays `ids` and `errs` which the
last of a request's geofences deletes. `mGeofences` and `mGeofenceIds` are the
adapter's two maps, `forward` and `backward` the client's. After a restart of the
modem the adapter adds every geofence again (`HandleEngineUp`,
`HandleRestarted`) and gets new hwIds.

### Batching

Routine and unreported sessions are the modem's own; all trips share one batch of
the modem, as long as the least distance a trip has left. `DoStartTrip`,
`DoStopTrip`, `DoRestartTrips` and the handlers `After...` follow the queries,
stops and restarts with which trips join and leave; each carries what its lambda
captured. Counts of travelled distance are unsigned (`Word` stands for 2^32).
`MCBatching` adds `overlapped`: whether two pieces of work on trips were ever under
way together. The adapter keeps no guard against that, and most of what it knows of
trips is wrong afterwards (see below), so that the properties of the passing run
are stated until then, and until a call of the modem fails.

### ClientRequests

`queue` has the requests that wait, for the one tracking session and for all
others; `forward`, `backward` and `ext` are the three maps of `mSessionBiDict`. A
request that looks a session up twice (`LookUp`, then the rest) can lose it in
between, since responses and ended trips remove sessions without `mMutex`.
`Done` is an adapter that answers a call, `OnResponseCb` finds the request for
the response (`Take`), `OnStart`, `OnStop`, `AfterStop` and `OnOther` are what the
request does with it. A call to BatchingAdapter may also get no answer (`Refused`: its
checks fail, or it does not know the session), and an update of a batching session gets
two: `Done` is the first, after the stop, `restarts` what is owed from then on and
`Restarted` the second, which may also tell that the session has ended. Both shift the
queue, for good, if a request waits for the missing answer or takes the second one; so
do a trip that ends under a request and a failing stop of a session whose name was given
to another. `lost` tells that one of these has happened, and the three properties hold
until then. A second response that finds no request, and a call on the side that is
refused, do no harm, which the properties and the theorems do cover. The client is either one that waits for the response of a session
before it asks for the same session again, with adapters that answer in order, or
one that waits for every response, with adapters in any order. Where neither holds,
order alone cannot tell responses apart and they do reach other requests.

### ClientLife

Three threads work on a client. Calls of clients (`CreateInstance`,
`UpdateCallbacks`, `Destroy`) hold `gDataMutex`; the first two go adapter by adapter
(`call.left`), since adapters they make are announced to the modem's interface in
between. The adapters' task enters and removes clients (`HandleAdd`,
`HandleRemove`), answers requests for capabilities or puts them off
(`HandleRequest`, `mPendingMsgs`), and hears that the engine is up. LocApi's task
opens the modem with the mask of all adapters in its array (`LocApiTask`, `apiQ`):
for a new adapter, for a change of a mask, after a restart. `HandleRemove` needs
`gDataMutex` for its callback and so waits for a call that holds it.

An adapter enters the array in the constructor of its base class
(`LocAdapterBase.cpp:52`), so that LocApi's task may announce the engine before the
rest is constructed. Which `handleEngineUpEvent` it then calls is undefined; the
model takes both, the adapter's and the base class's, which does nothing (`missed`).
The adapter can then think the engine down although it is up, as it can when the
modem refuses to open; such adapters are in `deaf`.

`life` follows a client to the call of `destroyCompleteCb` (`"told"`), or to a
destruction without one (`"left"`). A callback stands for the events it needs; events
that an adapter needs for itself, the NMEA mask and the excluded mask are left out.
What `removeClientCommand` does to a client's sessions is part of `Tracking`,
`Geofences` and `Batching`.

## Runs, bounds and fairness

| Run | Configuration | Shows | States |
|---|---|---|---|
| `agps_hostile` | two interfaces, two handles, one that waits for the close; 2 requests, 1 loss, 1 restart; all answers, dropped ones too | `LeaseMatchesSubscribers`, `OpenOnlyWhileHeld`, `NoForgottenSubscriber` | 79,430 |
| `agps_answers` | one interface, two handles; 3 requests, 1 loss, no restart, usable APNs | every request and release answered | 83,374 |
| `msgtask` | three messages, detached or joinable thread, destroyed by itself or another | `DelegateLivesWhileUsed`, `TaskDeletedAfterUse`, `NoLostWakeup`, refinement of `MsgChannel`, `EveryMessageEnds`, `DestroyEnds` | 5,841 |
| `tracking_time` | three time-based sessions of two clients, three option values; 1 update, 1 restart | `ModemFastEnough`, `OffWhenUnused`, `EveryRequestAnswered` | 1,389,391 |
| `tracking_distance` | two sessions, both kinds, engine down at first; 2 updates, 1 removal | `DistanceSessionsAgree` | 487,305 |
| `timer` | two clients, three starts, delays 1 and 2, clock to 2 | `DelegatesLiveWhileUsed`, `TickingTimersAreKept`, `ArmedForSoonest`, `EveryTimerEnds` | 296,154 |
| `geofences` | two ids, all five kinds of request, 3 requests, 2 open together, 1 event | `KeysResolve`, `AdapterMatchesModem`, `OneTrueResponseEach`, `BreachReachesOwner` | 1,200,745 |
| `batching` | two clients, three modes, two kinds of trip; 3 requests, distance 2, 1 event | `ModemBatchesAsSaved`, `TripBatchAsKept`, `NeverEarly`, `BatchFullHeard` | 1,888,944 |
| `odcpi` | 5 messages of modem and framework | `RetryComing`, `EmergencyReached`, `AskedUntilStopped` | 9,767 |
| `ni_sessions` | 2 requests, 2 changes of clients | `AnsweredOnce`, `UserDecidesInTime`, `EverySavedRequestEnds` | 116,408 |
| `clients` | two ids and the tracking session, 5 requests; refused, failed and doubly answered batching | `ResponseReachesItsRequest`, `MapsAgree`, `KnownWhileRunning` | 3,951,874 |
| `client_life` | two clients, two of three adapters' libraries; 1 update, restart or refusal | `ForgottenOnceTold`, `ModemReportsWhatIsHeard`, `DestroyEnds`, `CapabilitiesHeard` | 108,926 |

Every run explores its whole state space. `CHECK_DEADLOCK FALSE` is used
throughout because each system may come to rest: all bounds used up, no request
open, the task destroyed.

Why the bounds are enough. *Agps*: a stale answer needs two requests of the same
interface under way; a third, and a second handle, let it meet a list that is
empty, has the same subscriber, or another. *MsgTask*: one message is handled, one
waits, and one comes late. *Tracking*: three sessions are needed for a change to
one of them to be compared with a multiplex of two others, and three option values
to separate interval from power. *LocTimer*: three starts let a client restart its
timer while another runs; times 1 and 2 give ties, earlier and later. *Odcpi*: five
messages are a request, an emergency, a stop, a restart and a registration in any
order; the theorems need no bound. *NiSessions*: two requests meet in one session
or take both; with three, which it takes to show two of them without an ID, the
invariants hold as well (5.4 million states without changes of clients).
*Geofences*: each request names one or two geofences, two requests are open
together and a third follows; with two events (a restart and a breach) the state
space is too large for a run of every day. *Batching*: two trips of different
distance and interval, a third session next to them, a distance that ends one trip
and not the other. `Word = 8` is more than twice what can be travelled, so that an
underflow shows as a large count and nothing else wraps. *ClientRequests*: five
requests are a start, a change of kind, a stop and requests for two other sessions
around them. *ClientLife*: each client uses two adapters, they share one and differ
in the other, and one library is missing. A client calls while at most `MaxQueued`
messages wait, and one event (`MaxEvents`) is an update, a restart or a refusal.
With no limit to what waits, the two invariants hold as well (4.7 million states).

Type invariants (`TypeOK` of each module) are in no run; they were checked with
TLC, and are proved for all modules but `Batching`.

Fairness:

* `Agps`: the MsgTask thread keeps taking messages and the framework answers every
  command in the end (`agps_answers` has an answering framework; in the code both
  are threads with nothing to wait for). The modem owes nothing.
* `MsgTask`: the worker runs when it can (`WF(WorkerNext)`), and an owner that has
  begun to destroy the task goes on (`WF(Clear \/ Bye \/ Join \/ Drop)`). Nobody is
  obliged to post or to destroy. `EveryMessageEnds` is for tasks that got a thread.
* `LocTimer`: both threads run and time passes; clients owe nothing.
* `Odcpi`: a running timer expires, its thread posts the expiry, and the adapter's
  thread takes messages (`EveryTimerEnds`, `EveryMessageEnds`). Requests owe nothing.
* `NiSessions`: the adapter's thread and each request's own thread run, which
  includes that time passes. Users need not answer.
* `ClientLife`: a call that has begun goes on, and both tasks run. Clients owe no
  call, and the modem may refuse within the bound.
* `Tracking`, `Geofences`, `Batching` and `ClientRequests` have no liveness
  property: what must have happened is compared when nothing is under way.

## Proofs

All theorems hold for every value of the constants that satisfies the named
assumption of the module (`EnvironmentAssumption`, `TaskAssumption`,
`TimerAssumption`, `OdcpiAssumption`, `NiAssumption`, `TrackingAssumption`,
`LifeAssumption`, `ClientAssumption`, `GeofenceAssumption`). These type the constants, keep `None` apart from them, make sessions
a finite set of numbers, and give each client a callback. A theorem that needs more has
it as a named hypothesis.
Each inductive invariant was first checked by TLC.

**AgpsProofs.** `TypeCorrect`, `LeaseCorrect` (`LeaseMatchesSubscribers`),
`OpenCorrect` (`OpenOnlyWhileHeld`), `NoneForgotten` (`NoForgottenSubscriber`). The
first two safety invariants are inductive
together with the types: a handle loses its subscription only in a handler that
tells the modem, and a machine leaves `ACQUIRED` only by dropping every subscriber
or when all that are left are inactive. The argument is made once per handler of
the state machine and then reused by the manager's entry points and by the queue.
It assumes nothing of the framework, which is why stale answers, losses and
restarts are covered. `NoneForgotten` follows a handle (`OnePlace`): it is in the list of
one machine, or in one request that waits, or the modem has it as idle; each handler
only takes handles out of lists, telling the modem (`OnlyLoses`), but for the
subscription itself. It holds until the modem restarts, which makes every handle idle
while requests of the time before still wait and lists still hold them (nothing calls
`handleModemSSR`).

**MsgTaskProofs.** `TypeCorrect`, `DelegateCorrect`, `WakeupCorrect`,
`ChannelCorrect` (`Spec => Channel!Spec`), `TaskDeleted` (`TaskDeletedAfterUse`, of
`MCMsgTask`). Neither lifetimes nor wakeups are
inductive alone. `RefCountInv` says that the count is the number of those who have
not yet called `destroy()`; with it the last of the two is the one that deletes.
`QueueInv` ties program counters to flags: an unblocked queue is one whose owner
has begun to destroy it, and a worker that sleeps has taken no late message. The
refinement maps the queue to `pending`, the worker's message to `busy`, the
unblocked flag to `closed`; each step is a step of the channel or leaves it alone.
`DeletedInv` adds which thread has still to delete the task, by where the owner and the
worker are and which kind of thread it was.

**LocTimerProofs.** `TypeCorrect`, `DelegatesCorrect` (`DelegatesLiveWhileUsed`),
`TimersKept` (`TickingTimersAreKept`), `ArmedCorrect` (`ArmedForSoonest`). The
invariant follows a delegate through its life. `LinkInv`: client and delegate
point to each other exactly while the timer runs. `OrderInv`: a delegate has at
most one message of each kind in the queue, and its push is before its removal.
`PlaceInv`: it is in the queue, in the heap or in the hands of the expiring
thread, never in two of these, and once ended it has its removal message or is
deleted. `TaskInv`: while the expiring thread is about to stop its client, the
delegate in its hands is that client's or nobody's. For the timerfd, `ArmedInv`
adds that with no expiry on its way, a thread about to set the time has its
timerfd polled: whatever the polling thread undoes, its expiry makes the other
thread do again.

**GnssAdapterProofs, of Odcpi.** `OdcpiTypeCorrect`, `RetryAlwaysComing` (`RetryComing`),
`EmergencyAlwaysReached` (`EmergencyReached`), for any number of messages.
`RetryComing` says that an active request has the timer's flag set and that a set
flag means a running timer, an expiry being delivered, or one in the queue. It is
inductive with the types: the only step that clears the flag, the expiry of an
inactive request, stops the timer with it, and the expiry that finds a request
active starts it again. `EmergencyReached` holds because every request that turns
the adapter's into an emergency asks at once.

**NiSessionsProofs.** `TypeCorrect`, `AnsweredOnceAlways` (`AnsweredOnce`),
`UserDecidesAlways` (`UserDecidesInTime`), for any number of requests. `OnceInv`
follows a request through the places it can be in: a message that brings it, a
session, a thread about to post its answer, the message with the answer; it is in
one of them and has not ended, or in none. Every step is a `Move` of one request
between two places, which `MoveOnce` shows to keep the invariant. Two threads that
conclude on one session do no harm: the second finds no request in it.
`DecideInv` says whose decision an acceptance is wherever it travels: a notified
request is undecided and its ID leads to no other request, an acceptance in the
queue, in the handler, in a session, a thread or an answer is of the request it
would be given to. The parts from the session on need that no response was stored
in a session whose request had ended, and all of them that no notification was shown
without its ID; `UserDecides` and `UserDecidesUnlessLate` show why (see the
disagreements). A new request gets an ID no message knows, and finds the flag of its
session down; when it is shown, no other session has its ID (`ShowInv`).

**GnssAdapterProofs, of Tracking.** `TypeCorrect`, `TracksFastEnough` (`ModemFastEnough`),
`OffWhenTimeOnly` (`OffWhenUnused`), `AnswersEveryRequest` (`EveryRequestAnswered`), for
any number of sessions, options, updates and requests. What the modem's session will be
once the calls under way are done is set by the last of them that sets it, or is what it
has (`FastQueue`, `OffQueue`). `FastInv` says that this is fast enough for every session
of the table: each of the multiplexing handlers sends a call that keeps it so, or the
lemmas on `Smallest` and `LeastPower` show that none is needed. It holds as long as the
modem carries out what it is told while it is up and no client is removed (`Obeyed`, a
condition on the state), where distance-based options are used only if they are
supported (`Supported`); both conditions are needed, as the disagreements show.
`OffInv` is the same for an empty table: the last such call stops the session. It
is proved for clients that ask for time-based tracking only (`TimeOnly`); with both
kinds `StoppedStaysStopped` fails. `OwedInv` counts: a session has as many
requests open as calls whose answer will report one and requests put off. It needs that
every client has a callback, and either time-based options only or no failure and no
restart (`Lossless`), since an update of a distance-based session whose stop fails gives
no response.

**GeofencesProofs.** `TypeCorrect`, `OneResponse` (`OneTrueResponseEach`), `KeysAgree`
(`KeysResolve`), `TableMatchesModem` (`AdapterMatchesModem`), `BreachOwned`
(`BreachReachesOwner`), for any ids, masks, requests, failures, restarts and breaches.
Two arguments share the types of the queues (`Typed`).
The first follows a geofence of a request through the command that names it, its turn,
its call and the answer. `OrderInv` says that what was asked for first is never behind:
all stages are queues, and a geofence overtakes none in moving to the next. So when the
last outcome of a request is handled its others have been, and so have those of all older
requests (`Settled`): the arrays are whole and not yet deleted, and the request is the
oldest. `LiveInv` says that an outcome still to come is on its way, hence that requests
end. `CarriedInv` keeps what is on its way as the request has it.
The second ties the adapter's tables to the modem, which is ahead of them by the
messages that wait. `Mirror` says that there is a table for each of these messages: the
first is the adapter's own, each message makes the next of the one before, and the last
is what the modem holds; what a breach names is the geofence of the table it comes to.
Handling a message drops the first table, an answer adds one. `AdapterMatchesModem` is the case
of no message, and `BreachReachesOwner` that of a breach at the head. That a new geofence
finds its place in the table empty and its session unused needs the history of sessions:
a session is added by one request only, and added again after a restart only if no
request or other call will add it (`Due`, `DueAgain`, `AgainInv`, `Bounded`), and tables
on two sides of a restart have no session in common (`Apart`). `Resolves`, both directions
of the two maps, then carries `KeysResolve`. The removal of the client takes sessions
out of one map before the other, so the tables are followed while the client stays,
as the properties say. `EngineInv` has what the restart of the modem leaves in the queues.

**ClientLifeProofs.** `TypeCorrect`, `ForgottenCorrect` (`ForgottenOnceTold`),
`ModemCorrect` (`ModemReportsWhatIsHeard`), for any clients, callbacks, libraries,
restarts and refusals. `PairInv` follows each pair of an adapter and a client through
the adapters' queue: at most one removal waits, it waits only for a client that left
without being told or still awaits this adapter, and a client that is in the table, or in an
addition that waits, still wants the adapter or has its removal behind every addition.
So a client that is told has no removal and hence nothing else. `UpdateInv` is why updates that leave
an adapter out are excepted: `destroy()` sends removals for the callbacks of the last update.
`TableInv` gives the value: the last addition that waits, or else the table,
has the callbacks given last, for every adapter that a call has already sent them to.
`MaskInv` gives the modem's mask from the tables: a table changes in one step with its
adapter's mask and a message to LocApi's task, and an adapter enters the array with one.

**ClientRequestsProofs.** `TypeCorrect`, `ResponsesReachRequests`
(`ResponseReachesItsRequest`), `MapsCorrect` (`MapsAgree`), `RunningIsKnown`
(`KnownWhileRunning`), for any names and any number of requests. They hold together or not
at all (`Orderly`). `DictInv`: the maps are inverse, and who is waited for is in them.
`CallInv` and `QueueInv` tie the calls under way to the requests in the queues by the
number that the code does not have: each numbered call has its request, each request its
call, for the session that its owner stands for, and both rise. Owners have different
sessions, so the session of a response tells the queue; the order of calls, or that only
one is out, tells the place in it (`ResponseTaken`). A call on the side, which stops the
session that a change of kind replaces, is for a session that is in no map, so its
response takes no request. `ResponseInv` keeps the owner of the response in hand waiting
and its session in place between the unlocked steps of `OnStop` and `AfterStop`, and
`ClientInv` the session that a request has looked up: what else removes sessions removes
those of an owner that is waited for, or one that the client takes to be ended.
`RunningInv` needs that no call starts a session that runs, and that a stop which fails
is one of a session still named. All of it holds until `lost`: a batching request gets no
answer, the second response to an update meets another request, a trip ends under a
request, or a session without a name fails to stop. `RefusedKeeps` and `RestartedKeeps`
are the missing and the second responses that leave it in order.

Only model-checked: all liveness (`EveryRequestAnswered` and
`EveryReleaseAnswered` of Agps, `EveryMessageEnds`, `DestroyEnds`,
`EveryTimerEnds`, `AskedUntilStopped`, `EverySavedRequestEnds`, `CapabilitiesHeard`),
since temporal reasoning with fairness and ENABLED is out of TLAPS's reach here;
everything about `Batching`, whose invariants hold until two pieces of work on trips
overlap, as the history of `MCBatching` tells; and
`DistanceSessionsAgree` of `Tracking`, which holds for one update at a time only, so that an
invariant for it has to tell apart every stage of one switch between the kinds.

## Where code and documentation disagree

Each of these properties is stated in its module and fails with the configuration
named; they are kept out of the list of runs for its length.

* `AgpsOrphan.cfg`, `NoConnectionLeftUp` (`Agps.cpp:133,176`): the framework's answer
  to an abandoned request is taken for the answer to the next one; the close behind it
  ends the machine, and the connection of the current request stays up for nobody.
* `TrackingPower.cfg`, `ModemPowerEnough` (`GnssAdapter.cpp:2466,2485`): when only the
  interval changes, the modem is restarted in the power mode of the session with the
  smallest interval.
* `TrackingResurrect.cfg`, `StoppedStaysStopped` (`GnssAdapter.cpp:2634`): a session
  stopped while its switch from distance-based to time-based tracking is under way
  comes back.
* `TrackingOverlap.cfg`, `ModemRunsHeldSessions` (`GnssAdapter.cpp:2650-2667`): of two
  updates of one session that overlap, the answer to the first puts the session
  into the table of a kind that the second has left.
* `LocTimerEarly.cfg`, `NeverEarly` (`LocTimer.cpp:368-370`): a timer fires before its
  time, popped by the expiry of another that was stopped, or restarted while expiring.
* `LocTimerDeadClient.cfg`, `NoDeadClient` (`LocTimer.cpp:492,530`): a client deleted
  after `expire()` read its pointer is stopped and called back.
* `BatchingLate.cfg`, `NeverLate` (`BatchingAdapter.cpp:950`): when the trip that fixed
  the batch's length is stopped, another is reported late by what it had covered.
* `NiLateAnswer.cfg`, `UserDecides` (`GnssAdapter.cpp:3775`): the user's answer is
  stored after the waiting thread timed out and reset the flag "for the next
  session", and answers the next request.
* `NiUnnamed.cfg`, `UserDecidesUnlessLate` (`GnssAdapter.cpp:3798` and `3868`): two
  requests in a row are shown with the ID 0, because the thread before cleared the ID
  between its setting and its reading; the answer to the first, which had timed out,
  is given to the second. This and the one before are why `UserDecidesInTime` is what is
  checked and proved.
* `ClientUnanswered.cfg`, `EachResponseFindsItsRequest` (`BatchingAdapter.cpp:353` against
  `LocationAPI.h:99-104`, which names the errors that `startBatching` answers with): a start
  of batching that fails its checks is not answered, and the next session's response is
  given to its request. The second response to an update (`BatchingAdapter.cpp:531` and
  `401`) does the same to a request that waits: after an update of one session the stop of
  another removes the first, which goes on.
* `Odcpi`, `NoSpam` (`GnssAdapter.cpp:3976-3978`; add it to `Odcpi.cfg`): the expiry of a
  timer that an emergency restarted asks the framework again at once.

Others were seen with TLC, or by reading, while modelling and have no run:

* `MsgTask.cpp:69` against `LocThread.h:75`: `destroy()` writes to the task after the
  unblocking that lets a worker delete it (`MsgTaskOther.cfg`, `OwnerUsesLiveTask`).
  The one caller, `~LocApiBase` (`LocApiBase.h:128`), runs in a message the task's own
  thread handles, which cannot leave before `destroy()` returns; `TaskDeletedAfterUse`
  covers the write there.
* `LocThread.cpp:183`: a task that is stopped before its new thread reads
  `mRunnable` is not deleted, though `LocThread.h:75` says LocThread deletes it.
  With a detached thread `stop()` does not clear the pointer; with a joinable one it
  does, and `TaskDeletedAfterUse` is checked for the detached kind, the only one in
  use.
* `GnssAdapter.cpp:4379-4383`: an unusable APN is reported as a release, which a
  `PENDING` machine ignores; its subscribers get no answer. `GnssAdapter.cpp:4847`: a
  result without an APN is dropped, a refusal too, with the same effect.
  `agps_answers` leaves these two outcomes out; `agps_hostile` has them.
* `Agps.h:196`: "Drop all subscribers, in case of Modem SSR": `handleModemSSR` is
  called by nothing. A restart leaves the subscribers of the lost handles in the
  machines, and their connection up; no property says otherwise.
* `GnssAdapter.cpp:2501` against `LocationAPI.h:69`: a session that joins a start
  still under way is told SUCCESS; if that start fails it is left without tracking.
* `GnssAdapter.cpp:2034` against `LocationAPI.h:46`: the time-based sessions of a
  removed client are stopped but stay in the table. `tracking_time` has no removals
  for this reason; `tracking_distance` has them.
* `GnssAdapter.cpp:2410` against `LocationAPI.h:71`: a start without callbacks is
  dropped; CALLBACK_MISSING is not reported.
* `GnssAdapter.cpp:2607`: an update to distance-based tracking, where unsupported,
  stops the modem's session although the time-based one is kept.
* Failures: a failed start queued before an update, a failed stop, a failed update
  of a stopped session leave the modem and the tables apart. `tracking_time` and
  `tracking_distance` therefore have no failures of an engine that is up; they have
  those of one that is down.
* NI sessions: a request whose thread cannot be created (`GnssAdapter.cpp:3878`) is shown,
  never ends and blocks its session;
  the user's answer to an ignored request can be replaced by the timeout;
  the thread of an ended request clears `reqID` and `respTimeLeft` of the next
  (`GnssAdapter.cpp:3798`), whose user is then refused or has no time; without a client
  an ordinary request is neither answered nor freed.
* Geofences: a failed resume is never answered and a failed modification is reported
  as SUCCESS (the properties leave both out, as `refused`); a request whose last
  geofence the adapter does not know is answered at once and its arrays deleted under
  the calls still out (left out, as `unknown`); a removal that overtakes the answer of
  the addition leaves the geofence in the modem; a paused geofence restored after a
  restart is running in the adapter's table and paused or not in the modem
  (`AdapterMatchesModem` allows for it); geofences of a removed client stay in the maps.
* Batching: a trip that joins others is not saved in `mBatchingSessions`, and
  completed trips stay there; a trip that ends while its stop is under way is looked up and not found; the
  client whose completed trip stayed saved takes another client's batch with it when
  removed; restarts that overlap leave distance and interval other than the modem's.
* LocationAPIClientBase: a failed start of tracking leaves `mTracking` set, so that later
  starts are refused with SUCCESS; a second stop leaves a request that removes the
  next session; a trip that ends takes a response with it and shifts the shared queue,
  and a change of kind whose stop fails leaves a session running without a name
  (`lost` in `ClientRequests`); a trip that ends between `hasId` and `getExtById` leaves an
  id with session 0; a switch between tracking and batching whose start fails leaves
  the id known and not running; network-initiated requests share numbers with tracking
  sessions, whose queue is asked first; clients are told of a stop before its session is
  removed, so that a start from the callback is refused.
* `LocationAPI.h:49-51` promises that callbacks end with `destroyCompleteCb`. A client
  that gave up all callbacks of an adapter by `updateCallbacks` stays in that adapter's
  table when it is destroyed, as `destroy` asks the last callbacks only
  (`LocationAPI.cpp:237`); `ForgottenOnceTold` excepts it (`dropped`). Shipped clients
  use one adapter each and drop none.
* `LocationAPIClientBase.cpp:320` destroys without a callback: the object is never
  deleted, and callbacks reach the deleted client until its removal is handled.
* `LocAdapterBase.cpp:52` and `LocApiBase.cpp:121`: an adapter announced while it is
  constructed, or whose first open fails, is not told of the engine until the modem
  restarts, as later opens tell nobody; requests for capabilities wait with it.
* Control client: responses to configuration requests match no queue, since
  `setSessionArrayPtr` is never called.
* `LocationAPIClientBase.cpp:802`,
  `locAPIRemoveAllGeofences` passes sessions where `locAPIRemoveGeofences` looks up
  client ids; and its modify call closes the gaps of unknown ids in the sessions
  but not in the options that go with them (707-715).
* `LocTimer.cpp:291,345`: removing the last timer leaves the timerfd armed, so the
  device wakes once for nothing.

## What is not covered

`PROJECT.json` lists every component with its status. Conversions (NMEA, HIDL
types, data items, calibration arithmetic), configuration files, logging and
drivers are left out because no property here depends on them. The vendor's LocApi
library, the Synergy library, the magnetometer library and the kernel are not in
the repository; the first is modelled as far as the adapters need it.

Of what is modelled in part: `GnssAdapter`'s control, configuration and reports;
of LocationAPI, the control client and calls passed on; the removal of adapters from
`LocApiBase` (nothing calls it) and its reports; of `BatchingAdapter`, `getBatchedLocations`, `reportLocations`,
the event mask and the configuration file; LocHeap's tree.

Of 82,407 lines of implementation the map covers a few percent. Most of the rest is
headers of constants and structures, parsing and formatting, translation between
interfaces, and sensor drivers; the share of the code that keeps state between calls
of several actors, which is what a model checker is for, is much smaller, and the
location stack's part of it is what these modules are about.

Data races are not explored as such: in `Agps`, the framework's direct call with
an unusable APN is one atomic step; in `LocTimer`, `NiSessions` and
`ClientRequests`, unlocked accesses are steps of their own.

## Plan

Done: the modules above. Next, in this order:

1. `DistanceSessionsAgree` of `Tracking` as a theorem; then the types of `Batching` and
   `TripBatchAsKept`.
2. GnssAdapter's enable and disable, with the power vote.
3. `LocHeap` as a tree, shown to be the set with a top that `LocTimer` uses.
4. `SystemStatusOsObserver`; light, power and sensor HALs.
5. An abstract specification of requests that carry their identity, which
   `ClientRequests` implements for the clients described above.

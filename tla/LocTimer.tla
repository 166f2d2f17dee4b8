------------------------------ MODULE LocTimer ------------------------------
(***************************************************************************)
(* Timers of the location stack (gps/utils/LocTimer.cpp).  LocTimer        *)
(* objects of any threads share one timerfd: a container keeps a heap of   *)
(* LocTimerDelegates, one per running timer, and sets the timerfd to the   *)
(* soonest.  The heap is touched on one MsgTask's thread only; a polling   *)
(* thread waits for the timerfd and posts the expiry to that MsgTask.  A   *)
(* step is what a thread does between two points another thread can see.   *)
(* The containers of timers and of alarms work alike; this is one of them. *)
(***************************************************************************)
EXTENDS Naturals, Sequences

CONSTANTS
    Client,         \* LocTimer objects
    None,
    Delay,          \* values of timeOutInMs
    MaxStarts,      \* bound: calls of start() that make a delegate
    MaxTime         \* bound: the clock stops here

Delegate == 1..MaxStarts

ASSUME TimerAssumption ==
    /\ None \notin Client \union Delegate \union Nat
    /\ Delay \subseteq Nat \ {0}
    /\ MaxStarts \in Nat /\ MaxTime \in Nat

VARIABLES
    now,            \* CLOCK_BOOTTIME
    alive,          \* the LocTimer objects not yet deleted
    mTimer,         \* of each LocTimer: its delegate, or None
    mClient,        \* of each delegate: its LocTimer, or None
    mFutureTime,    \* of each delegate
    fate,           \* of each delegate: "unborn", "ticking", "stopped", "fired"
    deleted,        \* the delegates deleted
    heap, top,      \* the delegates in the container, and their highest ranking
    msgs,           \* messages of the MsgTask
    armed,          \* the time the timerfd is set to, or None
    polled,         \* the timerfd is in the epoll set
    poll,           \* program counter of the polling thread
    task,           \* program counter of the MsgTask's thread
    popped, client, \* its timer and client in expire()
    timerOfNow

clientVars == <<alive, mTimer, mClient, fate>>
heapVars == <<heap, top>>
fdVars == <<armed, polled>>
taskVars == <<task, popped, client, timerOfNow>>
vars == <<now, clientVars, mFutureTime, deleted, heapVars, msgs, fdVars, poll, taskVars>>

Init ==
    /\ now = 0 /\ alive = Client
    /\ mTimer = [c \in Client |-> None]
    /\ mClient = [d \in Delegate |-> None]
    /\ mFutureTime = [d \in Delegate |-> 0]
    /\ fate = [d \in Delegate |-> "unborn"] /\ deleted = {}
    /\ heap = {} /\ top = None
    /\ msgs = <<>>
    /\ armed = None /\ polled = FALSE
    /\ poll = "wait"
    /\ task = "idle" /\ popped = None /\ client = None /\ timerOfNow = 0

Msg(kind, d) == [kind |-> kind, d |-> d]

-----------------------------------------------------------------------------
(* The clients; start and stop hold the lock a timer shares with its delegate *)

Start(c, d, delay) ==
    /\ c \in alive /\ mTimer[c] = None
    /\ fate[d] = "unborn" /\ \A e \in Delegate : fate[e] = "unborn" => d <= e
    /\ now + delay <= MaxTime
    /\ mTimer' = [mTimer EXCEPT ![c] = d]
    /\ mClient' = [mClient EXCEPT ![d] = c]
    /\ mFutureTime' = [mFutureTime EXCEPT ![d] = now + delay]
    /\ fate' = [fate EXCEPT ![d] = "ticking"]
    /\ msgs' = Append(msgs, Msg("push", d))
    /\ UNCHANGED <<now, alive, deleted, heapVars, fdVars, poll, taskVars>>

\* mutant: the container is not told
StopAsQuietly(c, end) ==
    LET d == mTimer[c]
    IN  /\ mTimer' = [mTimer EXCEPT ![c] = None]
        /\ mClient' = [mClient EXCEPT ![d] = None]
        /\ fate' = [fate EXCEPT ![d] = end]
        /\ UNCHANGED msgs

\* LocTimer::stop with LocTimerDelegate::destroyLocked, on a running timer
StopAs(c, end) ==
    LET d == mTimer[c]
    IN  /\ mTimer' = [mTimer EXCEPT ![c] = None]
        /\ mClient' = [mClient EXCEPT ![d] = None]
        /\ fate' = [fate EXCEPT ![d] = end]
        /\ msgs' = Append(msgs, Msg("remove", d))

Stop(c) ==
    /\ c \in alive /\ mTimer[c] # None
    /\ StopAs(c, "stopped")
    /\ UNCHANGED <<now, alive, mFutureTime, deleted, heapVars, fdVars, poll, taskVars>>

\* ~LocTimer
Delete(c) ==
    /\ c \in alive /\ alive' = alive \ {c}
    /\ \/ mTimer[c] # None /\ StopAs(c, "stopped")
       \/ mTimer[c] = None /\ UNCHANGED <<mTimer, mClient, fate, msgs>>
    /\ UNCHANGED <<now, mFutureTime, deleted, heapVars, fdVars, poll, taskVars>>

Tick ==
    /\ now < MaxTime /\ now' = now + 1
    /\ UNCHANGED <<clientVars, mFutureTime, deleted, heapVars, msgs, fdVars, poll, taskVars>>

-----------------------------------------------------------------------------
(* The heap.  Among timers of the same time any may come to the top. *)

HighestOf(S, d) == d \in S /\ \A e \in S : mFutureTime[d] <= mFutureTime[e]

\* LocHeap::push: a timer of the same time does not displace the top
Push(d) ==
    /\ heap' = heap \union {d}
    /\ top' = IF top = None \/ mFutureTime[d] < mFutureTime[top] THEN d ELSE top

\* LocHeap::remove and, of the top, LocHeap::pop
Remove(d) ==
    /\ heap' = heap \ {d}
    /\ \/ d # top /\ UNCHANGED top
       \/ d = top /\ heap = {d} /\ top' = None
       \/ d = top /\ \E e \in heap \ {d} : HighestOf(heap \ {d}, e) /\ top' = e

-----------------------------------------------------------------------------
(* The MsgTask's thread *)

Take(kind) ==
    /\ task = "idle" /\ msgs # <<>>
    /\ Head(msgs).kind = kind
    /\ msgs' = Tail(msgs)

\* mutant: a sooner timer does not change the timerfd
PushQuietly ==
    /\ Take("push")
    /\ Push(Head(msgs).d)
    /\ task' = IF top = None THEN "addPoll" ELSE "idle"
    /\ UNCHANGED <<now, clientVars, mFutureTime, deleted, fdVars, poll, popped, client, timerOfNow>>

MsgTimerPush ==
    /\ Take("push")
    /\ Push(Head(msgs).d)
    /\ task' = IF top' # top THEN "addPoll" ELSE "idle"
    /\ UNCHANGED <<now, clientVars, mFutureTime, deleted, fdVars, poll, popped, client, timerOfNow>>

\* The timerfd is set anew only if the top was removed, and left alone if
\* the heap is empty.
MsgTimerRemove ==
    /\ Take("remove")
    /\ Remove(Head(msgs).d)
    /\ task' = IF Head(msgs).d = top /\ top' # None THEN "addPoll" ELSE "idle"
    /\ deleted' = deleted \union {Head(msgs).d}
    /\ UNCHANGED <<now, clientVars, mFutureTime, fdVars, poll, popped, client, timerOfNow>>

\* updateSoonestTime: the timerfd is polled again, then set
AddPoll ==
    /\ task = "addPoll" /\ task' = "setTime"
    /\ polled' = TRUE
    /\ UNCHANGED <<now, clientVars, mFutureTime, deleted, heapVars, msgs, armed, poll,
                   popped, client, timerOfNow>>

SetTime ==
    /\ task = "setTime" /\ task' = "idle"
    /\ armed' = mFutureTime[top]
    /\ UNCHANGED <<now, clientVars, mFutureTime, deleted, heapVars, msgs, polled, poll,
                   popped, client, timerOfNow>>

\* The first timer is popped whatever its time is.
MsgTimerExpire ==
    /\ Take("expire")
    /\ timerOfNow' = now
    /\ \/ /\ top # None
          /\ Remove(top) /\ popped' = top /\ task' = "expire"
       \/ /\ top = None /\ task' = "idle"
          /\ UNCHANGED <<heapVars, popped>>
    /\ UNCHANGED <<now, clientVars, mFutureTime, deleted, fdVars, poll, client>>

\* LocTimerDelegate::expire reads mClient without the lock.
Expire ==
    /\ task = "expire"
    /\ client' = mClient[popped]
    /\ task' = IF client' = None THEN "next" ELSE "stop"
    /\ UNCHANGED <<now, clientVars, mFutureTime, deleted, heapVars, msgs, fdVars, poll,
                   popped, timerOfNow>>

\* mutant: the delegate is deleted where its timer expires
ExpireStopDeleting ==
    /\ task = "stop"
    /\ \/ /\ client \in alive /\ mTimer[client] # None
          /\ StopAs(client, "fired")
          /\ deleted' = deleted \union {popped}
          /\ task' = "callback"
       \/ /\ ~ (client \in alive /\ mTimer[client] # None)
          /\ task' = "next"
          /\ UNCHANGED <<mTimer, mClient, fate, msgs, deleted>>
    /\ UNCHANGED <<now, alive, mFutureTime, heapVars, fdVars, poll, popped, client, timerOfNow>>

\* client->stop(): somebody else may have stopped it by now, or have deleted
\* the client (then nothing is the harmless one of the possible outcomes).
ExpireStop ==
    /\ task = "stop"
    /\ \/ /\ client \in alive /\ mTimer[client] # None
          /\ StopAs(client, "fired")
          /\ task' = "callback"
       \/ /\ ~ (client \in alive /\ mTimer[client] # None)
          /\ task' = "next"
          /\ UNCHANGED <<mTimer, mClient, fate, msgs>>
    /\ UNCHANGED <<now, alive, mFutureTime, deleted, heapVars, fdVars, poll,
                   popped, client, timerOfNow>>

\* client->timeOutCallback()
TimeOutCallback ==
    /\ task = "callback" /\ task' = "next"
    /\ UNCHANGED <<now, clientVars, mFutureTime, deleted, heapVars, msgs, fdVars, poll,
                   popped, client, timerOfNow>>

\* mutant: the timerfd is not set again for the timers that are left
ExpireNextForgetting ==
    /\ task = "next"
    /\ IF top # None /\ mFutureTime[top] <= timerOfNow
       THEN Remove(top) /\ popped' = top /\ task' = "expire"
       ELSE UNCHANGED heapVars /\ popped' = None /\ task' = "idle"
    /\ client' = None
    /\ UNCHANGED <<now, clientVars, mFutureTime, deleted, msgs, fdVars, poll, timerOfNow>>

\* popIfOutRanks: every other timer is popped only if its time has come
ExpireNext ==
    /\ task = "next"
    /\ \/ /\ top # None /\ mFutureTime[top] <= timerOfNow
          /\ Remove(top) /\ popped' = top /\ task' = "expire"
       \/ /\ top # None /\ mFutureTime[top] > timerOfNow
          /\ task' = "addPoll" /\ popped' = None
          /\ UNCHANGED heapVars
       \/ /\ top = None
          /\ task' = "idle" /\ popped' = None
          /\ UNCHANGED heapVars
    /\ client' = None
    /\ UNCHANGED <<now, clientVars, mFutureTime, deleted, msgs, fdVars, poll, timerOfNow>>

TaskNext ==
    \/ MsgTimerPush \/ MsgTimerRemove \/ MsgTimerExpire
    \/ AddPoll \/ SetTime
    \/ Expire \/ ExpireStop \/ TimeOutCallback \/ ExpireNext

-----------------------------------------------------------------------------
(* The polling thread: LocTimerPollTask::run and LocTimerContainer::expire *)

Poll(from, to) == poll = from /\ poll' = to

\* epoll_wait returns: the timerfd is never read, so it stays readable.
Wakeup ==
    /\ Poll("wait", "disarm")
    /\ polled /\ armed # None /\ armed <= now
    /\ UNCHANGED <<now, clientVars, mFutureTime, deleted, heapVars, msgs, fdVars, taskVars>>

Disarm ==
    /\ Poll("disarm", "removePoll")
    /\ armed' = None
    /\ UNCHANGED <<now, clientVars, mFutureTime, deleted, heapVars, msgs, polled, taskVars>>

RemovePoll ==
    /\ Poll("removePoll", "post")
    /\ polled' = FALSE
    /\ UNCHANGED <<now, clientVars, mFutureTime, deleted, heapVars, msgs, armed, taskVars>>

Post ==
    /\ Poll("post", "wait")
    /\ msgs' = Append(msgs, Msg("expire", None))
    /\ UNCHANGED <<now, clientVars, mFutureTime, deleted, heapVars, fdVars, taskVars>>

PollNext == Wakeup \/ Disarm \/ RemovePoll \/ Post

Next ==
    \/ \E c \in Client, d \in Delegate, delay \in Delay : Start(c, d, delay)
    \/ \E c \in Client : Stop(c) \/ Delete(c)
    \/ Tick \/ TaskNext \/ PollNext

\* Both threads run on and time passes; clients need not do anything.
Fairness == WF_vars(TaskNext) /\ WF_vars(PollNext) /\ WF_vars(Tick)

Spec == Init /\ [][Next]_vars /\ Fairness

-----------------------------------------------------------------------------
(* Correctness *)

\* Every variable has its type.
TypeOK ==
    /\ now \in 0..MaxTime /\ alive \subseteq Client
    /\ mTimer \in [Client -> Delegate \union {None}]
    /\ mClient \in [Delegate -> Client \union {None}]
    /\ mFutureTime \in [Delegate -> 0..MaxTime]
    /\ fate \in [Delegate -> {"unborn", "ticking", "stopped", "fired"}]
    /\ deleted \subseteq Delegate /\ heap \subseteq Delegate
    /\ top \in heap \union {None} /\ (top = None <=> heap = {})
    /\ msgs \in Seq([kind : {"push", "remove", "expire"}, d : Delegate \union {None}])
    /\ armed \in 0..MaxTime \union {None} /\ polled \in BOOLEAN
    /\ poll \in {"wait", "disarm", "removePoll", "post"}
    /\ task \in {"idle", "addPoll", "setTime", "expire", "stop", "callback", "next"}
    /\ popped \in Delegate \union {None} /\ client \in Client \union {None}
    /\ timerOfNow \in 0..MaxTime

Posted(kind, d) == \E i \in DOMAIN msgs : msgs[i] = Msg(kind, d)

\* Nobody uses a delegate that was deleted: it is neither in the heap, nor
\* does a message or the thread that expires it still point to it
\* ("all timers are deleted here, and only here").
DelegatesLiveWhileUsed ==
    \A d \in deleted :
        /\ d \notin heap /\ ~ Posted("push", d) /\ ~ Posted("remove", d)
        /\ task \in {"expire", "stop", "callback", "next"} => popped # d

\* A running timer is in exactly one place: its message to the container, the
\* heap, or the hands of the thread that is about to expire it.
TickingTimersAreKept ==
    \A d \in Delegate :
        fate[d] = "ticking" <=>
            \/ Posted("push", d) /\ ~ Posted("remove", d)
            \/ d \in heap /\ ~ Posted("remove", d)
            \/ popped = d /\ task \in {"expire", "stop"} /\ mClient[d] # None

\* With no expiry under way the timerfd is polled, and set for the soonest
\* timer or sooner: no timer is slept through.
ArmedForSoonest ==
    heap # {} /\ poll = "wait" /\ ~ Posted("expire", None) /\ task = "idle" =>
        polled /\ armed # None /\ armed <= mFutureTime[top]

\* A timer that was started ends: it fires, unless its client stops it, and
\* its delegate is deleted.
EveryTimerEnds == \A d \in Delegate : fate[d] = "ticking" ~> d \in deleted

\* No timer fires before its time ("pop everything in the heap that outRanks
\* now, i.e. has time older than now and then call expire() on that timer").
NeverEarly ==
    [][\A d \in Delegate : fate[d] = "ticking" /\ fate'[d] = "fired" => mFutureTime[d] <= now]_vars

\* A client is not called back, nor stopped, after it was deleted ("so that
\* expire() won't call the callback on the dead handle any more").
NoDeadClient == task \in {"stop", "callback"} => client \in alive

=============================================================================

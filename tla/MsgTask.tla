------------------------------ MODULE MsgTask -------------------------------
(***************************************************************************)
(* A MsgTask (gps/utils/MsgTask.cpp): a thread that takes messages from a  *)
(* queue (msg_q.c over linked_list.c) and handles them, and its life and   *)
(* death under LocThread.cpp.  Every part of the location stack posts its  *)
(* work to one.  The owner creates the task and destroys it; any thread    *)
(* posts messages; the worker runs LocThreadDelegate::threadMain.  A step  *)
(* is what a thread does between two points another thread can see: a      *)
(* critical section of the queue's or the delegate's mutex, or one access  *)
(* to a shared field.                                                      *)
(***************************************************************************)
EXTENDS Naturals, Sequences

CONSTANTS
    Message,        \* messages, each posted at most once
    None,           \* no message
    Joinable,       \* the values of the constructor's joinable argument
    Callers,        \* who destroys the task: its own thread, or another
    ThreadMayFail   \* may pthread_create fail?

ASSUME TaskAssumption ==
    /\ None \notin Message
    /\ Joinable \subseteq BOOLEAN /\ ThreadMayFail \in BOOLEAN
    /\ Callers \subseteq {"self", "other"}

VARIABLES
    list,           \* msg_list of the queue, oldest message first
    unblocked,      \* the queue's flag
    wake,           \* the condition variable was signalled
    current,        \* the message the worker handles
    late,           \* a message was taken from the unblocked queue
    fate,           \* what became of each message
    mRunnable,      \* the delegate's pointer to the task is set
    mRefCount,
    mThread,        \* the task's pointer to its thread is set
    thread,         \* destroy()'s own copy of that pointer
    caller,         \* the thread that runs destroy()
    taskAlive, delegateAlive,    \* not yet deleted
    owner, worker   \* program counters

queueVars == <<list, unblocked, wake, current, late, fate>>
ownerVars == <<mThread, thread, caller>>
threadVars == <<mRunnable, mRefCount, ownerVars, taskAlive, delegateAlive>>
vars == <<queueVars, threadVars, owner, worker>>

Init ==
    /\ list = <<>> /\ unblocked = FALSE /\ wake = FALSE
    /\ current = None /\ late = FALSE
    /\ fate = [m \in Message |-> "new"]
    /\ mRunnable = FALSE /\ mRefCount = 0 
    /\ mThread = FALSE /\ thread = FALSE /\ caller = "none"
    /\ taskAlive = TRUE /\ delegateAlive = FALSE
    /\ owner = "create" /\ worker = "none"

Owner(from, to) == owner = from /\ owner' = to
Worker(from, to) == worker = from /\ worker' = to

-----------------------------------------------------------------------------
(* Posting a message *)

\* mutant: the message is queued but the condition variable not signalled
SndSilently(m) ==
    /\ taskAlive /\ owner # "create" /\ fate[m] = "new" /\ ~ unblocked
    /\ list' = Append(list, m)
    /\ fate' = [fate EXCEPT ![m] = "queued"]
    /\ UNCHANGED <<unblocked, wake, current, late, threadVars, owner, worker>>

\* mutant: the message goes to the wrong end of the list
SndInFront(m) ==
    /\ taskAlive /\ owner # "create" /\ fate[m] = "new" /\ ~ unblocked
    /\ list' = <<m>> \o list
    /\ fate' = [fate EXCEPT ![m] = "queued"]
    /\ wake' = TRUE
    /\ UNCHANGED <<unblocked, current, late, threadVars, owner, worker>>

\* msg_q_snd.  sendMsg ignores its result: a rejected message is never freed.
Snd(m) ==
    /\ taskAlive /\ owner # "create" /\ fate[m] = "new"
    /\ \/ /\ unblocked
          /\ fate' = [fate EXCEPT ![m] = "rejected"]
          /\ UNCHANGED <<list, wake>>
       \/ /\ ~ unblocked
          /\ list' = Append(list, m)
          /\ fate' = [fate EXCEPT ![m] = "queued"]
          /\ wake' = TRUE
    /\ UNCHANGED <<unblocked, current, late, threadVars, owner, worker>>

-----------------------------------------------------------------------------
(* The worker: threadMain and MsgTask::run *)

\* linked_list_remove: the oldest message, if there is one
Remove ==
    /\ list # <<>>
    /\ worker' = "handle"
    /\ list' = Tail(list)
    /\ current' = Head(list)
    /\ late' = unblocked
    /\ fate' = [fate EXCEPT ![Head(list)] = "handling"]
    /\ UNCHANGED <<unblocked, wake, threadVars, owner>>

\* msg_q_rcv fails and run() returns false
RcvFails ==
    /\ worker' = "leave"
    /\ UNCHANGED <<queueVars, threadVars, owner>>

\* pthread_cond_wait
Wait ==
    /\ worker' = "wait"
    /\ wake' = FALSE
    /\ UNCHANGED <<list, unblocked, current, late, fate, threadVars, owner>>

\* threadMain reads mRunnable; a task that was stopped before is left alone
Main ==
    /\ worker = "main"
    /\ worker' = IF mRunnable THEN "loop" ELSE "drop"
    /\ UNCHANGED <<queueVars, threadVars, owner>>

\* while (isRunning() && run())
Loop ==
    /\ worker = "loop"
    /\ worker' = IF mRunnable THEN "receive" ELSE "leave"
    /\ UNCHANGED <<queueVars, threadVars, owner>>

Receive ==
    /\ worker = "receive"
    /\ \/ unblocked /\ RcvFails
       \/ ~ unblocked /\ Remove
       \/ ~ unblocked /\ list = <<>> /\ Wait

\* the condition variable lets the worker go: a waiter that was signalled
Wakeup ==
    /\ worker = "wait" /\ wake
    /\ \/ Remove
       \/ list = <<>> /\ unblocked /\ RcvFails
       \/ list = <<>> /\ ~ unblocked /\ Wait

\* proc() returns and the message is deleted; one that runs destroy() returns
\* when that is through
Handle ==
    /\ Worker("handle", "loop")
    /\ caller = "self" => owner = "gone"
    /\ fate' = [fate EXCEPT ![current] = "handled"]
    /\ current' = None
    /\ UNCHANGED <<list, unblocked, wake, late, threadVars, owner>>

Leave ==
    /\ Worker("leave", "free")
    /\ mRunnable' = FALSE
    /\ UNCHANGED <<queueVars, mRefCount, ownerVars, taskAlive, delegateAlive, owner>>

\* ~MsgTask: msg_q_flush and msg_q_destroy
DeleteTask ==
    /\ taskAlive' = FALSE
    /\ list' = <<>>
    /\ fate' = [m \in Message |-> IF fate[m] = "queued" THEN "flushed" ELSE fate[m]]
    /\ UNCHANGED <<unblocked, wake, current, late>>

\* delete runnable
Free ==
    /\ Worker("free", "drop")
    /\ DeleteTask
    /\ UNCHANGED <<mRunnable, mRefCount, ownerVars, delegateAlive, owner>>

\* mutant: whoever comes first deletes the delegate
DestroyAtOnce == mRefCount' = mRefCount - 1 /\ delegateAlive' = FALSE

\* LocThreadDelegate::destroy: the last of the two to call it deletes
Destroy ==
    /\ mRefCount' = mRefCount - 1
    /\ delegateAlive' = (mRefCount # 1)

Exit ==
    /\ Worker("drop", "done")
    /\ Destroy
    /\ UNCHANGED <<queueVars, mRunnable, ownerVars, taskAlive, owner>>

WorkerNext == Main \/ Loop \/ Receive \/ Wakeup \/ Handle \/ Leave \/ Free \/ Exit

-----------------------------------------------------------------------------
(* The owner *)

\* the constructor: LocThread::start makes a delegate and its thread, or
\* drops the delegate if there is no thread
Create ==
    /\ Owner("create", "own")
    /\ \/ /\ mThread' = TRUE /\ mRunnable' = TRUE
          /\ mRefCount' = 2 /\ delegateAlive' = TRUE
          /\ worker' = "main"
       \/ /\ ThreadMayFail
          /\ UNCHANGED <<mThread, mRunnable, mRefCount, delegateAlive, worker>>
    /\ UNCHANGED <<queueVars, thread, caller, taskAlive>>

\* destroy() is called, by the thread c, and copies the pointer
Call(c) ==
    /\ c = "self" => worker = "handle"
    /\ caller' = c
    /\ thread' = mThread
    /\ UNCHANGED <<mRunnable, mRefCount, mThread, taskAlive, delegateAlive>>

\* mutant: the waiting worker is not woken
UnblockSilently ==
    /\ Owner("own", "clear")
    /\ unblocked' = TRUE
    /\ \E c \in Callers : Call(c)
    /\ UNCHANGED <<list, wake, current, late, fate, worker>>

\* MsgTask::destroy, first msg_q_unblock
Unblock ==
    /\ Owner("own", "clear")
    /\ unblocked' = TRUE
    /\ wake' = TRUE
    /\ \E c \in Callers : Call(c)
    /\ UNCHANGED <<list, current, late, fate, worker>>

\* mutant: the task is deleted although its thread may still run it
ClearDeleting ==
    /\ owner = "clear"
    /\ owner' = IF thread THEN "bye" ELSE "gone"
    /\ mThread' = FALSE
    /\ DeleteTask
    /\ UNCHANGED <<mRunnable, mRefCount, thread, caller, delegateAlive, worker>>

\* then mThread = NULL, in a task the worker may have deleted by now, or
\* delete this if there is no thread
Clear ==
    /\ owner = "clear"
    /\ \/ thread /\ owner' = "bye" /\ mThread' = FALSE /\ UNCHANGED <<queueVars, taskAlive>>
       \/ ~ thread /\ owner' = "gone" /\ DeleteTask /\ UNCHANGED mThread
    /\ UNCHANGED <<mRunnable, mRefCount, thread, caller, delegateAlive, worker>>

\* delete thread: LocThreadDelegate::bye, the first to look at the argument
Bye ==
    /\ owner = "bye"
    /\ \/ /\ TRUE \in Joinable
          /\ owner' = "join"
          /\ mRunnable' = FALSE
       \/ /\ FALSE \in Joinable
          /\ owner' = "drop"
          /\ UNCHANGED mRunnable
    /\ UNCHANGED <<queueVars, mRefCount, ownerVars, taskAlive, delegateAlive, worker>>

\* pthread_join, which fails at once on the thread itself
Join ==
    /\ Owner("join", "drop")
    /\ worker = "done" \/ caller = "self"
    /\ UNCHANGED <<queueVars, threadVars, worker>>

Drop ==
    /\ Owner("drop", "gone")
    /\ Destroy
    /\ UNCHANGED <<queueVars, mRunnable, ownerVars, taskAlive, worker>>

OwnerNext == Create \/ Unblock \/ Clear \/ Bye \/ Join \/ Drop

Next == WorkerNext \/ OwnerNext \/ \E m \in Message : Snd(m)

\* A thread that can run runs in the end; nobody has to destroy the task.
Fairness == WF_vars(WorkerNext) /\ WF_vars(Clear \/ Bye \/ Join \/ Drop)

Spec == Init /\ [][Next]_vars /\ Fairness

-----------------------------------------------------------------------------
(* Correctness *)

Fate == {"new", "queued", "handling", "handled", "flushed", "rejected"}

\* Every variable has its type.
TypeOK ==
    /\ list \in Seq(Message)
    /\ unblocked \in BOOLEAN /\ wake \in BOOLEAN /\ late \in BOOLEAN
    /\ current \in Message \union {None}
    /\ fate \in [Message -> Fate]
    /\ mRunnable \in BOOLEAN /\ mThread \in BOOLEAN /\ thread \in BOOLEAN
    /\ caller \in {"none", "self", "other"}
    /\ mRefCount \in 0..2
    /\ taskAlive \in BOOLEAN /\ delegateAlive \in BOOLEAN
    /\ owner \in {"create", "own", "clear", "bye", "join", "drop", "gone"}
    /\ worker \in {"none", "main", "loop", "receive", "wait", "handle",
                   "leave", "free", "drop", "done"}

\* The owner and the worker each hold the delegate until they call destroy()
WorkerHolds == worker \notin {"none", "done"}
OwnerHolds  == (mThread \/ thread) /\ owner # "gone"

\* The delegate lives exactly as long as the owner or the worker may use it:
\* it is deleted once, by the last of the two to let go of it.
DelegateLivesWhileUsed == delegateAlive <=> (WorkerHolds \/ OwnerHolds)

\* A worker waits only for something to happen: no message and no unblocking
\* that came before or while it went to sleep is missed.
NoLostWakeup ==
    worker = "wait" /\ ~ wake => list = <<>> /\ ~ unblocked

\* A MsgTask is a message channel: it handles messages one at a time, in the
\* order it accepted them, and begins at most one more once unblocked.
Channel == INSTANCE MsgChannel
    WITH pending <- list, busy <- current, closed <- unblocked

ImplementsChannel == Channel!Spec

\* Destroying the task ends: the owner is not left in pthread_join.
DestroyEnds == owner = "clear" ~> owner = "gone"

=============================================================================

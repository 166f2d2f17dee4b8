--------------------------- MODULE MsgTaskProofs ----------------------------
(***************************************************************************)
(* Proofs about MsgTask: the delegate is deleted by the last of the two    *)
(* that hold it, the task after its last use, no wakeup is lost, and a     *)
(* MsgTask implements a message channel.  The reference count counts its   *)
(* holders; a worker that sleeps has begun no message late; and it leaves  *)
(* only an unblocked queue.                                                *)
(***************************************************************************)
EXTENDS MCMsgTask, TLAPS

USE TaskAssumption

\* mRefCount is the number of those who have not yet called destroy().
RefCountInv ==
    /\ WorkerHolds /\ OwnerHolds => mRefCount = 2
    /\ (WorkerHolds /\ ~ OwnerHolds) \/ (~ WorkerHolds /\ OwnerHolds) => mRefCount = 1
    /\ ~ WorkerHolds /\ ~ OwnerHolds => mRefCount = 0

\* How the queue's flag and the program counters hang together.
QueueInv ==
    /\ worker = "none" <=> ~ (mThread \/ thread)
    /\ current = None <=> worker # "handle"
    /\ unblocked <=> owner \notin {"create", "own"}
    /\ owner \in {"bye", "join", "drop"} => thread
    /\ owner \in {"create", "own"} => ~ thread
    /\ mThread => thread \/ owner = "own"
    /\ worker # "none" /\ ~ mRunnable => unblocked
    /\ owner = "create" => ~ mThread
    /\ caller = "self" /\ owner # "gone" => worker = "handle"
    /\ worker \in {"leave", "free"} => unblocked
    /\ late => unblocked /\ worker # "wait"
    /\ NoLostWakeup

\* The types of the queue and of the threads.
QueueType ==
    /\ list \in Seq(Message)
    /\ unblocked \in BOOLEAN /\ wake \in BOOLEAN /\ late \in BOOLEAN
    /\ current \in Message \union {None}
    /\ fate \in [Message -> Fate]

ThreadType ==
    /\ mRunnable \in BOOLEAN /\ mThread \in BOOLEAN /\ thread \in BOOLEAN
    /\ caller \in {"none", "self", "other"}
    /\ mRefCount \in 0..2
    /\ taskAlive \in BOOLEAN /\ delegateAlive \in BOOLEAN
    /\ owner \in {"create", "own", "clear", "bye", "join", "drop", "gone"}
    /\ worker \in {"none", "main", "loop", "receive", "wait", "handle",
                   "leave", "free", "drop", "done"}

HolderInv == RefCountInv /\ DelegateLivesWhileUsed

IInv == QueueType /\ ThreadType /\ HolderInv /\ QueueInv

LEMMA InitInv == Init => IInv
<1>. SUFFICES ASSUME Init PROVE IInv
  OBVIOUS
<1>1. QueueType
  <2>1. fate \in [Message -> Fate]
    BY DEF Init, Fate
  <2>2. unblocked \in BOOLEAN /\ wake \in BOOLEAN /\ late \in BOOLEAN
    BY DEF Init
  <2>3. list \in Seq(Message) /\ current \in Message \union {None}
    BY DEF Init
  <2>. QED  BY ONLY <2>1, <2>2, <2>3 DEF QueueType
<1>2. ThreadType
  <2>1. /\ mRunnable \in BOOLEAN /\ mThread \in BOOLEAN
        /\ thread \in BOOLEAN /\ caller \in {"none", "self", "other"}
        /\ taskAlive \in BOOLEAN /\ delegateAlive \in BOOLEAN
    BY DEF Init
  <2>2. mRefCount \in 0..2 /\ owner = "create" /\ worker = "none"
    BY DEF Init
  <2>. QED  BY ONLY <2>1, <2>2 DEF ThreadType
<1>3. HolderInv
  <2>1. ~ WorkerHolds /\ ~ OwnerHolds /\ mRefCount = 0 /\ ~ delegateAlive
    BY DEF Init, WorkerHolds, OwnerHolds
  <2>. QED  BY ONLY <2>1 DEF HolderInv, RefCountInv, DelegateLivesWhileUsed
<1>4. QueueInv
  BY DEF Init, QueueInv, NoLostWakeup
<1>. QED  BY ONLY <1>1, <1>2, <1>3, <1>4 DEF IInv

\* A step in which neither the owner nor the worker lets go of the delegate.
LEMMA HoldersSame ==
    ASSUME HolderInv, UNCHANGED <<mRefCount, delegateAlive>>,
           WorkerHolds' <=> WorkerHolds, OwnerHolds' <=> OwnerHolds
    PROVE  HolderInv'
  BY DEF HolderInv, RefCountInv, DelegateLivesWhileUsed

\* A step in which one of the two calls destroy().
LEMMA DestroyStep ==
    ASSUME HolderInv, ThreadType, Destroy,
           \/ WorkerHolds /\ ~ WorkerHolds' /\ (OwnerHolds' <=> OwnerHolds)
           \/ OwnerHolds /\ ~ OwnerHolds' /\ (WorkerHolds' <=> WorkerHolds)
    PROVE  HolderInv' /\ mRefCount' \in 0..2 /\ delegateAlive' \in BOOLEAN
<1>1. delegateAlive' \in BOOLEAN
  BY DEF Destroy
<1>2. CASE WorkerHolds /\ OwnerHolds
  <2>1. mRefCount = 2
    BY <1>2 DEF HolderInv, RefCountInv
  <2>2. mRefCount' = 1
    BY <2>1 DEF Destroy
  <2>3. delegateAlive'
    <3>1. mRefCount # 1
      BY <2>1
    <3>. QED  BY <3>1, Zenon DEF Destroy
  <2>4. (WorkerHolds' /\ ~ OwnerHolds') \/ (OwnerHolds' /\ ~ WorkerHolds')
    BY <1>2
  <2>5. HolderInv'
    BY ONLY <2>2, <2>3, <2>4 DEF HolderInv, RefCountInv, DelegateLivesWhileUsed
  <2>. QED  BY <1>1, <2>2, <2>5
<1>3. CASE ~ (WorkerHolds /\ OwnerHolds)
  <2>1. mRefCount = 1
    BY <1>3 DEF HolderInv, RefCountInv
  <2>2. mRefCount' = 0
    BY <2>1 DEF Destroy
  <2>3. ~ delegateAlive'
    BY <2>1, Zenon DEF Destroy
  <2>4. ~ WorkerHolds' /\ ~ OwnerHolds'
    BY <1>3
  <2>5. HolderInv'
    BY ONLY <2>2, <2>3, <2>4 DEF HolderInv, RefCountInv, DelegateLivesWhileUsed
  <2>. QED  BY <1>1, <2>2, <2>5
<1>. QED  BY <1>2, <1>3

\* The three ways out of msg_q_rcv.
LEMMA RemoveInv ==
    ASSUME IInv, (worker = "receive" /\ ~ unblocked) \/ worker = "wait", Remove
    PROVE  IInv'
<1>. USE DEF IInv
<1>1. Head(list) \in Message /\ Tail(list) \in Seq(Message)
  BY DEF Remove, QueueType
<1>2. QueueType'
  <2>1. fate' \in [Message -> Fate]
    BY DEF Remove, QueueType, Fate
  <2>. QED  BY <1>1, <2>1 DEF Remove, QueueType
<1>3. ThreadType'
  BY DEF Remove, ThreadType, threadVars, ownerVars
<1>4. HolderInv'
  BY HoldersSame DEF Remove, WorkerHolds, OwnerHolds, threadVars, ownerVars
<1>5. QueueInv'
  BY <1>1 DEF Remove, QueueInv, NoLostWakeup, QueueType, threadVars, ownerVars
<1>. QED  BY ONLY <1>2, <1>3, <1>4, <1>5 DEF IInv

LEMMA RcvFailsInv ==
    ASSUME IInv, worker \in {"receive", "wait"}, unblocked, RcvFails
    PROVE  IInv'
<1>. USE DEF IInv
<1>1. QueueType' /\ ThreadType'
  BY DEF RcvFails, QueueType, ThreadType, queueVars, threadVars, ownerVars
<1>2. HolderInv'
  BY HoldersSame DEF RcvFails, WorkerHolds, OwnerHolds, threadVars, ownerVars
<1>3. QueueInv'
  BY DEF RcvFails, QueueInv, NoLostWakeup, queueVars, threadVars, ownerVars
<1>. QED  BY ONLY <1>1, <1>2, <1>3 DEF IInv

LEMMA WaitInv ==
    ASSUME IInv, worker \in {"receive", "wait"}, list = <<>>, ~ unblocked, Wait
    PROVE  IInv'
<1>. USE DEF IInv
<1>1. QueueType' /\ ThreadType'
  BY DEF Wait, QueueType, ThreadType, threadVars, ownerVars
<1>2. HolderInv'
  BY HoldersSame DEF Wait, WorkerHolds, OwnerHolds, threadVars, ownerVars
<1>3. QueueInv'
  BY DEF Wait, QueueInv, NoLostWakeup, threadVars, ownerVars
<1>. QED  BY ONLY <1>1, <1>2, <1>3 DEF IInv

LEMMA WorkerStep ==
    ASSUME IInv, WorkerNext
    PROVE  IInv'
<1>. USE DEF IInv
<1>1. CASE Main \/ Loop
  <2>1. QueueType' /\ ThreadType'
    BY <1>1 DEF Main, Loop, QueueType, ThreadType, queueVars, threadVars, ownerVars
  <2>2. HolderInv'
    BY <1>1, HoldersSame DEF Main, Loop, WorkerHolds, OwnerHolds, threadVars, ownerVars
  <2>3. QueueInv'
    BY <1>1 DEF Main, Loop, QueueInv, NoLostWakeup, ThreadType, queueVars, threadVars, ownerVars
  <2>. QED  BY ONLY <2>1, <2>2, <2>3 DEF IInv
<1>2. CASE Receive
  <2>. HIDE DEF IInv
  <2>. QED  BY <1>2, RemoveInv, RcvFailsInv, WaitInv DEF Receive
<1>3. CASE Wakeup
  <2>. HIDE DEF IInv
  <2>. QED  BY <1>3, RemoveInv, RcvFailsInv, WaitInv DEF Wakeup
<1>4. CASE Handle
  <2>1. fate' \in [Message -> Fate]
    BY <1>4 DEF Handle, QueueType, Fate
  <2>2. QueueType' /\ ThreadType'
    BY <1>4, <2>1 DEF Handle, Worker, QueueType, ThreadType, threadVars, ownerVars
  <2>3. HolderInv'
    BY <1>4, HoldersSame DEF Handle, Worker, WorkerHolds, OwnerHolds, threadVars, ownerVars
  <2>4. QueueInv'
    BY <1>4 DEF Handle, Worker, QueueInv, NoLostWakeup, threadVars, ownerVars
  <2>. QED  BY ONLY <2>2, <2>3, <2>4 DEF IInv
<1>5. CASE Leave
  <2>1. QueueType' /\ ThreadType'
    BY <1>5 DEF Leave, Worker, QueueType, ThreadType, queueVars, ownerVars
  <2>2. HolderInv'
    BY <1>5, HoldersSame DEF Leave, Worker, WorkerHolds, OwnerHolds, ownerVars
  <2>3. QueueInv'
    BY <1>5 DEF Leave, Worker, QueueInv, NoLostWakeup, queueVars, ownerVars
  <2>. QED  BY ONLY <2>1, <2>2, <2>3 DEF IInv
<1>6. CASE Free
  <2>1. fate' \in [Message -> Fate]
    BY <1>6 DEF Free, DeleteTask, QueueType, Fate
  <2>2. QueueType' /\ ThreadType'
    <3>1. taskAlive' \in BOOLEAN
      BY <1>6 DEF Free, DeleteTask
    <3>2. list' \in Seq(Message)
      BY <1>6 DEF Free, DeleteTask
    <3>. QED  BY <1>6, <2>1, <3>1, <3>2 DEF Free, DeleteTask, Worker, QueueType, ThreadType, ownerVars
  <2>3. HolderInv'
    BY <1>6, HoldersSame DEF Free, Worker, WorkerHolds, OwnerHolds, ownerVars
  <2>4. QueueInv'
    BY <1>6 DEF Free, DeleteTask, Worker, QueueInv, NoLostWakeup, ownerVars
  <2>. QED  BY ONLY <2>2, <2>3, <2>4 DEF IInv
<1>7. CASE Exit
  <2>1. worker = "drop" /\ worker' = "done" /\ Destroy
    BY <1>7 DEF Exit, Worker
  <2>2. UNCHANGED <<queueVars, mRunnable, ownerVars, taskAlive, owner>>
    BY <1>7 DEF Exit
  <2>3. HolderInv' /\ mRefCount' \in 0..2 /\ delegateAlive' \in BOOLEAN
    BY <2>1, <2>2, DestroyStep DEF WorkerHolds, OwnerHolds, ownerVars
  <2>4. QueueType' /\ ThreadType'
    BY <2>1, <2>2, <2>3 DEF QueueType, ThreadType, queueVars, ownerVars
  <2>5. QueueInv'
    BY <2>1, <2>2 DEF QueueInv, NoLostWakeup, queueVars, ownerVars
  <2>. QED  BY ONLY <2>3, <2>4, <2>5 DEF IInv
<1>. QED  BY <1>1, <1>2, <1>3, <1>4, <1>5, <1>6, <1>7 DEF WorkerNext

LEMMA OwnerStep ==
    ASSUME IInv, OwnerNext
    PROVE  IInv'
<1>. USE DEF IInv
<1>1. CASE Create
  <2>1. owner = "create" /\ owner' = "own" /\ UNCHANGED <<queueVars, thread, caller, taskAlive>>
    BY <1>1 DEF Create, Owner
  <2>2. CASE UNCHANGED <<mThread, mRunnable, mRefCount, delegateAlive, worker>>
    <3>1. QueueType' /\ ThreadType'
      BY <2>1, <2>2 DEF QueueType, ThreadType, queueVars
    <3>2. HolderInv'
      BY <2>1, <2>2, HoldersSame DEF WorkerHolds, OwnerHolds
    <3>3. QueueInv'
      BY <2>1, <2>2 DEF QueueInv, NoLostWakeup, queueVars
    <3>. QED  BY ONLY <3>1, <3>2, <3>3 DEF IInv
  <2>3. CASE /\ mThread' = TRUE /\ mRunnable' = TRUE /\ mRefCount' = 2
             /\ delegateAlive' = TRUE /\ worker' = "main"
    <3>1. QueueType' /\ ThreadType'
      BY <2>1, <2>3 DEF QueueType, ThreadType, queueVars
    <3>2. HolderInv'
      <4>1. WorkerHolds' /\ OwnerHolds' /\ mRefCount' = 2 /\ delegateAlive'
        BY <2>1, <2>3 DEF WorkerHolds, OwnerHolds
      <4>. QED  BY ONLY <4>1 DEF HolderInv, RefCountInv, DelegateLivesWhileUsed
    <3>3. QueueInv'
      BY <2>1, <2>3 DEF QueueInv, NoLostWakeup, queueVars
    <3>. QED  BY ONLY <3>1, <3>2, <3>3 DEF IInv
  <2>. QED  BY <1>1, <2>2, <2>3 DEF Create
<1>2. CASE Unblock
  <2>1. /\ owner = "own" /\ owner' = "clear" /\ unblocked' = TRUE /\ wake' = TRUE
        /\ UNCHANGED <<list, current, late, fate, worker, mRunnable, mRefCount, mThread,
                       taskAlive, delegateAlive>>
        /\ thread' = mThread /\ caller' \in {"self", "other"}
        /\ caller' = "self" => worker = "handle"
    BY <1>2, TaskAssumption DEF Unblock, Owner, Call
  <2>2. QueueType' /\ ThreadType'
    BY <2>1 DEF QueueType, ThreadType
  <2>3. HolderInv'
    BY <2>1, HoldersSame DEF QueueInv, WorkerHolds, OwnerHolds
  <2>4. QueueInv'
    BY <2>1 DEF QueueInv, NoLostWakeup
  <2>. QED  BY ONLY <2>2, <2>3, <2>4 DEF IInv
<1>3. CASE Clear
  <2>1. owner = "clear" /\ UNCHANGED <<mRunnable, mRefCount, thread, caller, delegateAlive, worker>>
    BY <1>3 DEF Clear
  <2>2. HolderInv'
    <3>1. mThread => thread
      BY <2>1 DEF QueueInv
    <3>2. (thread /\ owner' = "bye") \/ (~ thread /\ mThread' = mThread)
      BY <1>3 DEF Clear
    <3>3. OwnerHolds' <=> OwnerHolds
      <4>1. CASE thread
        <5>1. OwnerHolds
          BY <2>1, <4>1 DEF OwnerHolds
        <5>2. owner' # "gone" /\ thread'
          BY <2>1, <3>2, <4>1
        <5>. QED  BY <5>1, <5>2 DEF OwnerHolds
      <4>2. CASE ~ thread
        <5>1. ~ mThread /\ ~ mThread' /\ ~ thread'
          BY <2>1, <3>1, <3>2, <4>2
        <5>. QED  BY <4>2, <5>1 DEF OwnerHolds
      <4>. QED  BY <4>1, <4>2
    <3>4. WorkerHolds' <=> WorkerHolds
      BY <2>1 DEF WorkerHolds
    <3>. QED  BY <2>1, <3>3, <3>4, HoldersSame
  <2>3. CASE thread /\ owner' = "bye" /\ mThread' = FALSE /\ UNCHANGED <<queueVars, taskAlive>>
    <3>1. QueueType' /\ ThreadType'
      BY <2>1, <2>3 DEF QueueType, ThreadType, queueVars
    <3>2. QueueInv'
      BY <2>1, <2>3 DEF QueueInv, NoLostWakeup, queueVars
    <3>. QED  BY ONLY <2>2, <3>1, <3>2 DEF IInv
  <2>4. CASE ~ thread /\ owner' = "gone" /\ DeleteTask /\ UNCHANGED mThread
    <3>1. fate' \in [Message -> Fate]
      BY <2>4 DEF DeleteTask, QueueType, Fate
    <3>2. taskAlive' \in BOOLEAN
      BY <2>4 DEF DeleteTask
    <3>3. list' = <<>> /\ UNCHANGED <<unblocked, wake, current, late>>
      BY <2>4 DEF DeleteTask
    <3>4. QueueType' /\ ThreadType'
      BY <2>1, <2>4, <3>1, <3>2, <3>3 DEF QueueType, ThreadType
    <3>5. QueueInv'
      BY <2>1, <2>4, <3>3 DEF QueueInv, NoLostWakeup
    <3>. QED  BY ONLY <2>2, <3>4, <3>5 DEF IInv
  <2>. QED  BY <1>3, <2>3, <2>4 DEF Clear
<1>4. CASE Bye
  <2>1. QueueType' /\ ThreadType'
    <3>1. mRunnable' \in BOOLEAN
      BY <1>4 DEF Bye, ThreadType
    <3>2. owner' \in {"join", "drop"} /\ UNCHANGED <<queueVars, mRefCount, ownerVars>>
      BY <1>4 DEF Bye
    <3>3. UNCHANGED <<taskAlive, delegateAlive, worker>>
      BY <1>4 DEF Bye
    <3>. QED  BY <3>1, <3>2, <3>3 DEF QueueType, ThreadType, queueVars, ownerVars
  <2>2. HolderInv'
    BY <1>4, HoldersSame DEF Bye, WorkerHolds, OwnerHolds, ownerVars
  <2>3. QueueInv'
    BY <1>4 DEF Bye, QueueInv, NoLostWakeup, queueVars, ownerVars
  <2>. QED  BY ONLY <2>1, <2>2, <2>3 DEF IInv
<1>5. CASE Join
  <2>1. QueueType' /\ ThreadType'
    BY <1>5 DEF Join, Owner, QueueType, ThreadType, queueVars, threadVars, ownerVars
  <2>2. HolderInv'
    BY <1>5, HoldersSame DEF Join, Owner, WorkerHolds, OwnerHolds, threadVars, ownerVars
  <2>3. QueueInv'
    BY <1>5 DEF Join, Owner, QueueInv, NoLostWakeup, queueVars, threadVars, ownerVars
  <2>. QED  BY ONLY <2>1, <2>2, <2>3 DEF IInv
<1>6. CASE Drop
  <2>1. owner = "drop" /\ owner' = "gone" /\ Destroy
    BY <1>6 DEF Drop, Owner
  <2>2. UNCHANGED <<queueVars, mRunnable, ownerVars, taskAlive, worker>>
    BY <1>6 DEF Drop
  <2>3. OwnerHolds /\ ~ OwnerHolds'
    BY <2>1 DEF QueueInv, OwnerHolds
  <2>4. HolderInv' /\ mRefCount' \in 0..2 /\ delegateAlive' \in BOOLEAN
    BY <2>1, <2>2, <2>3, DestroyStep DEF WorkerHolds, ownerVars
  <2>5. QueueType' /\ ThreadType'
    BY <2>1, <2>2, <2>4 DEF QueueType, ThreadType, queueVars, ownerVars
  <2>6. QueueInv'
    BY <2>1, <2>2 DEF QueueInv, NoLostWakeup, queueVars, ownerVars
  <2>. QED  BY ONLY <2>4, <2>5, <2>6 DEF IInv
<1>. QED  BY <1>1, <1>2, <1>3, <1>4, <1>5, <1>6 DEF OwnerNext

LEMMA SndStep ==
    ASSUME IInv, NEW m \in Message, Snd(m)
    PROVE  IInv'
<1>. USE DEF IInv
<1>1. fate' \in [Message -> Fate]
  BY DEF Snd, QueueType, Fate
<1>5. list' \in Seq(Message)
  BY DEF Snd, QueueType
<1>6. wake' \in BOOLEAN
  BY DEF Snd, QueueType
<1>2. QueueType' /\ ThreadType'
  BY <1>1, <1>5, <1>6 DEF Snd, QueueType, ThreadType, threadVars, ownerVars
<1>3. HolderInv'
  BY HoldersSame DEF Snd, WorkerHolds, OwnerHolds, threadVars, ownerVars
<1>4. QueueInv'
  BY DEF Snd, QueueInv, NoLostWakeup, threadVars, ownerVars
<1>. QED  BY ONLY <1>2, <1>3, <1>4 DEF IInv

LEMMA InvStep == IInv /\ [Next]_vars => IInv'
<1>. SUFFICES ASSUME IInv, [Next]_vars PROVE IInv'
  OBVIOUS
<1>1. CASE UNCHANGED vars
  <2>1. QueueType' /\ ThreadType'
    BY <1>1 DEF vars, queueVars, threadVars, ownerVars, IInv, QueueType, ThreadType
  <2>2. HolderInv'
    BY <1>1, HoldersSame DEF vars, threadVars, ownerVars, IInv, WorkerHolds, OwnerHolds
  <2>3. QueueInv'
    BY <1>1 DEF vars, queueVars, threadVars, ownerVars, IInv, QueueInv, NoLostWakeup
  <2>. QED  BY ONLY <2>1, <2>2, <2>3 DEF IInv
<1>. QED  BY <1>1, WorkerStep, OwnerStep, SndStep DEF Next

\* The inductive invariant holds in every reachable state.
THEOREM Inductive == Spec => []IInv
  BY InvStep, InitInv, PTL DEF Spec

\* The types hold for any messages, joinable or detached.
THEOREM TypeCorrect == Spec => []TypeOK
<1>1. IInv => TypeOK
  BY DEF IInv, QueueType, ThreadType, TypeOK
<1>. QED  BY <1>1, Inductive, PTL

\* LocThread.cpp:155: the delegate is deleted once, by the last destroy().
THEOREM DelegateCorrect == Spec => []DelegateLivesWhileUsed
  BY Inductive, PTL DEF IInv, HolderInv

\* msg_q.c: a worker never sleeps over a message or the unblocking.
THEOREM WakeupCorrect == Spec => []NoLostWakeup
  BY Inductive, PTL DEF IInv, QueueInv

\* Every step of a MsgTask is a step of the channel, or is invisible to it.
LEMMA ChannelStep ==
    ASSUME IInv, [Next]_vars
    PROVE  [Channel!Next]_(Channel!vars)
<1>. USE DEF Channel!Next, Channel!vars
<1>1. ASSUME NEW m \in Message, Snd(m)
      PROVE  Channel!Post(m) \/ UNCHANGED Channel!vars
  BY <1>1 DEF Snd, Channel!Post
<1>2. ASSUME Remove, (worker = "receive" /\ ~ unblocked) \/ worker = "wait"
      PROVE  Channel!Begin
  BY <1>2 DEF Remove, IInv, QueueInv, Channel!Begin
<1>3. CASE Receive \/ Wakeup
  BY <1>2, <1>3 DEF Receive, Wakeup, RcvFails, Wait, queueVars
<1>4. CASE Handle
  BY <1>4 DEF Handle, Channel!Finish
<1>5. CASE Free
  BY <1>5 DEF Free, Worker, DeleteTask, IInv, QueueInv, Channel!Discard
<1>6. CASE Main \/ Loop \/ Leave \/ Exit
  BY <1>6 DEF Main, Loop, Leave, Exit, queueVars
<1>7. CASE Unblock
  BY <1>7 DEF Unblock, Channel!Close
<1>8. CASE Clear
  BY <1>8 DEF Clear, DeleteTask, IInv, QueueInv, queueVars, Channel!Discard
<1>9. CASE Create \/ Bye \/ Join \/ Drop \/ UNCHANGED vars
  BY <1>9 DEF Create, Bye, Join, Drop, vars, queueVars
<1>. QED  BY <1>1, <1>3, <1>4, <1>5, <1>6, <1>7, <1>8, <1>9
          DEF Next, WorkerNext, OwnerNext

\* MsgTask.cpp and msg_q.c implement the channel their users rely on: in
\* order, one at a time, and at most one message after the unblocking.
THEOREM ChannelCorrect == Spec => ImplementsChannel
<1>1. Init => Channel!Init
  BY DEF Init, Channel!Init
<1>. QED  BY <1>1, Inductive, ChannelStep, PTL DEF Spec, ImplementsChannel, Channel!Spec

-----------------------------------------------------------------------------
(* The life of the task itself.  While its thread may run it, it is not     *)
(* deleted: the thread deletes it, or nobody if a joining owner hid it from *)
(* the thread; the owner deletes it only if there is no thread.             *)

Running == {"main", "loop", "receive", "wait", "handle", "leave", "free"}

DeletedInv ==
    /\ worker \in Running => taskAlive
    /\ worker = "main" /\ ~ mRunnable => joined
    /\ worker \in {"drop", "done"} => ~ taskAlive \/ joined
    /\ worker = "none" /\ owner = "gone" => ~ taskAlive
    /\ owner = "create" => taskAlive

LEMMA DeletedStep ==
    ASSUME IInv, DeletedInv, [MCNext]_<<vars, joined>>
    PROVE  DeletedInv'
<1>. USE DEF Running
<1>1. joined => joined'
  BY DEF MCNext
<1>2. CASE Main \/ Loop \/ Receive \/ Wakeup \/ Handle \/ Leave \/ Exit
  <2>1. UNCHANGED <<taskAlive, owner>>
    BY <1>2 DEF Main, Loop, Receive, Wakeup, Handle, Leave, Exit, Remove, RcvFails, Wait, threadVars, ownerVars
  <2>2. \/ worker = "main" /\ worker' = IF mRunnable THEN "loop" ELSE "drop"
        \/ worker \in Running /\ worker' \in Running \ {"main"}
        \/ worker = "drop" /\ worker' = "done"
    BY <1>2 DEF Main, Loop, Receive, Wakeup, Handle, Leave, Exit, Remove, RcvFails, Wait, Worker
  <2>. QED  BY <1>1, <2>1, <2>2 DEF DeletedInv
<1>3. CASE Free
  <2>1. worker' = "drop" /\ ~ taskAlive' /\ owner' # "create"
    BY <1>3 DEF Free, DeleteTask, Worker, IInv, QueueInv
  <2>. QED  BY <2>1 DEF DeletedInv
<1>4. CASE Create
  <2>1. taskAlive' = taskAlive /\ owner' = "own" /\ worker = "none" /\ owner = "create"
    BY <1>4 DEF Create, Owner, IInv, QueueInv
  <2>2. (worker' = "main" /\ mRunnable') \/ worker' = "none"
    BY <1>4, <2>1 DEF Create
  <2>3. taskAlive
    BY <2>1 DEF DeletedInv
  <2>. QED  BY <2>1, <2>2, <2>3 DEF DeletedInv
<1>5. CASE Clear
  <2>1. UNCHANGED <<worker, mRunnable>>
    BY <1>5 DEF Clear
  <2>2. CASE thread /\ owner' = "bye" /\ UNCHANGED taskAlive
    BY <1>1, <2>1, <2>2 DEF DeletedInv
  <2>3. CASE ~ thread /\ owner' = "gone" /\ ~ taskAlive'
    <3>1. worker = "none"
      BY <1>5, <2>3 DEF Clear, IInv, QueueInv
    <3>. QED  BY <2>1, <2>3, <3>1 DEF DeletedInv
  <2>. QED  BY <1>5, <2>2, <2>3 DEF Clear, DeleteTask
<1>6. CASE Bye
  <2>1. owner = "bye" /\ UNCHANGED <<worker, taskAlive>> /\ owner' \in {"join", "drop"}
    BY <1>6 DEF Bye
  <2>2. mRunnable' = mRunnable \/ joined'
    BY <1>6 DEF Bye, MCNext, vars
  <2>. QED  BY <1>1, <2>1, <2>2 DEF DeletedInv
<1>7. CASE Drop
  BY <1>1, <1>7 DEF DeletedInv, Drop, Owner, IInv, QueueInv
<1>8. CASE Unblock \/ Join \/ (\E m \in Message : Snd(m)) \/ UNCHANGED vars
  BY <1>1, <1>8 DEF DeletedInv, Unblock, Call, Join, Snd, Owner, vars, threadVars, ownerVars
<1>. QED  BY <1>2, <1>3, <1>4, <1>5, <1>6, <1>7, <1>8
          DEF MCNext, Next, WorkerNext, OwnerNext, vars

\* LocThread.h:75, MsgTask.cpp:69: neither the worker nor a destroy() on its thread
\* touches a deleted task, and a detached task does not outlive both its owner and its thread.
THEOREM TaskDeleted == MCSpec => []TaskDeletedAfterUse
<1>1. Init => IInv
  BY InitInv
<1>2. IInv /\ [Next]_vars => IInv'
  BY InvStep
<1>3. MCInit => DeletedInv
  BY DEF MCInit, Init, DeletedInv, Running
<1>4. IInv /\ DeletedInv /\ [MCNext]_<<vars, joined>> => DeletedInv'
  BY DeletedStep
<1>5. IInv /\ DeletedInv => TaskDeletedAfterUse
  BY DEF IInv, QueueInv, DeletedInv, Running, TaskDeletedAfterUse
<1>6. MCInit => Init
  BY DEF MCInit
<1>7. [MCNext]_<<vars, joined>> => [Next]_vars
  BY DEF MCNext
<1>. QED  BY <1>1, <1>2, <1>3, <1>4, <1>5, <1>6, <1>7, PTL DEF MCSpec

=============================================================================

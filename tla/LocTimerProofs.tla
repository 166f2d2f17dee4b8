--------------------------- MODULE LocTimerProofs ---------------------------
(***************************************************************************)
(* Proofs about LocTimer: no deleted delegate is used, and a running timer *)
(* is never lost on its way from the client to its expiry.  A delegate     *)
(* travels one way only - posted, in the heap, in the hands of the thread  *)
(* that expires it - and its one removal message, which deletes it, is     *)
(* behind its push in the queue.                                           *)
(***************************************************************************)
EXTENDS LocTimer, TLAPS

USE TimerAssumption

\* The thread that expires timers has d in its hands.
InHand(d) == popped = d /\ task \in {"expire", "stop", "callback", "next"}

Ended(d) == fate[d] \in {"stopped", "fired"}

\* What the messages and the program counter of the MsgTask's thread say of
\* the other variables.
TaskInv ==
    /\ \A i \in DOMAIN msgs : msgs[i].kind # "expire" => msgs[i].d \in Delegate
    /\ task \in {"addPoll", "setTime"} => top # None
    /\ task \in {"expire", "stop", "callback", "next"} => popped \in Delegate
    /\ task = "stop" => client \in Client /\ mClient[popped] \in {client, None}

\* A client and its delegate point to each other while the timer runs.
LinkInv ==
    /\ \A c \in Client, d \in Delegate : mTimer[c] = d <=> mClient[d] = c
    /\ \A d \in Delegate : fate[d] = "ticking" <=> mClient[d] # None
    /\ \A c \in Client : c \notin alive => mTimer[c] = None

\* A delegate has one message of each kind, and the push comes first.
OrderInv ==
    \A i, j \in DOMAIN msgs :
        msgs[i].d = msgs[j].d /\ msgs[i].d \in Delegate =>
            /\ msgs[i].kind = msgs[j].kind => i = j
            /\ msgs[i].kind = "push" /\ msgs[j].kind = "remove" => i < j

\* Where a delegate can be at each point of its life.
PlaceInv(d) ==
    /\ fate[d] = "unborn" => /\ ~ Posted("push", d) /\ ~ Posted("remove", d)
                             /\ d \notin heap /\ d \notin deleted /\ ~ InHand(d)
    /\ Posted("push", d) => d \notin heap /\ d \notin deleted /\ ~ InHand(d)
    /\ d \in heap => d \notin deleted /\ ~ InHand(d)
    /\ InHand(d) => d \notin deleted
    /\ Posted("remove", d) => Ended(d) /\ d \notin deleted
    /\ d \in deleted => Ended(d)
    /\ Ended(d) => Posted("remove", d) \/ d \in deleted
    /\ fate[d] = "ticking" => \/ Posted("push", d) \/ d \in heap
                              \/ popped = d /\ task \in {"expire", "stop"}

IInv == TypeOK /\ TaskInv /\ LinkInv /\ OrderInv /\ \A d \in Delegate : PlaceInv(d)

MsgType == [kind : {"push", "remove", "expire"}, d : Delegate \union {None}]

LEMMA InitInv == Init => IInv
<1>. SUFFICES ASSUME Init PROVE IInv
  OBVIOUS
<1>1. TypeOK
  <2>1. /\ now \in 0..MaxTime /\ timerOfNow \in 0..MaxTime
        /\ mFutureTime \in [Delegate -> 0..MaxTime]
    BY DEF Init
  <2>2. /\ mTimer \in [Client -> Delegate \union {None}]
        /\ mClient \in [Delegate -> Client \union {None}]
        /\ fate \in [Delegate -> {"unborn", "ticking", "stopped", "fired"}]
    BY DEF Init
  <2>3. msgs \in Seq(MsgType)
    BY DEF Init
  <2>. QED  BY <2>1, <2>2, <2>3 DEF Init, TypeOK, MsgType
<1>2. TaskInv /\ OrderInv
  BY DEF Init, TaskInv, OrderInv
<1>3. LinkInv
  BY DEF Init, LinkInv, Delegate
<1>4. \A d \in Delegate : PlaceInv(d)
  BY DEF Init, PlaceInv, Posted, InHand, Ended
<1>. QED  BY <1>1, <1>2, <1>3, <1>4 DEF IInv

-----------------------------------------------------------------------------
(* The queue of the MsgTask *)

\* What a message posted at the end adds to the queue.
LEMMA AppendMsg ==
    ASSUME msgs \in Seq(MsgType), NEW m \in MsgType, msgs' = Append(msgs, m)
    PROVE  /\ msgs' \in Seq(MsgType)
           /\ DOMAIN msgs' = 1..(Len(msgs) + 1) /\ DOMAIN msgs = 1..Len(msgs)
           /\ msgs'[Len(msgs) + 1] = m
           /\ \A i \in DOMAIN msgs : msgs'[i] = msgs[i]
           /\ \A kind, d : Posted(kind, d)' <=> Posted(kind, d) \/ m = Msg(kind, d)
<1>1. msgs' \in Seq(MsgType) /\ Len(msgs') = Len(msgs) + 1 /\ Len(msgs) \in Nat
  OBVIOUS
<1>2. DOMAIN msgs' = 1..(Len(msgs) + 1) /\ DOMAIN msgs = 1..Len(msgs)
  BY <1>1
<1>3. msgs'[Len(msgs) + 1] = m /\ \A i \in DOMAIN msgs : msgs'[i] = msgs[i]
  BY <1>1
<1>4. ASSUME NEW kind, NEW d PROVE Posted(kind, d)' <=> Posted(kind, d) \/ m = Msg(kind, d)
  <2>1. Posted(kind, d)' => Posted(kind, d) \/ m = Msg(kind, d)
    BY <1>1, <1>2, <1>3 DEF Posted, Msg
  <2>2. Posted(kind, d) => Posted(kind, d)'
    BY <1>1, <1>2, <1>3 DEF Posted, Msg
  <2>3. m = Msg(kind, d) => Posted(kind, d)'
    BY <1>1, <1>2, <1>3 DEF Posted, Msg
  <2>. QED  BY <2>1, <2>2, <2>3
<1>. QED  BY <1>1, <1>2, <1>3, <1>4

\* What the handling of the first message takes from it.
LEMMA TailMsg ==
    ASSUME msgs \in Seq(MsgType), msgs # <<>>, msgs' = Tail(msgs), OrderInv
    PROVE  /\ msgs' \in Seq(MsgType) /\ Head(msgs) \in MsgType
           /\ Head(msgs) = msgs[1] /\ 1 \in DOMAIN msgs
           /\ \A i \in DOMAIN msgs' : i + 1 \in DOMAIN msgs /\ msgs'[i] = msgs[i + 1]
           /\ OrderInv'
           /\ \A kind, d : Posted(kind, d)' => Posted(kind, d)
           /\ \A kind, d : Posted(kind, d) /\ Head(msgs) # Msg(kind, d) => Posted(kind, d)'
           /\ \A kind : \A d \in Delegate : Head(msgs) = Msg(kind, d) => ~ Posted(kind, d)'
           /\ \A d \in Delegate : Head(msgs) = Msg("remove", d) => ~ Posted("push", d)
<1>1. /\ msgs' \in Seq(MsgType) /\ Head(msgs) \in MsgType
      /\ Head(msgs) = msgs[1]
      /\ Len(msgs) \in Nat \ {0} /\ Len(msgs') = Len(msgs) - 1
      /\ DOMAIN msgs = 1..Len(msgs) /\ DOMAIN msgs' = 1..(Len(msgs) - 1)
  OBVIOUS
<1>2. 1 \in DOMAIN msgs
  BY <1>1
<1>3. ASSUME NEW i \in DOMAIN msgs'
      PROVE  i + 1 \in DOMAIN msgs /\ msgs'[i] = msgs[i + 1] /\ i \in Nat \ {0}
  BY <1>1, <1>3
<1>4. OrderInv'
  BY <1>1, <1>3 DEF OrderInv
<1>5. ASSUME NEW kind, NEW d, Posted(kind, d)' PROVE Posted(kind, d)
  BY <1>3, <1>5 DEF Posted, Msg
<1>6. ASSUME NEW kind, NEW d, Posted(kind, d), Head(msgs) # Msg(kind, d)
      PROVE  Posted(kind, d)'
  <2>1. PICK i \in DOMAIN msgs : msgs[i] = Msg(kind, d)
    BY <1>6 DEF Posted
  <2>2. i # 1 /\ i \in 1..Len(msgs)
    BY <1>1, <1>6, <2>1
  <2>3. i - 1 \in DOMAIN msgs' /\ (i - 1) + 1 = i
    BY <1>1, <2>2
  <2>4. msgs'[i - 1] = Msg(kind, d)
    BY <1>3, <2>1, <2>3
  <2>5. (\E k \in DOMAIN msgs : msgs[k] = Msg(kind, d))'
    BY <2>3, <2>4 DEF Msg
  <2>. QED  BY <2>5 DEF Posted
<1>7. ASSUME NEW kind, NEW d \in Delegate, Head(msgs) = Msg(kind, d), Posted(kind, d)'
      PROVE  FALSE
  <2>1. PICK i \in DOMAIN msgs' : msgs'[i] = Msg(kind, d)
    BY <1>7 DEF Posted, Msg
  <2>2. msgs[i + 1] = msgs[1] /\ i + 1 # 1
    BY <1>1, <1>3, <1>7, <2>1
  <2>3. msgs[1].d \in Delegate
    BY <1>1, <1>7 DEF Msg
  <2>. QED  BY <1>2, <1>3, <2>2, <2>3 DEF OrderInv
<1>8. ASSUME NEW d \in Delegate, Head(msgs) = Msg("remove", d), Posted("push", d)
      PROVE  FALSE
  <2>1. PICK i \in DOMAIN msgs : msgs[i] = Msg("push", d)
    BY <1>8 DEF Posted
  <2>2. i < 1
    BY <1>1, <1>2, <1>8, <2>1 DEF OrderInv, Msg
  <2>. QED  BY <1>1, <2>2
<1>. QED  BY <1>1, <1>2, <1>3, <1>4, <1>5, <1>6, <1>7, <1>8

LEMMA RemovedOnce ==
    ASSUME IInv, NEW d \in Delegate, fate[d] = "ticking", msgs' = Append(msgs, Msg("remove", d))
    PROVE  OrderInv'
<1>1. msgs \in Seq(MsgType) /\ Msg("remove", d) \in MsgType
  BY DEF IInv, TypeOK, MsgType, Msg
<1>2. ~ Posted("remove", d)
  BY DEF IInv, PlaceInv, Ended
<1>. DEFINE n == Len(msgs) + 1
<1>3. /\ \A i \in DOMAIN msgs' : i \in DOMAIN msgs \/ i = n
      /\ \A i \in DOMAIN msgs : i < n /\ msgs'[i] = msgs[i]
      /\ msgs'[n] = Msg("remove", d)
  BY <1>1, AppendMsg
<1>4. \A i \in DOMAIN msgs : msgs[i] # Msg("remove", d) /\ msgs[i] \in MsgType
  BY <1>1, <1>2 DEF Posted
<1>. SUFFICES ASSUME NEW i \in DOMAIN msgs', NEW j \in DOMAIN msgs',
                     msgs'[i].d = msgs'[j].d, msgs'[i].d \in Delegate
              PROVE  /\ msgs'[i].kind = msgs'[j].kind => i = j
                     /\ msgs'[i].kind = "push" /\ msgs'[j].kind = "remove" => i < j
  BY DEF OrderInv
<1>5. CASE i \in DOMAIN msgs /\ j \in DOMAIN msgs
  BY <1>3, <1>5 DEF IInv, OrderInv
<1>6. CASE i = n /\ j = n
  BY <1>3, <1>6 DEF Msg
<1>7. CASE i \in DOMAIN msgs /\ j = n
  BY <1>3, <1>4, <1>7 DEF Msg, MsgType
<1>8. CASE i = n /\ j \in DOMAIN msgs
  BY <1>3, <1>4, <1>8 DEF Msg, MsgType
<1>. QED  BY <1>3, <1>5, <1>6, <1>7, <1>8

\* A running timer is stopped, by its client or by its expiry.
LEMMA StopAsInv ==
    ASSUME IInv, NEW c \in alive, mTimer[c] # None, NEW end \in {"stopped", "fired"},
           StopAs(c, end), alive' \in {alive, alive \ {c}}, UNCHANGED <<heapVars, deleted, popped, client>>,
           \/ UNCHANGED task
           \/ task = "stop" /\ task' = "callback" /\ c = client
    PROVE  /\ mTimer' \in [Client -> Delegate \union {None}]
           /\ mClient' \in [Delegate -> Client \union {None}]
           /\ fate' \in [Delegate -> {"unborn", "ticking", "stopped", "fired"}]
           /\ msgs' \in Seq(MsgType)
           /\ TaskInv' /\ LinkInv' /\ OrderInv' /\ \A d \in Delegate : PlaceInv(d)'
<1>. USE DEF IInv
<1>. DEFINE d == mTimer[c]
<1>1. c \in Client /\ d \in Delegate /\ mClient[d] = c /\ c # None /\ fate[d] = "ticking"
  BY DEF TypeOK, LinkInv
<1>2. /\ mTimer' = [mTimer EXCEPT ![c] = None]
      /\ mClient' = [mClient EXCEPT ![d] = None]
      /\ fate' = [fate EXCEPT ![d] = end]
      /\ msgs' = Append(msgs, Msg("remove", d))
  BY DEF StopAs
<1>3. /\ mTimer' \in [Client -> Delegate \union {None}]
      /\ mClient' \in [Delegate -> Client \union {None}]
      /\ fate' \in [Delegate -> {"unborn", "ticking", "stopped", "fired"}]
  BY <1>1, <1>2 DEF TypeOK
<1>4. /\ mTimer'[c] = None /\ \A e \in Client \ {c} : mTimer'[e] = mTimer[e]
      /\ mClient'[d] = None /\ \A e \in Delegate \ {d} : mClient'[e] = mClient[e]
      /\ fate'[d] = end /\ \A e \in Delegate \ {d} : fate'[e] = fate[e]
  BY <1>1, <1>2 DEF TypeOK
<1>5. Msg("remove", d) \in MsgType /\ msgs \in Seq(MsgType)
  BY <1>1 DEF Msg, MsgType, TypeOK
<1>6. /\ msgs' \in Seq(MsgType)
      /\ \A kind, e : Posted(kind, e)' <=> Posted(kind, e) \/ Msg("remove", d) = Msg(kind, e)
  BY <1>2, <1>5, AppendMsg
<1>7. LinkInv'
  BY <1>1, <1>4 DEF LinkInv
<1>8. OrderInv'
  BY <1>1, <1>2, RemovedOnce
<1>9. TaskInv'
  <2>1. \A i \in DOMAIN msgs' : msgs'[i].kind # "expire" => msgs'[i].d \in Delegate
    <3>1. ASSUME NEW i \in DOMAIN msgs' PROVE msgs'[i] = Msg("remove", d) \/ (i \in DOMAIN msgs /\ msgs'[i] = msgs[i])
      BY <1>2, <1>5, AppendMsg
    <3>. QED  BY <1>1, <3>1 DEF TaskInv, Msg
  <2>2. task' \in {"addPoll", "setTime"} => top' # None
    BY DEF TaskInv, heapVars
  <2>3. task' \in {"expire", "stop", "callback", "next"} => popped' \in Delegate
    BY DEF TaskInv
  <2>4. task' = "stop" => client' \in Client /\ mClient'[popped'] \in {client', None}
    BY <1>4 DEF TaskInv
  <2>. QED  BY <2>1, <2>2, <2>3, <2>4 DEF TaskInv
<1>10. ASSUME NEW e \in Delegate PROVE PlaceInv(e)'
  <2>1. (InHand(e)' <=> InHand(e)) /\ heap' = heap
    BY DEF InHand, heapVars
  <2>2. Posted("push", e)' <=> Posted("push", e)
    <3>1. Msg("remove", d) # Msg("push", e)
      BY DEF Msg
    <3>. QED  BY <1>6, <3>1
  <2>3. CASE e = d
    <3>1. Posted("remove", e)'
      BY <1>6, <2>3
    <3>2. Ended(e)' /\ e \notin deleted
      BY <1>1, <1>4, <2>3 DEF Ended, PlaceInv
    <3>. QED  BY <1>1, <2>1, <2>2, <2>3, <3>1, <3>2 DEF PlaceInv, Ended
  <2>4. CASE e # d
    <3>1. Posted("remove", e)' <=> Posted("remove", e)
      <4>1. Msg("remove", d) # Msg("remove", e)
        BY <2>4 DEF Msg
      <4>. QED  BY <1>6, <4>1
    <3>2. fate'[e] = fate[e] /\ (Ended(e)' <=> Ended(e))
      BY <1>4, <2>4 DEF Ended
    <3>3. ASSUME fate[e] = "ticking", popped = e, task = "stop", task' = "callback" PROVE FALSE
      BY <1>1, <2>4, <3>3 DEF TaskInv, LinkInv
    <3>4. PlaceInv(e)
      OBVIOUS
    <3>5. fate'[e] = "ticking" => \/ Posted("push", e)' \/ e \in heap'
                                  \/ popped' = e /\ task' \in {"expire", "stop"}
      BY <2>1, <2>2, <3>2, <3>3, <3>4 DEF PlaceInv
    <3>. QED  BY <2>1, <2>2, <3>1, <3>2, <3>4, <3>5 DEF PlaceInv
  <2>. QED  BY <2>3, <2>4
<1>. QED  BY <1>3, <1>6, <1>7, <1>8, <1>9, <1>10

-----------------------------------------------------------------------------
(* The clients *)

LEMMA StartInv ==
    ASSUME IInv, NEW c \in Client, NEW d \in Delegate, NEW delay \in Delay, Start(c, d, delay)
    PROVE  IInv'
<1>. USE DEF IInv
<1>1. msgs \in Seq(MsgType) /\ Msg("push", d) \in MsgType /\ msgs' = Append(msgs, Msg("push", d))
  BY DEF Start, TypeOK, Msg, MsgType
<1>2. /\ msgs' \in Seq(MsgType)
      /\ \A kind, e : Posted(kind, e)' <=> Posted(kind, e) \/ Msg("push", d) = Msg(kind, e)
  BY <1>1, AppendMsg
<1>3. /\ mTimer[c] = None /\ mTimer'[c] = d /\ \A e \in Client \ {c} : mTimer'[e] = mTimer[e]
      /\ mClient'[d] = c /\ \A e \in Delegate \ {d} : mClient'[e] = mClient[e]
      /\ fate[d] = "unborn" /\ fate'[d] = "ticking"
      /\ \A e \in Delegate \ {d} : fate'[e] = fate[e]
  BY DEF Start, TypeOK
<1>4. TypeOK'
  <2>1. now + delay \in 0..MaxTime
    BY DEF Start, TypeOK
  <2>2. mFutureTime' \in [Delegate -> 0..MaxTime]
    BY <2>1 DEF Start, TypeOK
  <2>3. /\ mTimer' \in [Client -> Delegate \union {None}]
        /\ mClient' \in [Delegate -> Client \union {None}]
        /\ fate' \in [Delegate -> {"unborn", "ticking", "stopped", "fired"}]
    BY DEF Start, TypeOK
  <2>. QED  BY <1>2, <2>2, <2>3 DEF Start, TypeOK, MsgType, heapVars, fdVars, taskVars
<1>5. TaskInv'
  <2>1. ASSUME NEW i \in DOMAIN msgs'
        PROVE  msgs'[i] = Msg("push", d) \/ (i \in DOMAIN msgs /\ msgs'[i] = msgs[i])
    BY <1>1, AppendMsg
  <2>2. \A i \in DOMAIN msgs' : msgs'[i].kind # "expire" => msgs'[i].d \in Delegate
    BY <2>1 DEF TaskInv, Msg
  <2>3. /\ task' \in {"addPoll", "setTime"} => top' # None
        /\ task' \in {"expire", "stop", "callback", "next"} => popped' \in Delegate
    BY DEF TaskInv, Start, heapVars, taskVars
  <2>4. task' = "stop" => client' \in Client /\ mClient'[popped'] \in {client', None}
    <3>. SUFFICES ASSUME task = "stop" PROVE client' \in Client /\ mClient'[popped'] \in {client', None}
      BY DEF Start, taskVars
    <3>1. popped \in Delegate /\ InHand(popped)
      BY DEF TaskInv, InHand
    <3>2. popped # d
      BY <1>3, <3>1 DEF PlaceInv
    <3>. QED  BY <1>3, <3>1, <3>2 DEF TaskInv, Start, taskVars
  <2>. QED  BY <2>2, <2>3, <2>4 DEF TaskInv
<1>6. LinkInv'
  <2>1. mClient[d] = None /\ c # None /\ c \in alive /\ alive' = alive
    BY <1>3 DEF LinkInv, Start
  <2>. QED  BY <1>3, <2>1 DEF LinkInv
<1>7. OrderInv'
  <2>. DEFINE n == Len(msgs) + 1
  <2>1. /\ \A i \in DOMAIN msgs' : i \in DOMAIN msgs \/ i = n
        /\ \A i \in DOMAIN msgs : i < n /\ msgs'[i] = msgs[i]
        /\ msgs'[n] = Msg("push", d)
    BY <1>1, AppendMsg
  <2>2. ASSUME NEW i \in DOMAIN msgs PROVE msgs[i].kind = "expire" \/ msgs[i].d # d
    <3>1. ~ Posted("push", d) /\ ~ Posted("remove", d)
      BY <1>3 DEF PlaceInv
    <3>2. msgs[i] \in MsgType /\ msgs[i] # Msg("push", d) /\ msgs[i] # Msg("remove", d)
      BY <1>1, <3>1 DEF Posted
    <3>. QED  BY <3>2 DEF Msg, MsgType
  <2>. SUFFICES ASSUME NEW i \in DOMAIN msgs', NEW j \in DOMAIN msgs',
                       msgs'[i].d = msgs'[j].d, msgs'[i].d \in Delegate
                PROVE  /\ msgs'[i].kind = msgs'[j].kind => i = j
                       /\ msgs'[i].kind = "push" /\ msgs'[j].kind = "remove" => i < j
    BY DEF OrderInv
  <2>3. CASE i \in DOMAIN msgs /\ j \in DOMAIN msgs
    BY <2>1, <2>3 DEF OrderInv
  <2>4. CASE i = n \/ j = n
    BY <2>1, <2>2, <2>4 DEF Msg
  <2>. QED  BY <2>1, <2>3, <2>4
<1>8. ASSUME NEW e \in Delegate PROVE PlaceInv(e)'
  <2>1. (InHand(e)' <=> InHand(e)) /\ heap' = heap /\ deleted' = deleted /\ popped' = popped /\ task' = task
    BY DEF InHand, Start, heapVars, taskVars
  <2>2. Posted("remove", e)' <=> Posted("remove", e)
    <3>1. Msg("push", d) # Msg("remove", e)
      BY DEF Msg
    <3>. QED  BY <1>2, <3>1
  <2>3. CASE e = d
    <3>1. Posted("push", e)'
      BY <1>2, <2>3
    <3>2. ~ Ended(e)'
      BY <1>3, <2>3 DEF Ended
    <3>. QED  BY <1>3, <2>1, <2>2, <2>3, <3>1, <3>2 DEF PlaceInv
  <2>4. CASE e # d
    <3>1. Posted("push", e)' <=> Posted("push", e)
      <4>1. Msg("push", d) # Msg("push", e)
        BY <2>4 DEF Msg
      <4>. QED  BY <1>2, <4>1
    <3>2. fate'[e] = fate[e] /\ (Ended(e)' <=> Ended(e))
      BY <1>3, <2>4 DEF Ended
    <3>3. PlaceInv(e)
      OBVIOUS
    <3>. QED  BY <2>1, <2>2, <3>1, <3>2, <3>3 DEF PlaceInv
  <2>. QED  BY <2>3, <2>4
<1>. QED  BY <1>4, <1>5, <1>6, <1>7, <1>8

LEMMA StopInv == ASSUME IInv, NEW c \in Client, Stop(c) PROVE IInv'
<1>1. TaskInv' /\ LinkInv' /\ OrderInv' /\ \A d \in Delegate : PlaceInv(d)'
  BY StopAsInv DEF Stop, heapVars, taskVars
<1>2. TypeOK'
  <2>1. /\ mTimer' \in [Client -> Delegate \union {None}]
        /\ mClient' \in [Delegate -> Client \union {None}]
        /\ fate' \in [Delegate -> {"unborn", "ticking", "stopped", "fired"}]
        /\ msgs' \in Seq(MsgType)
    BY StopAsInv DEF Stop, heapVars, taskVars
  <2>. QED  BY <2>1 DEF IInv, TypeOK, MsgType, Stop, heapVars, fdVars, taskVars
<1>. QED  BY <1>1, <1>2 DEF IInv

\* Steps that touch neither the delegates nor the messages.
LEMMA PlacesSame ==
    ASSUME IInv, UNCHANGED <<mTimer, mClient, fate, deleted, heapVars, msgs, popped>>,
           alive' = alive \/ \E c \in alive : mTimer[c] = None /\ alive' = alive \ {c},
           task \in {"expire", "stop", "callback", "next"} <=>
               task' \in {"expire", "stop", "callback", "next"},
           task \in {"expire", "stop"} /\ fate[popped] = "ticking" => task' \in {"expire", "stop"}
    PROVE  LinkInv' /\ OrderInv' /\ \A d \in Delegate : PlaceInv(d)'
<1>. USE DEF IInv
<1>1. LinkInv' /\ OrderInv'
  BY DEF LinkInv, OrderInv
<1>2. ASSUME NEW d \in Delegate PROVE PlaceInv(d)'
  <2>1. (InHand(d)' <=> InHand(d)) /\ (Ended(d)' <=> Ended(d)) /\ heap' = heap
    BY DEF InHand, Ended, heapVars
  <2>2. \A kind : Posted(kind, d)' <=> Posted(kind, d)
    BY DEF Posted, Msg
  <2>3. PlaceInv(d)
    OBVIOUS
  <2>4. fate'[d] = "ticking" => \/ Posted("push", d)' \/ d \in heap'
                                \/ popped' = d /\ task' \in {"expire", "stop"}
    BY <2>1, <2>2, <2>3 DEF PlaceInv
  <2>. QED  BY <2>1, <2>2, <2>3, <2>4 DEF PlaceInv
<1>. QED  BY <1>1, <1>2

LEMMA DeleteInv == ASSUME IInv, NEW c \in Client, Delete(c) PROVE IInv'
<1>1. CASE mTimer[c] # None /\ StopAs(c, "stopped")
  <2>1. TaskInv' /\ LinkInv' /\ OrderInv' /\ \A d \in Delegate : PlaceInv(d)'
    BY <1>1, StopAsInv DEF Delete, heapVars, taskVars
  <2>2. /\ mTimer' \in [Client -> Delegate \union {None}]
        /\ mClient' \in [Delegate -> Client \union {None}]
        /\ fate' \in [Delegate -> {"unborn", "ticking", "stopped", "fired"}]
        /\ msgs' \in Seq(MsgType)
    BY <1>1, StopAsInv DEF Delete, heapVars, taskVars
  <2>3. TypeOK'
    BY <2>2 DEF IInv, TypeOK, MsgType, Delete, heapVars, fdVars, taskVars
  <2>. QED  BY <2>1, <2>3 DEF IInv
<1>2. CASE mTimer[c] = None /\ UNCHANGED <<mTimer, mClient, fate, msgs>>
  <2>1. LinkInv' /\ OrderInv' /\ \A d \in Delegate : PlaceInv(d)'
    BY <1>2, PlacesSame DEF Delete, heapVars, taskVars
  <2>2. TaskInv'
    BY <1>2 DEF IInv, TaskInv, Delete, heapVars, taskVars
  <2>3. TypeOK'
    BY <1>2 DEF IInv, TypeOK, Delete, heapVars, fdVars, taskVars
  <2>. QED  BY <2>1, <2>2, <2>3 DEF IInv
<1>. QED  BY <1>1, <1>2 DEF Delete

LEMMA TickInv == ASSUME IInv, Tick PROVE IInv'
<1>1. LinkInv' /\ OrderInv' /\ \A d \in Delegate : PlaceInv(d)'
  BY PlacesSame DEF Tick, clientVars, taskVars
<1>2. TaskInv'
  BY DEF IInv, TaskInv, Tick, clientVars, heapVars, taskVars
<1>3. TypeOK'
  BY DEF IInv, TypeOK, Tick, clientVars, heapVars, fdVars, taskVars
<1>. QED  BY <1>1, <1>2, <1>3 DEF IInv

-----------------------------------------------------------------------------
(* The polling thread *)

LEMMA PollInv == ASSUME IInv, Wakeup \/ Disarm \/ RemovePoll PROVE IInv'
<1>1. LinkInv' /\ OrderInv' /\ \A d \in Delegate : PlaceInv(d)'
  BY PlacesSame DEF Wakeup, Disarm, RemovePoll, clientVars, taskVars
<1>2. TaskInv'
  BY DEF IInv, TaskInv, Wakeup, Disarm, RemovePoll, clientVars, heapVars, taskVars
<1>3. TypeOK'
  <2>1. CASE Wakeup
    BY <2>1 DEF IInv, TypeOK, Wakeup, Poll, clientVars, heapVars, fdVars, taskVars
  <2>2. CASE Disarm
    BY <2>2 DEF IInv, TypeOK, Disarm, Poll, clientVars, heapVars, taskVars
  <2>3. CASE RemovePoll
    BY <2>3 DEF IInv, TypeOK, RemovePoll, Poll, clientVars, heapVars, taskVars
  <2>. QED  BY <2>1, <2>2, <2>3
<1>. QED  BY <1>1, <1>2, <1>3 DEF IInv

LEMMA PostInv == ASSUME IInv, Post PROVE IInv'
<1>. USE DEF IInv
<1>1. msgs \in Seq(MsgType) /\ Msg("expire", None) \in MsgType /\ msgs' = Append(msgs, Msg("expire", None))
  BY DEF Post, TypeOK, Msg, MsgType
<1>. DEFINE n == Len(msgs) + 1
<1>2. /\ msgs' \in Seq(MsgType)
      /\ \A i \in DOMAIN msgs' : i \in DOMAIN msgs \/ i = n
      /\ \A i \in DOMAIN msgs : i < n /\ msgs'[i] = msgs[i]
      /\ msgs'[n] = Msg("expire", None)
      /\ \A kind, e : Posted(kind, e)' <=> Posted(kind, e) \/ Msg("expire", None) = Msg(kind, e)
  BY <1>1, AppendMsg
<1>3. TypeOK'
  BY <1>2 DEF Post, Poll, TypeOK, MsgType, clientVars, heapVars, fdVars, taskVars
<1>4. TaskInv'
  <2>1. \A i \in DOMAIN msgs' : msgs'[i].kind # "expire" => msgs'[i].d \in Delegate
    BY <1>2 DEF TaskInv, Msg
  <2>. QED  BY <2>1 DEF TaskInv, Post, clientVars, heapVars, taskVars
<1>5. LinkInv'
  BY DEF LinkInv, Post, clientVars
<1>6. OrderInv'
  BY <1>2 DEF OrderInv, Msg
<1>7. ASSUME NEW d \in Delegate PROVE PlaceInv(d)'
  <2>1. /\ InHand(d)' <=> InHand(d)
        /\ Ended(d)' <=> Ended(d)
        /\ heap' = heap /\ deleted' = deleted /\ fate' = fate /\ popped' = popped /\ task' = task
    BY DEF Post, InHand, Ended, clientVars, heapVars, taskVars
  <2>2. Msg("expire", None) # Msg("push", d) /\ Msg("expire", None) # Msg("remove", d)
    BY DEF Msg
  <2>3. (Posted("push", d)' <=> Posted("push", d)) /\ (Posted("remove", d)' <=> Posted("remove", d))
    BY <1>2, <2>2
  <2>4. PlaceInv(d)
    OBVIOUS
  <2>. QED  BY <2>1, <2>3, <2>4 DEF PlaceInv
<1>. QED  BY <1>3, <1>4, <1>5, <1>6, <1>7

-----------------------------------------------------------------------------
(* The MsgTask's thread *)

\* A delegate leaves the heap, and the top is again one of those left.
LEMMA RemoveTop ==
    ASSUME TypeOK, NEW d, Remove(d)
    PROVE  /\ heap' = heap \ {d} /\ heap' \subseteq Delegate
           /\ top' \in heap' \union {None} /\ (top' = None <=> heap' = {})
<1>1. /\ heap' = heap \ {d} /\ heap \subseteq Delegate /\ None \notin Delegate
      /\ top \in heap \union {None} /\ (top = None <=> heap = {})
  BY DEF TypeOK, Remove
<1>2. CASE d # top /\ UNCHANGED top
  BY <1>1, <1>2
<1>3. CASE d = top /\ heap = {d} /\ top' = None
  BY <1>1, <1>3
<1>4. CASE d = top /\ \E e \in heap \ {d} : HighestOf(heap \ {d}, e) /\ top' = e
  BY <1>1, <1>4
<1>. QED  BY <1>1, <1>2, <1>3, <1>4 DEF Remove

\* What the handling of the first message leaves in the queue.
LEMMA TakeMsg ==
    ASSUME IInv, NEW kind \in {"push", "remove", "expire"}, Take(kind)
    PROVE  /\ task = "idle" /\ OrderInv'
           /\ msgs' \in Seq(MsgType)
           /\ \A i \in DOMAIN msgs' : msgs'[i].kind # "expire" => msgs'[i].d \in Delegate
           /\ kind = "expire" =>
                \A d : /\ Posted("push", d)' <=> Posted("push", d)
                       /\ Posted("remove", d)' <=> Posted("remove", d)
<1>1. msgs \in Seq(MsgType) /\ msgs # <<>> /\ msgs' = Tail(msgs) /\ Head(msgs).kind = kind /\ OrderInv
  BY DEF IInv, TypeOK, MsgType, Take
<1>2. /\ OrderInv' /\ msgs' \in Seq(MsgType)
      /\ \A i \in DOMAIN msgs' : i + 1 \in DOMAIN msgs /\ msgs'[i] = msgs[i + 1]
      /\ \A k, d : Posted(k, d)' => Posted(k, d)
      /\ \A k, d : Posted(k, d) /\ Head(msgs) # Msg(k, d) => Posted(k, d)'
  BY <1>1, TailMsg
<1>3. \A i \in DOMAIN msgs' : msgs'[i].kind # "expire" => msgs'[i].d \in Delegate
  BY <1>2 DEF IInv, TaskInv
<1>4. ASSUME kind = "expire", NEW d
      PROVE  /\ Posted("push", d)' <=> Posted("push", d)
             /\ Posted("remove", d)' <=> Posted("remove", d)
  <2>1. Head(msgs) # Msg("push", d) /\ Head(msgs) # Msg("remove", d)
    BY <1>1, <1>4 DEF Msg
  <2>. QED  BY <1>2, <2>1
<1>. QED  BY <1>2, <1>3, <1>4 DEF Take

\* The delegate of a push or removal that is handled.
LEMMA TakeDelegate ==
    ASSUME IInv, NEW kind \in {"push", "remove"}, Take(kind)
    PROVE  \E d \in Delegate :
               /\ Head(msgs) = Msg(kind, d) /\ Head(msgs).d = d
               /\ Posted(kind, d) /\ ~ Posted(kind, d)'
               /\ \A k \in {"push", "remove"} : \A e \in Delegate :
                    k # kind \/ e # d => (Posted(k, e)' <=> Posted(k, e))
               /\ kind = "remove" => ~ Posted("push", d)
<1>1. msgs \in Seq(MsgType) /\ msgs # <<>> /\ msgs' = Tail(msgs) /\ Head(msgs).kind = kind /\ OrderInv
  BY DEF IInv, TypeOK, MsgType, Take
<1>2. /\ Head(msgs) \in MsgType /\ Head(msgs) = msgs[1] /\ 1 \in DOMAIN msgs
      /\ \A k, e : Posted(k, e)' => Posted(k, e)
      /\ \A k, e : Posted(k, e) /\ Head(msgs) # Msg(k, e) => Posted(k, e)'
      /\ \A k : \A e \in Delegate : Head(msgs) = Msg(k, e) => ~ Posted(k, e)'
      /\ \A e \in Delegate : Head(msgs) = Msg("remove", e) => ~ Posted("push", e)
  BY <1>1, TailMsg
<1>3. PICK d \in Delegate : d = Head(msgs).d
  BY <1>1, <1>2 DEF IInv, TaskInv
<1>4. Head(msgs) = Msg(kind, d)
  BY <1>1, <1>2, <1>3 DEF Msg, MsgType
<1>5. Posted(kind, d) /\ ~ Posted(kind, d)'
  <2>1. Posted(kind, d)
    BY <1>2, <1>4 DEF Posted
  <2>. QED  BY <1>2, <1>4, <2>1
<1>6. ASSUME NEW k \in {"push", "remove"}, NEW e \in Delegate, k # kind \/ e # d
      PROVE  Posted(k, e)' <=> Posted(k, e)
  <2>1. Head(msgs) # Msg(k, e)
    BY <1>4, <1>6 DEF Msg
  <2>. QED  BY <1>2, <2>1
<1>7. kind = "remove" => ~ Posted("push", d)
  BY <1>2, <1>4
<1>. QED  BY <1>3, <1>4, <1>5, <1>6, <1>7

LEMMA PushInv == ASSUME IInv, MsgTimerPush PROVE IInv'
<1>. USE DEF IInv
<1>1. /\ Take("push") /\ UNCHANGED <<now, clientVars, mFutureTime, deleted, fdVars, poll>>
      /\ UNCHANGED <<popped, client, timerOfNow>>
  BY DEF MsgTimerPush
<1>2. /\ task = "idle" /\ OrderInv' /\ msgs' \in Seq(MsgType)
      /\ \A i \in DOMAIN msgs' : msgs'[i].kind # "expire" => msgs'[i].d \in Delegate
  BY <1>1, TakeMsg
<1>3. PICK d \in Delegate :
          /\ Head(msgs).d = d /\ Posted("push", d) /\ ~ Posted("push", d)'
          /\ \A k \in {"push", "remove"} : \A e \in Delegate :
               k # "push" \/ e # d => (Posted(k, e)' <=> Posted(k, e))
  BY <1>1, TakeDelegate
<1>4. /\ heap' = heap \union {d} /\ top' \in {d, top} /\ (top = None => top' = d)
      /\ task' \in {"idle", "addPoll"} /\ (task' = "addPoll" => top' = d)
  BY <1>3 DEF MsgTimerPush, Push
<1>5. d # None /\ fate[d] # "unborn" /\ d \notin deleted
  BY <1>3 DEF PlaceInv
<1>6. TypeOK'
  BY <1>1, <1>2, <1>4, <1>5 DEF TypeOK, MsgType, clientVars, fdVars
<1>7. TaskInv' /\ LinkInv'
  BY <1>1, <1>2, <1>4, <1>5 DEF TaskInv, LinkInv, clientVars
<1>8. ASSUME NEW e \in Delegate PROVE PlaceInv(e)'
  <2>1. /\ ~ InHand(e) /\ ~ InHand(e)' /\ task \notin {"expire", "stop"}
        /\ (Ended(e)' <=> Ended(e)) /\ deleted' = deleted /\ fate' = fate
    BY <1>1, <1>2, <1>4 DEF InHand, Ended, clientVars
  <2>2. PlaceInv(e) /\ (Posted("remove", e)' <=> Posted("remove", e))
    BY <1>3
  <2>3. CASE e = d
    BY <1>3, <1>4, <1>5, <2>1, <2>2, <2>3 DEF PlaceInv
  <2>4. CASE e # d
    <3>1. (Posted("push", e)' <=> Posted("push", e)) /\ (e \in heap' <=> e \in heap)
      BY <1>3, <1>4, <2>4
    <3>. QED  BY <2>1, <2>2, <3>1 DEF PlaceInv
  <2>. QED  BY <2>3, <2>4
<1>. QED  BY <1>2, <1>6, <1>7, <1>8

LEMMA RemoveInv == ASSUME IInv, MsgTimerRemove PROVE IInv'
<1>. USE DEF IInv
<1>1. /\ Take("remove") /\ UNCHANGED <<now, clientVars, mFutureTime, fdVars, poll>>
      /\ UNCHANGED <<popped, client, timerOfNow>>
  BY DEF MsgTimerRemove
<1>2. /\ task = "idle" /\ OrderInv' /\ msgs' \in Seq(MsgType)
      /\ \A i \in DOMAIN msgs' : msgs'[i].kind # "expire" => msgs'[i].d \in Delegate
  BY <1>1, TakeMsg
<1>3. PICK d \in Delegate :
          /\ Head(msgs).d = d /\ Posted("remove", d) /\ ~ Posted("remove", d)'
          /\ ~ Posted("push", d)
          /\ \A k \in {"push", "remove"} : \A e \in Delegate :
               k # "remove" \/ e # d => (Posted(k, e)' <=> Posted(k, e))
  BY <1>1, TakeDelegate
<1>4. /\ heap' = heap \ {d} /\ heap' \subseteq Delegate
      /\ top' \in heap' \union {None} /\ (top' = None <=> heap' = {})
      /\ deleted' = deleted \union {d}
      /\ task' \in {"idle", "addPoll"} /\ (task' = "addPoll" => top' # None)
  BY <1>3, RemoveTop DEF MsgTimerRemove
<1>5. TypeOK'
  BY <1>1, <1>2, <1>4 DEF TypeOK, MsgType, clientVars, fdVars
<1>6. TaskInv' /\ LinkInv'
  BY <1>1, <1>2, <1>4 DEF TaskInv, LinkInv, clientVars
<1>7. ASSUME NEW e \in Delegate PROVE PlaceInv(e)'
  <2>1. /\ ~ InHand(e) /\ ~ InHand(e)' /\ task \notin {"expire", "stop"}
        /\ (Ended(e)' <=> Ended(e)) /\ fate' = fate
    BY <1>1, <1>2, <1>4 DEF InHand, Ended, clientVars
  <2>2. PlaceInv(e) /\ (Posted("push", e)' <=> Posted("push", e))
    BY <1>3
  <2>3. CASE e = d
    <3>1. Ended(e) /\ Ended(e)' /\ fate[e] \notin {"unborn", "ticking"}
      BY <1>3, <2>1, <2>2, <2>3 DEF PlaceInv, Ended
    <3>2. /\ ~ Posted("push", e)' /\ ~ Posted("remove", e)'
          /\ e \notin heap' /\ e \in deleted'
      BY <1>3, <1>4, <2>2, <2>3
    <3>. QED  BY <2>1, <3>1, <3>2 DEF PlaceInv
  <2>4. CASE e # d
    <3>1. /\ Posted("remove", e)' <=> Posted("remove", e)
          /\ e \in heap' <=> e \in heap
          /\ e \in deleted' <=> e \in deleted
      BY <1>3, <1>4, <2>4
    <3>. QED  BY <2>1, <2>2, <3>1 DEF PlaceInv
  <2>. QED  BY <2>3, <2>4
<1>. QED  BY <1>2, <1>5, <1>6, <1>7

\* The top is popped to be expired.
LEMMA PopPlaces ==
    ASSUME IInv, Remove(top), popped' = top, task' = "expire", top # None,
           task \in {"idle", "next"}, UNCHANGED <<fate, deleted>>,
           \A d \in Delegate : /\ Posted("push", d)' <=> Posted("push", d)
                               /\ Posted("remove", d)' <=> Posted("remove", d)
    PROVE  \A d \in Delegate : PlaceInv(d)'
<1>. USE DEF IInv
<1>1. top \in heap /\ heap' = heap \ {top}
  BY RemoveTop DEF TypeOK
<1>2. ASSUME NEW d \in Delegate PROVE PlaceInv(d)'
  <2>1. /\ Ended(d)' <=> Ended(d)
        /\ InHand(d)' <=> d = top
        /\ popped' = d /\ task' \in {"expire", "stop"} <=> d = top
    BY DEF InHand, Ended
  <2>2. PlaceInv(d) /\ task \notin {"expire", "stop"}
    OBVIOUS
  <2>3. CASE d = top
    BY <1>1, <2>1, <2>2, <2>3 DEF PlaceInv
  <2>4. CASE d # top
    BY <1>1, <2>1, <2>2, <2>4 DEF PlaceInv
  <2>. QED  BY <2>3, <2>4
<1>. QED  BY <1>2

LEMMA ExpireMsgInv == ASSUME IInv, MsgTimerExpire PROVE IInv'
<1>. USE DEF IInv
<1>1. /\ Take("expire") /\ UNCHANGED <<now, clientVars, mFutureTime, deleted, fdVars, poll, client>>
      /\ timerOfNow' = now
  BY DEF MsgTimerExpire
<1>2. /\ task = "idle" /\ OrderInv' /\ msgs' \in Seq(MsgType)
      /\ \A i \in DOMAIN msgs' : msgs'[i].kind # "expire" => msgs'[i].d \in Delegate
      /\ \A d : /\ Posted("push", d)' <=> Posted("push", d)
                /\ Posted("remove", d)' <=> Posted("remove", d)
  BY <1>1, TakeMsg
<1>3. CASE top # None /\ Remove(top) /\ popped' = top /\ task' = "expire"
  <2>1. /\ heap' \subseteq Delegate /\ top' \in heap' \union {None}
        /\ (top' = None <=> heap' = {}) /\ popped' \in Delegate
    BY <1>3, RemoveTop DEF TypeOK
  <2>2. TypeOK'
    BY <1>1, <1>2, <1>3, <2>1 DEF TypeOK, MsgType, clientVars, fdVars
  <2>3. TaskInv' /\ LinkInv'
    BY <1>1, <1>2, <1>3, <2>1 DEF TaskInv, LinkInv, clientVars
  <2>4. \A d \in Delegate : PlaceInv(d)'
    BY <1>1, <1>2, <1>3, PopPlaces DEF clientVars
  <2>. QED  BY <1>2, <2>2, <2>3, <2>4
<1>4. CASE top = None /\ task' = "idle" /\ UNCHANGED <<heapVars, popped>>
  <2>1. TypeOK'
    BY <1>1, <1>2, <1>4 DEF TypeOK, MsgType, clientVars, heapVars, fdVars
  <2>2. TaskInv' /\ LinkInv'
    BY <1>1, <1>2, <1>4 DEF TaskInv, LinkInv, clientVars, heapVars
  <2>3. ASSUME NEW d \in Delegate PROVE PlaceInv(d)'
    <3>1. /\ ~ InHand(d) /\ ~ InHand(d)' /\ (Ended(d)' <=> Ended(d))
          /\ heap' = heap /\ deleted' = deleted /\ fate' = fate /\ popped' = popped /\ task' = task
      BY <1>1, <1>2, <1>4 DEF InHand, Ended, clientVars, heapVars
    <3>2. PlaceInv(d)
      OBVIOUS
    <3>. QED  BY <1>2, <3>1, <3>2 DEF PlaceInv
  <2>. QED  BY <1>2, <2>1, <2>2, <2>3
<1>. QED  BY <1>3, <1>4 DEF MsgTimerExpire

\* Steps of the MsgTask's thread that only change its program counter, the
\* timerfd, or the client it has read.
LEMMA TaskStepInv ==
    ASSUME IInv, AddPoll \/ SetTime \/ Expire \/ TimeOutCallback
    PROVE  IInv'
<1>. USE DEF IInv
<1>1. CASE AddPoll \/ SetTime
  <2>1. LinkInv' /\ OrderInv' /\ \A d \in Delegate : PlaceInv(d)'
    BY <1>1, PlacesSame DEF AddPoll, SetTime, clientVars
  <2>2. TaskInv'
    BY <1>1 DEF TaskInv, AddPoll, SetTime, clientVars, heapVars
  <2>3. CASE AddPoll
    <3>1. TypeOK'
      BY <2>3 DEF TypeOK, AddPoll, clientVars, heapVars
    <3>. QED  BY <2>1, <2>2, <3>1
  <2>4. CASE SetTime
    <3>1. top \in Delegate /\ mFutureTime[top] \in 0..MaxTime
      BY <2>4 DEF TypeOK, TaskInv, SetTime
    <3>2. TypeOK'
      BY <2>4, <3>1 DEF TypeOK, SetTime, clientVars, heapVars
    <3>. QED  BY <2>1, <2>2, <3>2
  <2>. QED  BY <1>1, <2>3, <2>4
<1>2. CASE Expire
  <2>1. popped \in Delegate /\ mClient[popped] \in Client \union {None}
    BY <1>2 DEF TaskInv, TypeOK, Expire
  <2>2. /\ client' = mClient[popped] /\ task' \in {"stop", "next"}
        /\ task' = "next" <=> mClient[popped] = None
    BY <1>2, <2>1 DEF Expire
  <2>3. fate[popped] = "ticking" => task' = "stop"
    BY <2>1, <2>2 DEF LinkInv
  <2>4. LinkInv' /\ OrderInv' /\ \A d \in Delegate : PlaceInv(d)'
    BY <1>2, <2>2, <2>3, PlacesSame DEF Expire, clientVars
  <2>5. TaskInv'
    BY <1>2, <2>1, <2>2 DEF TaskInv, Expire, clientVars, heapVars
  <2>6. TypeOK'
    BY <1>2, <2>1, <2>2 DEF TypeOK, Expire, clientVars, heapVars, fdVars
  <2>. QED  BY <2>4, <2>5, <2>6
<1>3. CASE TimeOutCallback
  <2>1. LinkInv' /\ OrderInv' /\ \A d \in Delegate : PlaceInv(d)'
    BY <1>3, PlacesSame DEF TimeOutCallback, clientVars
  <2>2. TaskInv'
    BY <1>3 DEF TaskInv, TimeOutCallback, clientVars, heapVars
  <2>3. TypeOK'
    BY <1>3 DEF TypeOK, TimeOutCallback, clientVars, heapVars, fdVars
  <2>. QED  BY <2>1, <2>2, <2>3
<1>. QED  BY <1>1, <1>2, <1>3

\* If the thread finds its client without a timer, the delegate it holds is
\* not the client's any more.
LEMMA ExpireStopInv == ASSUME IInv, ExpireStop PROVE IInv'
<1>. USE DEF IInv
<1>1. CASE client \in alive /\ mTimer[client] # None /\ StopAs(client, "fired") /\ task' = "callback"
  <2>1. task = "stop" /\ UNCHANGED <<alive, heapVars, deleted, popped, client>>
    BY DEF ExpireStop
  <2>2. /\ mTimer' \in [Client -> Delegate \union {None}]
        /\ mClient' \in [Delegate -> Client \union {None}]
        /\ fate' \in [Delegate -> {"unborn", "ticking", "stopped", "fired"}]
        /\ msgs' \in Seq(MsgType)
        /\ TaskInv' /\ LinkInv' /\ OrderInv' /\ \A d \in Delegate : PlaceInv(d)'
    BY <1>1, <2>1, StopAsInv
  <2>3. TypeOK'
    BY <1>1, <2>2 DEF TypeOK, MsgType, ExpireStop, heapVars, fdVars
  <2>. QED  BY <2>2, <2>3
<1>2. CASE /\ ~ (client \in alive /\ mTimer[client] # None) /\ task' = "next"
           /\ UNCHANGED <<mTimer, mClient, fate, msgs>>
  <2>1. popped \in Delegate /\ client \in Client /\ mClient[popped] \in {client, None} /\ task = "stop"
    BY DEF TaskInv, ExpireStop
  <2>2. mTimer[client] = None
    BY <1>2, <2>1 DEF LinkInv
  <2>3. mClient[popped] # client
    BY <2>1, <2>2 DEF LinkInv
  <2>4. fate[popped] # "ticking"
    BY <2>1, <2>3 DEF LinkInv
  <2>5. LinkInv' /\ OrderInv' /\ \A d \in Delegate : PlaceInv(d)'
    BY <1>2, <2>1, <2>4, PlacesSame DEF ExpireStop
  <2>6. TaskInv'
    BY <1>2 DEF TaskInv, ExpireStop, heapVars
  <2>7. TypeOK'
    BY <1>2 DEF TypeOK, ExpireStop, heapVars, fdVars
  <2>. QED  BY <2>5, <2>6, <2>7
<1>. QED  BY <1>1, <1>2 DEF ExpireStop

LEMMA ExpireNextInv == ASSUME IInv, ExpireNext PROVE IInv'
<1>. USE DEF IInv
<1>1. /\ task = "next" /\ client' = None
      /\ UNCHANGED <<now, clientVars, mFutureTime, deleted, msgs, fdVars, poll, timerOfNow>>
  BY DEF ExpireNext
<1>2. LinkInv' /\ OrderInv'
  BY <1>1 DEF LinkInv, OrderInv, clientVars
<1>3. CASE top # None /\ Remove(top) /\ popped' = top /\ task' = "expire"
  <2>1. /\ heap' \subseteq Delegate /\ top' \in heap' \union {None}
        /\ (top' = None <=> heap' = {}) /\ popped' \in Delegate
    BY <1>3, RemoveTop DEF TypeOK
  <2>2. TypeOK'
    BY <1>1, <1>3, <2>1 DEF TypeOK, clientVars, fdVars
  <2>3. TaskInv'
    BY <1>1, <1>3, <2>1 DEF TaskInv
  <2>4. \A d \in Delegate : /\ Posted("push", d)' <=> Posted("push", d)
                            /\ Posted("remove", d)' <=> Posted("remove", d)
    BY <1>1 DEF Posted, Msg
  <2>5. \A d \in Delegate : PlaceInv(d)'
    BY <1>1, <1>3, <2>4, PopPlaces DEF clientVars
  <2>. QED  BY <1>2, <2>2, <2>3, <2>5
<1>4. CASE /\ task' \in {"addPoll", "idle"} /\ (task' = "addPoll" => top # None)
           /\ popped' = None /\ UNCHANGED heapVars
  <2>1. TypeOK'
    BY <1>1, <1>4 DEF TypeOK, clientVars, heapVars, fdVars
  <2>2. TaskInv'
    BY <1>1, <1>4 DEF TaskInv, heapVars
  <2>3. ASSUME NEW d \in Delegate PROVE PlaceInv(d)'
    <3>1. /\ ~ InHand(d)' /\ (Ended(d)' <=> Ended(d)) /\ task \notin {"expire", "stop"}
          /\ heap' = heap /\ deleted' = deleted /\ fate' = fate
      BY <1>1, <1>4 DEF InHand, Ended, clientVars, heapVars
    <3>2. /\ Posted("push", d)' <=> Posted("push", d)
          /\ Posted("remove", d)' <=> Posted("remove", d)
      BY <1>1 DEF Posted, Msg
    <3>3. PlaceInv(d)
      OBVIOUS
    <3>. QED  BY <3>1, <3>2, <3>3 DEF PlaceInv
  <2>. QED  BY <1>2, <2>1, <2>2, <2>3
<1>. QED  BY <1>3, <1>4 DEF ExpireNext

-----------------------------------------------------------------------------

LEMMA StepInv == IInv /\ [Next]_vars => IInv'
<1>. SUFFICES ASSUME IInv, [Next]_vars PROVE IInv'
  OBVIOUS
<1>1. CASE UNCHANGED vars
  <2>1. LinkInv' /\ OrderInv' /\ \A d \in Delegate : PlaceInv(d)'
    BY <1>1, PlacesSame DEF vars, clientVars, taskVars
  <2>2. TypeOK' /\ TaskInv'
    BY <1>1 DEF IInv, TypeOK, TaskInv, vars, clientVars, heapVars, fdVars, taskVars
  <2>. QED  BY <2>1, <2>2 DEF IInv
<1>2. CASE \E c \in Client, d \in Delegate, delay \in Delay : Start(c, d, delay)
  BY <1>2, StartInv
<1>3. CASE \E c \in Client : Stop(c) \/ Delete(c)
  BY <1>3, StopInv, DeleteInv
<1>4. CASE Tick
  BY <1>4, TickInv
<1>5. CASE TaskNext
  BY <1>5, PushInv, RemoveInv, ExpireMsgInv, TaskStepInv, ExpireStopInv, ExpireNextInv DEF TaskNext
<1>6. CASE PollNext
  BY <1>6, PollInv, PostInv DEF PollNext
<1>. QED  BY <1>1, <1>2, <1>3, <1>4, <1>5, <1>6 DEF Next

LEMMA Invariance == Spec => []IInv
  BY InitInv, StepInv, PTL DEF Spec

\* Every variable keeps its type: in particular the timerfd is never set to
\* the time of a timer that is not there (LocTimerContainer::updateSoonestTime).
THEOREM TypeCorrect == Spec => []TypeOK
<1>1. IInv => TypeOK
  BY DEF IInv
<1>. QED  BY <1>1, Invariance, PTL

\* However starts, stops, deletions of clients and expiries interleave, no
\* delegate is used after its removal message has deleted it.
THEOREM DelegatesCorrect == Spec => []DelegatesLiveWhileUsed
<1>1. IInv => DelegatesLiveWhileUsed
  BY DEF IInv, DelegatesLiveWhileUsed, PlaceInv, InHand, TypeOK
<1>. QED  BY <1>1, Invariance, PTL

\* A running timer is always on its way to the heap, in it, or in the hands of
\* the thread that expires it; one that has ended is in none of these places.
THEOREM TimersKept == Spec => []TickingTimersAreKept
<1>1. IInv => TickingTimersAreKept
  <2>. SUFFICES ASSUME IInv, NEW d \in Delegate
                PROVE  fate[d] = "ticking" <=>
                           \/ Posted("push", d) /\ ~ Posted("remove", d)
                           \/ d \in heap /\ ~ Posted("remove", d)
                           \/ popped = d /\ task \in {"expire", "stop"} /\ mClient[d] # None
    BY DEF TickingTimersAreKept
  <2>1. /\ PlaceInv(d) /\ fate[d] \in {"unborn", "ticking", "stopped", "fired"}
        /\ fate[d] = "ticking" <=> mClient[d] # None
    BY DEF IInv, TypeOK, LinkInv
  <2>2. CASE fate[d] = "ticking"
    BY <2>1, <2>2 DEF PlaceInv, Ended
  <2>3. CASE fate[d] # "ticking"
    BY <2>1, <2>3 DEF PlaceInv, Ended
  <2>. QED  BY <2>2, <2>3
<1>. QED  BY <1>1, Invariance, PTL

-----------------------------------------------------------------------------
(* The timerfd *)

\* No expiry is on its way from the polling thread to the MsgTask's.
NoExpiry == poll = "wait" /\ ~ Posted("expire", None)

\* Whatever the polling thread undoes, its expiry makes the other thread redo.
ArmedInv == NoExpiry => ArmedForSoonest /\ (task = "setTime" => polled)

\* An expiry that is posted stays so while other messages come and go.
LEMMA ExpiryStays ==
    ASSUME IInv, NEW kind \in {"push", "remove"}, Take(kind), UNCHANGED poll
    PROVE  NoExpiry' => NoExpiry
<1>1. msgs \in Seq(MsgType) /\ msgs # <<>> /\ msgs' = Tail(msgs) /\ Head(msgs).kind = kind /\ OrderInv
  BY DEF IInv, TypeOK, MsgType, Take
<1>2. Head(msgs) # Msg("expire", None)
  BY <1>1 DEF Msg
<1>3. Posted("expire", None) => Posted("expire", None)'
  BY <1>1, <1>2, TailMsg
<1>. QED  BY <1>3 DEF NoExpiry

\* A message posted at the end takes no expiry away.
LEMMA ExpiryStaysPosted ==
    ASSUME IInv, NEW m \in MsgType, msgs' = Append(msgs, m), UNCHANGED poll
    PROVE  NoExpiry' => NoExpiry
<1>1. Posted("expire", None) => Posted("expire", None)'
  BY AppendMsg DEF IInv, TypeOK, MsgType
<1>. QED  BY <1>1 DEF NoExpiry

LEMMA ArmedStep == IInv /\ ArmedInv /\ [Next]_vars => ArmedInv'
<1>. SUFFICES ASSUME IInv, ArmedInv, [Next]_vars, NoExpiry'
              PROVE  ArmedForSoonest' /\ (task' = "setTime" => polled')
  BY DEF ArmedInv
<1>1. ASSUME NoExpiry, UNCHANGED <<heapVars, fdVars, task>>, top # None => mFutureTime'[top] = mFutureTime[top]
      PROVE  ArmedForSoonest' /\ (task' = "setTime" => polled')
  <2>1. heap # {} => top # None
    BY DEF IInv, TypeOK
  <2>. QED  BY <1>1, <2>1 DEF ArmedInv, ArmedForSoonest, NoExpiry, heapVars, fdVars
<1>2. ASSUME NEW c \in Client, NEW d \in Delegate, NEW delay \in Delay, Start(c, d, delay)
      PROVE  ArmedForSoonest' /\ (task' = "setTime" => polled')
  <2>1. NoExpiry
    BY <1>2, ExpiryStaysPosted DEF Start, Msg, MsgType
  <2>2. top # None => top \in Delegate /\ fate[top] # "unborn"
    BY DEF IInv, TypeOK, PlaceInv
  <2>3. top # None => mFutureTime'[top] = mFutureTime[top]
    BY <1>2, <2>2 DEF Start, IInv, TypeOK
  <2>. QED  BY <1>1, <1>2, <2>1, <2>3 DEF Start, taskVars
<1>3. ASSUME NEW c \in Client, NEW end, StopAs(c, end), c \in alive, mTimer[c] # None, UNCHANGED poll
      PROVE  NoExpiry
  <2>1. mTimer[c] \in Delegate
    BY <1>3 DEF IInv, TypeOK
  <2>. QED  BY <1>3, <2>1, ExpiryStaysPosted DEF StopAs, Msg, MsgType
<1>4. ASSUME NEW c \in Client, Stop(c) \/ Delete(c)
      PROVE  ArmedForSoonest' /\ (task' = "setTime" => polled')
  <2>1. NoExpiry
    <3>1. CASE mTimer[c] # None
      BY <1>3, <1>4, <3>1 DEF Stop, Delete
    <3>2. CASE mTimer[c] = None
      BY <1>4, <3>2 DEF Stop, Delete, NoExpiry, Posted, Msg
    <3>. QED  BY <3>1, <3>2
  <2>. QED  BY <1>1, <1>4, <2>1 DEF Stop, Delete, taskVars
<1>5. CASE Tick \/ UNCHANGED vars
  <2>1. NoExpiry
    BY <1>5 DEF Tick, vars, NoExpiry, Posted, Msg
  <2>. QED  BY <1>1, <1>5, <2>1 DEF Tick, vars, taskVars
<1>6. CASE MsgTimerPush
  <2>1. NoExpiry
    BY <1>6, ExpiryStays DEF MsgTimerPush
  <2>2. task = "idle" /\ task' \in {"idle", "addPoll"} /\ (task' = "idle" => top' = top)
        /\ UNCHANGED <<fdVars, mFutureTime>> /\ Push(Head(msgs).d)
    BY <1>6 DEF MsgTimerPush, Take
  <2>3. task' = "idle" => heap # {}
    <3>1. Head(msgs).d # None
      BY <1>6, TakeDelegate DEF MsgTimerPush
    <3>. QED  BY <2>2, <3>1 DEF Push, IInv, TypeOK
  <2>. QED  BY <2>1, <2>2, <2>3 DEF ArmedInv, ArmedForSoonest, NoExpiry, fdVars
<1>7. CASE MsgTimerRemove
  <2>1. NoExpiry
    BY <1>7, ExpiryStays DEF MsgTimerRemove
  <2>2. /\ task = "idle" /\ task' \in {"idle", "addPoll"} /\ UNCHANGED <<fdVars, mFutureTime>>
        /\ Remove(Head(msgs).d)
        /\ task' = "idle" => Head(msgs).d # top \/ top' = None
    BY <1>7 DEF MsgTimerRemove, Take
  <2>3. heap' = heap \ {Head(msgs).d} /\ (top' = None <=> heap' = {})
    BY <2>2, RemoveTop DEF IInv
  <2>4. task' = "idle" /\ heap' # {} => top' = top /\ heap # {}
    BY <2>2, <2>3 DEF Remove
  <2>. QED  BY <2>1, <2>2, <2>4 DEF ArmedInv, ArmedForSoonest, NoExpiry, fdVars
<1>8. CASE MsgTimerExpire
  <2>1. task' = "expire" \/ (task' = "idle" /\ heap' = heap /\ top = None)
    BY <1>8 DEF MsgTimerExpire, heapVars
  <2>. QED  BY <2>1 DEF ArmedForSoonest, IInv, TypeOK
<1>9. CASE AddPoll
  BY <1>9 DEF AddPoll, ArmedForSoonest
<1>10. CASE SetTime
  <2>1. NoExpiry
    BY <1>10 DEF SetTime, NoExpiry, Posted, Msg
  <2>2. polled' /\ armed' = mFutureTime[top] /\ UNCHANGED <<heapVars, mFutureTime>> /\ task' = "idle"
    BY <1>10, <2>1 DEF SetTime, ArmedInv
  <2>3. top \in Delegate /\ mFutureTime[top] \in 0..MaxTime
    BY <1>10 DEF SetTime, IInv, TypeOK, TaskInv
  <2>. QED  BY <2>2, <2>3 DEF ArmedForSoonest, heapVars
<1>11. CASE Expire \/ ExpireStop \/ TimeOutCallback
  BY <1>11 DEF Expire, ExpireStop, TimeOutCallback, ArmedForSoonest
<1>12. CASE ExpireNext
  <2>1. task' \in {"expire", "addPoll"} \/ (task' = "idle" /\ heap' = heap /\ top = None)
    BY <1>12 DEF ExpireNext, heapVars
  <2>. QED  BY <2>1 DEF ArmedForSoonest, IInv, TypeOK
<1>13. CASE PollNext
  <2>1. ~ NoExpiry'
    <3>1. CASE Post
      <4>1. msgs \in Seq(MsgType) /\ Msg("expire", None) \in MsgType /\ msgs' = Append(msgs, Msg("expire", None))
        BY <3>1 DEF Post, IInv, TypeOK, Msg, MsgType
      <4>2. Posted("expire", None)'
        BY <4>1, AppendMsg
      <4>. QED  BY <4>2 DEF NoExpiry
    <3>. QED  BY <1>13, <3>1 DEF PollNext, Wakeup, Disarm, RemovePoll, Poll, NoExpiry
  <2>. QED  BY <2>1
<1>. QED  BY <1>2, <1>4, <1>5, <1>6, <1>7, <1>8, <1>9, <1>10, <1>11, <1>12, <1>13 DEF Next, TaskNext

\* No timer is slept through: with no expiry under way the timerfd is polled
\* and set for the soonest timer or sooner, although the polling thread
\* disarms it while the other thread may be setting it.
THEOREM ArmedCorrect == Spec => []ArmedForSoonest
<1>1. Init => ArmedInv
  BY DEF Init, ArmedInv, ArmedForSoonest
<1>2. Spec => []ArmedInv
  BY <1>1, ArmedStep, Invariance, PTL DEF Spec
<1>3. ArmedInv => ArmedForSoonest
  BY DEF ArmedInv, ArmedForSoonest, NoExpiry
<1>. QED  BY <1>2, <1>3, PTL
=============================================================================

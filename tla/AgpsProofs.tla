----------------------------- MODULE AgpsProofs -----------------------------
(***************************************************************************)
(* Proofs about Agps: its type invariant, that a state machine's state     *)
(* agrees with its subscriber list, and that the modem never believes a    *)
(* call open that no machine holds.  The last two are inductive together   *)
(* with the types: a handle loses its subscription only in a handler that  *)
(* tells the modem, and a machine leaves ACQUIRED only by dropping every   *)
(* subscriber or when all of them are inactive.  That no listed handle is  *)
(* forgotten needs more: a handle is in one place, in the list of a single *)
(* machine or in a single request that waits.                              *)
(***************************************************************************)
EXTENDS Agps, TLAPS

USE EnvironmentAssumption

\* What the head of the queue offers to the handlers of MsgTask.
LEMMA HeadOfQueue ==
    ASSUME TypeOK, msgQ # <<>>
    PROVE  /\ Head(msgQ) \in Msg
           /\ Tail(msgQ) \in Seq(Msg)
           /\ Head(msgQ).kind = "REQUEST" =>
                 Head(msgQ).handle \in Handle /\ Head(msgQ).nif \in Nif
           /\ Head(msgQ).kind = "RELEASE" => Head(msgQ).handle \in Handle
           /\ Head(msgQ).kind \in {"OPEN", "CLOSED", "FAILED"} =>
                 Head(msgQ).nif \in Nif
<1>1. Head(msgQ) \in Msg /\ Tail(msgQ) \in Seq(Msg)
  BY DEF TypeOK
<1>. QED  BY <1>1 DEF Msg

Command == {"REQUEST", "RELEASE"}

ModemState == {"idle", "opening", "open", "closing"}

\* The part of the type invariant the handlers of a state machine maintain.
MachineTypeOK ==
    /\ mState \in [Nif -> State]
    /\ subscribers \in [Nif -> SUBSET Handle]
    /\ inactive \in [Nif -> SUBSET WaitForClose]
    /\ \A n \in Nif : inactive[n] \subseteq subscribers[n]
    /\ toFramework \in [Nif -> Seq(Command)]
    /\ modem \in [Handle -> ModemState]

\* The inductive invariant of the state machines.
MachineInv == MachineTypeOK /\ LeaseMatchesSubscribers /\ OpenOnlyWhileHeld

LEMMA TypeOKMachine == TypeOK => MachineTypeOK
  BY DEF TypeOK, MachineTypeOK, Command, ModemState

\* Commands to the framework and answers to the modem keep their types.
LEMMA SendTyped ==
    ASSUME NEW commands \in [Nif -> Seq(Command)], NEW n \in Nif,
           NEW command \in Command, SendToFramework(commands, n, command)
    PROVE  toFramework' \in [Nif -> Seq(Command)]
<1>1. Append(commands[n], command) \in Seq(Command)
  OBVIOUS
<1>. QED  BY <1>1 DEF SendToFramework

LEMMA AnswerTyped ==
    ASSUME modem \in [Handle -> ModemState], NEW H, AtlOpened(H) \/ AtlEnded(H)
    PROVE  modem' \in [Handle -> ModemState]
  BY DEF AtlOpened, AtlEnded, ModemState

\* Each event of a state machine preserves the invariant of the machines.
LEMMA SubscribeInv ==
    ASSUME MachineInv, NEW n \in Nif, NEW h \in Handle, ProcessSubscribe(n, h)
    PROVE  MachineInv'
<1>. USE DEF MachineInv, ProcessSubscribe, AddSubscriber
<1>1. toFramework' \in [Nif -> Seq(Command)]
  BY SendTyped DEF MachineTypeOK, Command
<1>2. modem' \in [Handle -> ModemState]
  BY AnswerTyped DEF MachineTypeOK
<1>3. MachineTypeOK'
  BY <1>1, <1>2 DEF MachineTypeOK, State, TransitionState
<1>4. LeaseMatchesSubscribers'
  BY DEF MachineTypeOK, LeaseMatchesSubscribers, active, TransitionState
<1>5. OpenOnlyWhileHeld'
  BY DEF MachineTypeOK, LeaseMatchesSubscribers, OpenOnlyWhileHeld, active, TransitionState, AtlOpened
<1>. QED  BY <1>3, <1>4, <1>5

LEMMA UnsubscribeInv ==
    ASSUME MachineInv, NEW n \in Nif, NEW h \in Handle, h \in subscribers[n],
           ProcessUnsubscribe(n, h)
    PROVE  MachineInv'
<1>. USE DEF MachineInv
<1>1. toFramework' \in [Nif -> Seq(Command)]
  BY SendTyped DEF MachineTypeOK, Command, ProcessUnsubscribe
<1>2. modem' \in [Handle -> ModemState]
  BY AnswerTyped DEF MachineTypeOK, ProcessUnsubscribe, Retire
<1>3. /\ subscribers' \in [Nif -> SUBSET Handle]
      /\ inactive' \in [Nif -> SUBSET WaitForClose]
      /\ \A k \in Nif : inactive'[k] \subseteq subscribers'[k]
      /\ \A k \in Nif \ {n} : /\ subscribers'[k] = subscribers[k]
                              /\ inactive'[k] = inactive[k]
  <2>1. Retire(n, h) /\ MachineTypeOK
    BY DEF ProcessUnsubscribe
  <2>2. CASE h \in WaitForClose
    <3>1. /\ subscribers' = subscribers
          /\ inactive' = [inactive EXCEPT ![n] = inactive[n] \union {h}]
          /\ inactive[n] \union {h} \in SUBSET WaitForClose
      BY <2>1, <2>2 DEF Retire, MachineTypeOK
    <3>. QED  BY <3>1, <2>1 DEF MachineTypeOK
  <2>3. CASE h \notin WaitForClose
    <3>1. /\ subscribers' = [subscribers EXCEPT ![n] = subscribers[n] \ {h}]
          /\ inactive' = [inactive EXCEPT ![n] = inactive[n] \ {h}]
          /\ subscribers[n] \ {h} \in SUBSET Handle
          /\ inactive[n] \ {h} \in SUBSET WaitForClose
      BY <2>1, <2>3 DEF Retire, Drop, MachineTypeOK
    <3>. QED  BY <3>1, <2>1 DEF MachineTypeOK
  <2>. QED  BY <2>2, <2>3
<1>4. mState' \in [Nif -> State] /\ \A k \in Nif \ {n} : mState'[k] = mState[k]
  BY DEF MachineTypeOK, ProcessUnsubscribe, TransitionState, State
<1>5. MachineTypeOK'
  BY <1>1, <1>2, <1>3, <1>4 DEF MachineTypeOK
<1>6. /\ mState'[n] = "RELEASED" <=> subscribers'[n] = {}
      /\ mState'[n] \in {"PENDING", "ACQUIRED"} => active(n)' # {}
  <2>1. mState[n] # "RELEASED"
    BY DEF LeaseMatchesSubscribers
  <2>. QED  BY <1>3, <1>4, <2>1
            DEF ProcessUnsubscribe, TransitionState, MachineTypeOK, State, active
<1>7. LeaseMatchesSubscribers'
  BY <1>3, <1>4, <1>6 DEF LeaseMatchesSubscribers, active
<1>8. OpenOnlyWhileHeld'
  <2> SUFFICES ASSUME NEW g \in Handle, modem'[g] = "open"
               PROVE  \E k \in Nif :
                        /\ g \in subscribers'[k]
                        /\ \/ mState'[k] = "ACQUIRED"
                           \/ mState'[k] = "RELEASING" /\ g \in inactive'[k]
    BY DEF OpenOnlyWhileHeld
  <2>1. modem[g] = "open" /\ (g = h => h \in WaitForClose)
    BY DEF ProcessUnsubscribe, Retire, AtlEnded, MachineTypeOK
  <2>2. PICK k \in Nif : /\ g \in subscribers[k]
                         /\ \/ mState[k] = "ACQUIRED"
                            \/ mState[k] = "RELEASING" /\ g \in inactive[k]
    BY <2>1 DEF OpenOnlyWhileHeld
  <2>3. CASE k # n
    BY <2>2, <2>3, <1>3, <1>4
  <2>4. CASE k = n
    <3>1. g \in subscribers'[n] /\ (g \in inactive[n] => g \in inactive'[n])
      BY <2>1, <2>2, <2>4 DEF ProcessUnsubscribe, Retire, Drop, MachineTypeOK
    <3>2. \/ mState'[n] = "ACQUIRED"
          \/ mState'[n] = "RELEASING" /\ g \in inactive'[n]
      BY <2>2, <2>4, <3>1 DEF ProcessUnsubscribe, TransitionState, MachineTypeOK
    <3>. QED  BY <3>1, <3>2
  <2>. QED  BY <2>3, <2>4
<1>. QED  BY <1>5, <1>7, <1>8

LEMMA GrantedInv ==
    ASSUME MachineInv, NEW n \in Nif, ProcessGranted(n)
    PROVE  MachineInv'
<1>. USE DEF MachineInv, ProcessGranted
<1>1. MachineTypeOK'
  BY AnswerTyped DEF MachineTypeOK, State, TransitionState
<1>2. LeaseMatchesSubscribers'
  BY DEF MachineTypeOK, LeaseMatchesSubscribers, active, TransitionState
<1>3. OpenOnlyWhileHeld'
  BY DEF MachineTypeOK, OpenOnlyWhileHeld, active, TransitionState, AtlOpened
<1>. QED  BY <1>1, <1>2, <1>3

LEMMA FinishReleasingInv ==
    ASSUME MachineInv, NEW n \in Nif,
           NEW commands \in [Nif -> Seq(Command)], FinishReleasing(n, commands)
    PROVE  MachineInv'
<1>. USE DEF MachineInv, FinishReleasing, Drop
<1>1. toFramework' \in [Nif -> Seq(Command)]
  BY SendTyped DEF Command
<1>2. MachineTypeOK'
  BY <1>1, AnswerTyped DEF MachineTypeOK, State, TransitionState
<1>3. LeaseMatchesSubscribers'
  BY DEF MachineTypeOK, LeaseMatchesSubscribers, active, TransitionState
<1>4. OpenOnlyWhileHeld'
  BY DEF MachineTypeOK, LeaseMatchesSubscribers, OpenOnlyWhileHeld, active, TransitionState, AtlEnded
<1>. QED  BY <1>2, <1>3, <1>4

LEMMA EndAllInv ==
    ASSUME MachineInv, NEW n \in Nif,
           NEW commands \in [Nif -> Seq(Command)], EndAll(n, commands)
    PROVE  MachineInv'
<1>. USE DEF MachineInv, EndAll, Drop
<1>1. MachineTypeOK'
  BY AnswerTyped DEF MachineTypeOK, State, TransitionState
<1>2. LeaseMatchesSubscribers'
  BY DEF MachineTypeOK, LeaseMatchesSubscribers, active, TransitionState
<1>3. OpenOnlyWhileHeld'
  BY DEF MachineTypeOK, OpenOnlyWhileHeld, active, TransitionState, AtlEnded
<1>. QED  BY <1>1, <1>2, <1>3

LEMMA IgnoreInv ==
    ASSUME MachineInv, NEW commands \in [Nif -> Seq(Command)], Ignore(commands)
    PROVE  MachineInv'
  BY DEF MachineInv, MachineTypeOK, LeaseMatchesSubscribers, OpenOnlyWhileHeld,
         active, Ignore, machine

LEMMA ReleasedInv ==
    ASSUME MachineInv, NEW n \in Nif,
           NEW commands \in [Nif -> Seq(Command)], ProcessReleased(n, commands)
    PROVE  MachineInv'
  BY EndAllInv, FinishReleasingInv, IgnoreInv DEF ProcessReleased

LEMMA DeniedInv ==
    ASSUME MachineInv, NEW n \in Nif,
           NEW commands \in [Nif -> Seq(Command)], ProcessDenied(n, commands)
    PROVE  MachineInv'
  BY EndAllInv, FinishReleasingInv, IgnoreInv DEF ProcessDenied

-----------------------------------------------------------------------------

QueueTypeOK ==
    /\ msgQ \in Seq(Msg)
    /\ connection \in [Nif -> BOOLEAN]
    /\ requests \in 0..MaxRequests
    /\ drops \in 0..MaxDrops
    /\ restarts \in 0..MaxRestarts

\* The queue and the counters keep their types.
LEMMA TypeStep ==
    ASSUME TypeOK, MachineTypeOK', [Next]_vars
    PROVE  TypeOK'
<1>. QueueTypeOK
  BY DEF TypeOK, QueueTypeOK
<1>1. QueueTypeOK'
  <2>1. CASE MsgTask
    <3>1. \E k \in {"REQUEST", "RELEASE", "OPEN", "FAILED", "CLOSED"} : Receive(k)
      BY <2>1 DEF MsgTask, RequestATL, ReleaseATL, ReportAtlOpenSuccess,
                  ReportAtlOpenFailed, ReportAtlClosed
    <3>2. msgQ # <<>> /\ msgQ' = Tail(msgQ) /\ UNCHANGED <<connection, counts>>
      BY <3>1 DEF Receive
    <3>. QED  BY <3>2, HeadOfQueue DEF QueueTypeOK, counts
  <2>2. ASSUME NEW h \in Handle, NEW n \in Nif, ModemRequest(h, n)
        PROVE  QueueTypeOK'
    <3>1. [kind |-> "REQUEST", handle |-> h, nif |-> n] \in Msg
      BY DEF Msg
    <3>. QED  BY <2>2, <3>1 DEF ModemRequest, Send, QueueTypeOK
  <2>3. ASSUME NEW h \in Handle, ModemRelease(h)
        PROVE  QueueTypeOK'
    <3>1. [kind |-> "RELEASE", handle |-> h] \in Msg
      BY DEF Msg
    <3>. QED  BY <2>3, <3>1 DEF ModemRelease, Send, QueueTypeOK, counts
  <2>4. CASE ModemRestart
    BY <2>4 DEF ModemRestart, QueueTypeOK, queues
  <2>5. ASSUME NEW n \in Nif, Framework(n) \/ NetworkLost(n)
        PROVE  QueueTypeOK'
    <3>1. \A k \in {"OPEN", "FAILED", "CLOSED"} : [kind |-> k, nif |-> n] \in Msg
      BY DEF Msg
    <3>2. CASE Framework(n)
      <4>1. (\E m \in Msg : Send(m)) \/ UNCHANGED msgQ
        BY <3>1, <3>2 DEF Framework, FrameworkOpens, FrameworkFails, FrameworkCancels, FrameworkResultDropped,
             FrameworkOpensBadApn, FrameworkCloses, FrameworkCloseFails
      <4>2. /\ UNCHANGED counts
            /\ \/ UNCHANGED connection
               \/ \E b \in BOOLEAN : connection' = [connection EXCEPT ![n] = b]
        BY <3>2 DEF Framework, FrameworkOpens, FrameworkFails, FrameworkCancels, FrameworkResultDropped,
             FrameworkOpensBadApn, FrameworkCloses, FrameworkCloseFails
      <4>. QED  BY <4>1, <4>2 DEF Send, QueueTypeOK, counts
    <3>3. CASE NetworkLost(n)
      BY <3>1, <3>3 DEF NetworkLost, Send, QueueTypeOK
    <3>. QED  BY <2>5, <3>2, <3>3
  <2>6. CASE UNCHANGED vars
    BY <2>6 DEF vars, queues, counts, QueueTypeOK
  <2>. QED  BY <2>1, <2>2, <2>3, <2>4, <2>5, <2>6 DEF Next
<1>. QED  BY <1>1 DEF TypeOK, QueueTypeOK, MachineTypeOK, Command, ModemState

\* What is left of the commands once the first is taken is still a sequence.
LEMMA RestTyped ==
    ASSUME TypeOK, NEW n \in Nif, toFramework[n] # <<>>
    PROVE  Rest(n) \in [Nif -> Seq(Command)]
<1>1. Tail(toFramework[n]) \in Seq(Command)
  BY DEF TypeOK, Command
<1>. QED  BY <1>1 DEF Rest, TypeOK, Command

LEMMA MachineStep ==
    ASSUME TypeOK, MachineInv, [Next]_vars
    PROVE  MachineInv'
<1>1. CASE MsgTask
  <2>. msgQ # <<>>
    BY <1>1 DEF MsgTask, RequestATL, ReleaseATL, ReportAtlOpenSuccess,
                ReportAtlOpenFailed, ReportAtlClosed, Receive
  <2>. DEFINE h == Head(msgQ).handle
              n == Head(msgQ).nif
  <2>. toFramework \in [Nif -> Seq(Command)]
    BY DEF MachineInv, MachineTypeOK
  <2>1. CASE RequestATL
    <3>1. h \in Handle /\ n \in Nif
      BY <2>1, HeadOfQueue DEF RequestATL, Receive
    <3>2. CASE ProcessSubscribe(n, h)
      BY <3>1, <3>2, SubscribeInv
    <3>3. CASE AtlEnded({h}) /\ UNCHANGED <<machine, toFramework>>
      BY <3>1, <3>3, AnswerTyped
         DEF MachineInv, MachineTypeOK, LeaseMatchesSubscribers,
             OpenOnlyWhileHeld, active, AtlEnded, machine
    <3>. QED  BY <2>1, <3>2, <3>3 DEF RequestATL
  <2>2. CASE ReleaseATL
    <3>1. h \in Handle /\ Holder(h) \in Nif
      BY <2>2, HeadOfQueue DEF ReleaseATL, Receive, Holder, Nif
    <3>2. CASE h \in subscribers[Holder(h)] /\ ProcessUnsubscribe(Holder(h), h)
      BY <3>1, <3>2, UnsubscribeInv
    <3>3. CASE UNCHANGED <<machine, toFramework, modem>>
      BY <3>3, IgnoreInv DEF Ignore
    <3>. QED  BY <2>2, <3>2, <3>3 DEF ReleaseATL
  <2>3. CASE ReportAtlOpenSuccess
    BY <2>3, HeadOfQueue, GrantedInv DEF ReportAtlOpenSuccess, Receive
  <2>4. CASE ReportAtlOpenFailed
    BY <2>4, HeadOfQueue, DeniedInv DEF ReportAtlOpenFailed, Receive
  <2>5. CASE ReportAtlClosed
    BY <2>5, HeadOfQueue, ReleasedInv DEF ReportAtlClosed, Receive
  <2>. QED  BY <1>1, <2>1, <2>2, <2>3, <2>4, <2>5 DEF MsgTask
<1>2. CASE \/ \E h \in Handle, n \in Nif : ModemRequest(h, n)
           \/ \E h \in Handle : ModemRelease(h)
           \/ ModemRestart
  <2>1. /\ UNCHANGED <<machine, toFramework>>
        /\ modem' \in [Handle -> ModemState]
        /\ \A h \in Handle : modem'[h] = "open" => modem[h] = "open"
    BY <1>2 DEF ModemRequest, ModemRelease, ModemRestart, queues, MachineInv,
                MachineTypeOK, ModemState
  <2>. QED  BY <2>1 DEF MachineInv, MachineTypeOK, LeaseMatchesSubscribers,
                        OpenOnlyWhileHeld, active, machine
<1>3. ASSUME NEW n \in Nif, Framework(n) \/ NetworkLost(n)
      PROVE  MachineInv'
  <2>1. CASE FrameworkOpensBadApn(n)
    BY <2>1, RestTyped, ReleasedInv DEF FrameworkOpensBadApn, NextCommand
  <2>2. CASE NetworkLost(n)
    BY <2>2, TypeOKMachine, IgnoreInv DEF NetworkLost, Ignore, MachineTypeOK
  <2>3. CASE Framework(n) /\ ~ FrameworkOpensBadApn(n)
    <3>1. \E c \in Command : Take(n, c) /\ UNCHANGED <<machine, modem>>
      BY <2>3 DEF Framework, FrameworkOpens, FrameworkFails, FrameworkCancels, FrameworkResultDropped,
                  FrameworkCloses, FrameworkCloseFails, Command
    <3>. QED  BY <3>1, RestTyped, IgnoreInv DEF Take, NextCommand, Ignore
  <2>. QED  BY <1>3, <2>1, <2>2, <2>3
<1>4. CASE UNCHANGED vars
  BY <1>4, TypeOKMachine, IgnoreInv DEF vars, queues, Ignore, MachineTypeOK
<1>. QED  BY <1>1, <1>2, <1>3, <1>4 DEF Next

\* The inductive invariant holds in every reachable state.
THEOREM Inductive == Spec => [](TypeOK /\ MachineInv)
<1>1. Init => TypeOK /\ MachineInv
  BY DEF Init, TypeOK, MachineInv, MachineTypeOK, LeaseMatchesSubscribers,
         OpenOnlyWhileHeld, State, Command, ModemState, active
<1>2. TypeOK /\ MachineInv /\ [Next]_vars => (TypeOK /\ MachineInv)'
  BY MachineStep, TypeStep DEF MachineInv
<1>. QED  BY <1>1, <1>2, PTL DEF Spec

\* The types of Agps.h hold for every set of handles and every framework.
THEOREM TypeCorrect == Spec => []TypeOK
  BY Inductive, PTL

\* Agps.cpp:201: no subscriber is left in a RELEASED machine, and no machine
\* asks for or holds a connection that no active subscriber wants.
THEOREM LeaseCorrect == Spec => []LeaseMatchesSubscribers
<1>1. MachineInv => LeaseMatchesSubscribers
  BY DEF MachineInv
<1>. QED  BY <1>1, Inductive, PTL

\* notifyAllSubscribers and notifyEventToSubscriber tell the modem in time:
\* a call it believes open is one a machine holds.
THEOREM OpenCorrect == Spec => []OpenOnlyWhileHeld
<1>1. MachineInv => OpenOnlyWhileHeld
  BY DEF MachineInv
<1>. QED  BY <1>1, Inductive, PTL

-----------------------------------------------------------------------------
(* A handle of the modem is in one place at most: in a request that waits   *)
(* in the queue, or in the list of one machine.  While it is, the modem     *)
(* uses it, unless the modem forgot it in a restart.                        *)

RequestsOf(h) ==
    {i \in DOMAIN msgQ : msgQ[i].kind = "REQUEST" /\ msgQ[i].handle = h}

Listed(h) == \E n \in Nif : h \in subscribers[n]

OnePlace(h) ==
    /\ \A i, j \in RequestsOf(h) : i = j
    /\ Listed(h) => RequestsOf(h) = {}
    /\ \A n, k \in Nif : h \in subscribers[n] /\ h \in subscribers[k] => n = k
    /\ Listed(h) \/ RequestsOf(h) # {} => modem[h] # "idle"

KeptInv == restarts = 0 => \A h \in Handle : OnePlace(h)

\* What any event but a new subscription does to a handle: it is not listed
\* anywhere anew, and the modem is told of its end when it is dropped.
OnlyLoses(h) ==
    /\ \A n \in Nif : h \in subscribers'[n] => h \in subscribers[n]
    /\ modem'[h] = "idle" =>
          \/ modem[h] = "idle"
          \/ \E n \in Nif : h \in subscribers[n] /\ h \notin subscribers'[n]

\* The requests that wait are the same ones, at most.
OnlyWaits(h) ==
    /\ \A i, j \in RequestsOf(h) : i = j
    /\ RequestsOf(h)' # {} => RequestsOf(h) # {}
    /\ \A i, j \in RequestsOf(h)' : i = j

LEMMA LosingKeeps ==
    ASSUME NEW h \in Handle, OnePlace(h), OnlyLoses(h), OnlyWaits(h)
    PROVE  OnePlace(h)'
<1>1. Listed(h)' => Listed(h)
  BY DEF Listed, OnlyLoses
<1>2. \A n, k \in Nif : h \in subscribers'[n] /\ h \in subscribers'[k] => n = k
  BY DEF OnePlace, OnlyLoses
<1>3. ASSUME Listed(h)' \/ RequestsOf(h)' # {}
      PROVE  modem'[h] # "idle"
  <2>1. modem[h] # "idle"
    BY <1>1, <1>3 DEF OnePlace, OnlyWaits
  <2>2. ASSUME NEW n \in Nif, h \in subscribers[n], h \notin subscribers'[n]
        PROVE  FALSE
    <3>1. RequestsOf(h)' = {}
      BY <2>2 DEF OnePlace, OnlyWaits, Listed
    <3>2. PICK k \in Nif : h \in subscribers'[k]
      BY <1>3, <3>1 DEF Listed
    <3>. QED  BY <2>2, <3>2 DEF OnePlace, OnlyLoses
  <2>. QED  BY <2>1, <2>2 DEF OnlyLoses
<1>. QED  BY <1>1, <1>2, <1>3 DEF OnePlace, OnlyWaits

\* Taking the oldest message: what waits behind it moves up.
LEMMA TakingWaits ==
    ASSUME msgQ \in Seq(Msg), msgQ # <<>>, msgQ' = Tail(msgQ), NEW h \in Handle,
           \A i, j \in RequestsOf(h) : i = j
    PROVE  /\ OnlyWaits(h)
           /\ Head(msgQ).kind = "REQUEST" /\ Head(msgQ).handle = h => RequestsOf(h)' = {}
<1>1. \A i \in RequestsOf(h)' : i \in Nat /\ i >= 1 /\ i + 1 \in RequestsOf(h)
  BY DEF RequestsOf
<1>2. Head(msgQ).kind = "REQUEST" /\ Head(msgQ).handle = h => 1 \in RequestsOf(h)
  BY DEF RequestsOf
<1>3. \A i, j \in RequestsOf(h)' : i = j
  BY <1>1
<1>4. RequestsOf(h)' # {} => RequestsOf(h) # {}
  BY <1>1
<1>. QED  BY <1>1, <1>2, <1>3, <1>4 DEF OnlyWaits

\* Posting a message that is no request of this handle.
LEMMA PostingWaits ==
    ASSUME msgQ \in Seq(Msg), NEW m \in Msg, Send(m), NEW h \in Handle,
           ~ (m.kind = "REQUEST" /\ m.handle = h)
    PROVE  RequestsOf(h)' = RequestsOf(h)
  BY DEF Send, RequestsOf

\* The events of a state machine, but for the subscription.
LEMMA UnsubscribeLoses ==
    ASSUME MachineTypeOK, NEW n \in Nif, NEW h \in Handle, h \in subscribers[n],
           ProcessUnsubscribe(n, h), NEW g \in Handle
    PROVE  OnlyLoses(g)
<1>1. Retire(n, h)
  BY DEF ProcessUnsubscribe
<1>2. CASE h \in WaitForClose
  BY <1>1, <1>2 DEF Retire, MachineTypeOK, OnlyLoses
<1>3. CASE h \notin WaitForClose
  <2>1. \A k \in Nif : g \in subscribers'[k] => g \in subscribers[k]
    BY <1>1, <1>3 DEF Retire, Drop, MachineTypeOK
  <2>2. h \notin subscribers'[n]
    BY <1>1, <1>3 DEF Retire, Drop, MachineTypeOK
  <2>3. g # h => modem'[g] = modem[g]
    BY <1>1, <1>3 DEF Retire, AtlEnded
  <2>. QED  BY <2>1, <2>2, <2>3 DEF OnlyLoses
<1>. QED  BY <1>2, <1>3

LEMMA EndAllLoses ==
    ASSUME MachineTypeOK, NEW n \in Nif, NEW commands, EndAll(n, commands), NEW g \in Handle
    PROVE  OnlyLoses(g)
  BY DEF EndAll, Drop, AtlEnded, MachineTypeOK, OnlyLoses

LEMMA FinishReleasingLoses ==
    ASSUME MachineTypeOK, NEW n \in Nif, NEW commands, FinishReleasing(n, commands),
           NEW g \in Handle
    PROVE  OnlyLoses(g)
  BY DEF FinishReleasing, Drop, AtlEnded, MachineTypeOK, OnlyLoses

LEMMA IgnoreLoses ==
    ASSUME UNCHANGED <<subscribers, modem>>, NEW g \in Handle
    PROVE  OnlyLoses(g)
  BY DEF OnlyLoses

LEMMA ReleasedOrDeniedLoses ==
    ASSUME MachineTypeOK, NEW n \in Nif, NEW commands,
           ProcessReleased(n, commands) \/ ProcessDenied(n, commands), NEW g \in Handle
    PROVE  OnlyLoses(g)
<1>1. CASE Ignore(commands)
  BY <1>1, IgnoreLoses DEF Ignore, machine
<1>. QED  BY <1>1, EndAllLoses, FinishReleasingLoses DEF ProcessReleased, ProcessDenied

LEMMA GrantedLoses ==
    ASSUME MachineTypeOK, NEW n \in Nif, ProcessGranted(n), NEW g \in Handle
    PROVE  OnlyLoses(g)
  BY DEF ProcessGranted, AtlOpened, MachineTypeOK, OnlyLoses

\* The subscription moves a handle from its request to one machine's list.
LEMMA SubscribeKeeps ==
    ASSUME TypeOK, msgQ # <<>>, Head(msgQ).kind = "REQUEST", msgQ' = Tail(msgQ),
           NEW n \in Nif, ProcessSubscribe(n, Head(msgQ).handle),
           NEW g \in Handle, OnePlace(g)
    PROVE  OnePlace(g)'
<1>. DEFINE h == Head(msgQ).handle
<1>1. msgQ \in Seq(Msg) /\ h \in Handle
  BY HeadOfQueue DEF TypeOK
<1>2. OnlyWaits(g) /\ (g = h => RequestsOf(g)' = {})
  BY <1>1, TakingWaits DEF OnePlace
<1>3. modem'[g] = "idle" <=> modem[g] = "idle"
  BY <1>1 DEF ProcessSubscribe, AtlOpened, TypeOK
<1>4. \A k \in Nif : subscribers'[k] = IF k = n THEN subscribers[k] \union {h} ELSE subscribers[k]
  BY <1>1 DEF ProcessSubscribe, AddSubscriber, TypeOK
<1>5. CASE g # h
  <2>1. OnlyLoses(g)
    BY <1>3, <1>4, <1>5 DEF OnlyLoses
  <2>. QED  BY <2>1, <1>2, LosingKeeps
<1>6. CASE g = h
  <2>1. 1 \in RequestsOf(g)
    BY <1>1, <1>6 DEF RequestsOf
  <2>2. ~ Listed(g) /\ modem[g] # "idle"
    BY <2>1 DEF OnePlace
  <2>3. \A k \in Nif : g \in subscribers'[k] => k = n
    BY <2>2, <1>4 DEF Listed
  <2>. QED  BY <1>2, <1>3, <1>6, <2>2, <2>3 DEF OnePlace, Listed
<1>. QED  BY <1>5, <1>6

LEMMA KeptStep ==
    ASSUME TypeOK, KeptInv, [Next]_vars
    PROVE  KeptInv'
<1>. SUFFICES ASSUME restarts' = 0, NEW g \in Handle
              PROVE  OnePlace(g)'
  BY DEF KeptInv
<1>. USE DEF queues, machine, counts
<1>1. restarts = 0
  <2>1. CASE ModemRestart
    BY <2>1 DEF ModemRestart, TypeOK
  <2>2. CASE ~ ModemRestart
    <3>1. UNCHANGED restarts
      BY <2>2 DEF Next, MsgTask, RequestATL, ReleaseATL, ReportAtlOpenSuccess,
             ReportAtlOpenFailed, ReportAtlClosed, Receive, ModemRequest, ModemRelease,
             Framework, FrameworkOpens, FrameworkFails, FrameworkCancels, FrameworkResultDropped,
             FrameworkOpensBadApn, FrameworkCloses, FrameworkCloseFails, NetworkLost, vars
    <3>. QED  BY <3>1
  <2>. QED  BY <2>1, <2>2
<1>2. OnePlace(g) /\ MachineTypeOK /\ msgQ \in Seq(Msg)
  BY <1>1, TypeOKMachine DEF KeptInv, TypeOK
<1>3. CASE MsgTask
  <2>1. msgQ # <<>> /\ msgQ' = Tail(msgQ)
    BY <1>3 DEF MsgTask, RequestATL, ReleaseATL, ReportAtlOpenSuccess,
                ReportAtlOpenFailed, ReportAtlClosed, Receive
  <2>2. OnlyWaits(g)
    BY <1>2, <2>1, TakingWaits DEF OnePlace
  <2>3. CASE RequestATL
    <3>1. Head(msgQ).kind = "REQUEST" /\ Head(msgQ).nif \in Nif /\ Head(msgQ).handle \in Handle
      BY <2>1, <2>3, HeadOfQueue DEF RequestATL, Receive
    <3>2. CASE ProcessSubscribe(Head(msgQ).nif, Head(msgQ).handle)
      BY <1>2, <2>1, <3>1, <3>2, SubscribeKeeps
    <3>3. CASE AtlEnded({Head(msgQ).handle}) /\ UNCHANGED subscribers
      <4>1. CASE g # Head(msgQ).handle
        <5>1. OnlyLoses(g)
          BY <3>3, <4>1 DEF AtlEnded, OnlyLoses
        <5>. QED  BY <1>2, <2>2, <5>1, LosingKeeps
      <4>2. CASE g = Head(msgQ).handle
        <5>1. 1 \in RequestsOf(g) /\ RequestsOf(g)' = {}
          BY <1>2, <2>1, <3>1, <4>2, TakingWaits DEF RequestsOf, OnePlace
        <5>2. ~ Listed(g)'
          BY <1>2, <3>3, <5>1 DEF OnePlace, Listed
        <5>. QED  BY <5>1, <5>2 DEF OnePlace, Listed
      <4>. QED  BY <4>1, <4>2
    <3>. QED  BY <2>3, <3>2, <3>3 DEF RequestATL
  <2>4. CASE ~ RequestATL
    <3>1. OnlyLoses(g)
      <4>1. CASE ReleaseATL
        <5>1. Head(msgQ).handle \in Handle /\ Holder(Head(msgQ).handle) \in Nif
          BY <2>1, <4>1, HeadOfQueue DEF ReleaseATL, Receive, Holder, Nif
        <5>. QED  BY <1>2, <4>1, <5>1, UnsubscribeLoses, IgnoreLoses DEF ReleaseATL
      <4>2. CASE ReportAtlOpenSuccess
        BY <1>2, <2>1, <4>2, HeadOfQueue, GrantedLoses DEF ReportAtlOpenSuccess, Receive
      <4>3. CASE ReportAtlOpenFailed \/ ReportAtlClosed
        BY <1>2, <2>1, <4>3, HeadOfQueue, ReleasedOrDeniedLoses
           DEF ReportAtlOpenFailed, ReportAtlClosed, Receive
      <4>. QED  BY <1>3, <2>4, <4>1, <4>2, <4>3 DEF MsgTask
    <3>. QED  BY <1>2, <2>2, <3>1, LosingKeeps
  <2>. QED  BY <2>3, <2>4
<1>4. ASSUME NEW h \in Handle, NEW n \in Nif, ModemRequest(h, n)
      PROVE  OnePlace(g)'
  <2>. DEFINE m == [kind |-> "REQUEST", handle |-> h, nif |-> n]
  <2>1. m \in Msg /\ Send(m) /\ UNCHANGED subscribers
    BY <1>4 DEF ModemRequest, Msg
  <2>2. CASE g # h
    <3>1. RequestsOf(g)' = RequestsOf(g)
      BY <1>2, <2>1, <2>2, PostingWaits
    <3>2. modem'[g] = modem[g]
      BY <1>4, <2>2 DEF ModemRequest, TypeOK
    <3>. QED  BY <1>2, <2>1, <3>1, <3>2 DEF OnePlace, Listed
  <2>3. CASE g = h
    <3>1. RequestsOf(g) = {} /\ ~ Listed(g)
      BY <1>2, <1>4, <2>3 DEF ModemRequest, OnePlace
    <3>2. RequestsOf(g)' \subseteq {Len(msgQ) + 1}
      BY <1>2, <2>1, <3>1 DEF Send, RequestsOf
    <3>3. ~ Listed(g)' /\ modem'[g] # "idle"
      BY <1>4, <2>1, <2>3, <3>1 DEF ModemRequest, Listed, TypeOK
    <3>. QED  BY <3>2, <3>3 DEF OnePlace, Listed
  <2>. QED  BY <2>2, <2>3
<1>5. ASSUME NEW h \in Handle, ModemRelease(h)
      PROVE  OnePlace(g)'
  <2>1. [kind |-> "RELEASE", handle |-> h] \in Msg
    BY DEF Msg
  <2>2. RequestsOf(g)' = RequestsOf(g)
    BY <1>2, <1>5, <2>1, PostingWaits DEF ModemRelease
  <2>3. UNCHANGED subscribers /\ (modem[g] # "idle" => modem'[g] # "idle")
    BY <1>5 DEF ModemRelease, TypeOK
  <2>. QED  BY <1>2, <2>2, <2>3 DEF OnePlace, Listed
<1>6. CASE ModemRestart
  BY <1>1, <1>6 DEF ModemRestart, TypeOK
<1>7. ASSUME NEW n \in Nif, Framework(n) \/ NetworkLost(n)
      PROVE  OnePlace(g)'
  <2>1. \A k \in {"OPEN", "FAILED", "CLOSED"} : [kind |-> k, nif |-> n] \in Msg
    BY DEF Msg
  <2>2. RequestsOf(g)' = RequestsOf(g)
    <3>1. CASE UNCHANGED msgQ
      BY <3>1 DEF RequestsOf
    <3>2. CASE \E k \in {"OPEN", "FAILED", "CLOSED"} : Send([kind |-> k, nif |-> n])
      BY <1>2, <2>1, <3>2, PostingWaits
    <3>. QED  BY <1>7, <3>1, <3>2
              DEF Framework, FrameworkOpens, FrameworkFails, FrameworkCancels, FrameworkResultDropped,
                  FrameworkOpensBadApn, FrameworkCloses, FrameworkCloseFails, NetworkLost
  <2>3. OnlyLoses(g)
    <3>1. CASE FrameworkOpensBadApn(n)
      BY <1>2, <3>1, ReleasedOrDeniedLoses DEF FrameworkOpensBadApn
    <3>2. CASE UNCHANGED <<subscribers, modem>>
      BY <3>2, IgnoreLoses
    <3>. QED  BY <1>7, <3>1, <3>2
              DEF Framework, FrameworkOpens, FrameworkFails, FrameworkCancels, FrameworkResultDropped,
                  FrameworkCloses, FrameworkCloseFails, NetworkLost
  <2>4. OnlyWaits(g)
    BY <1>2, <2>2 DEF OnlyWaits, OnePlace
  <2>. QED  BY <1>2, <2>3, <2>4, LosingKeeps
<1>8. CASE UNCHANGED vars
  <2>1. UNCHANGED <<subscribers, modem, msgQ>>
    BY <1>8 DEF vars
  <2>. QED  BY <1>2, <2>1 DEF OnePlace, Listed, RequestsOf
<1>. QED  BY <1>3, <1>4, <1>5, <1>6, <1>7, <1>8 DEF Next

\* Until the modem restarts, a handle that is listed is one the modem uses:
\* requests, releases, refusals and losses that cross leave none behind.
THEOREM NoneForgotten == Spec => []NoForgottenSubscriber
<1>1. Init => KeptInv
  <2>. SUFFICES ASSUME Init, NEW h \in Handle  PROVE OnePlace(h)
    BY DEF KeptInv
  <2>1. RequestsOf(h) = {}
    BY DEF Init, RequestsOf
  <2>2. ~ Listed(h)
    BY DEF Init, Listed
  <2>. QED  BY <2>1, <2>2 DEF OnePlace, Listed
<1>2. TypeOK /\ TypeOK' /\ KeptInv /\ [Next]_vars => KeptInv'
  BY KeptStep
<1>3. TypeOK /\ KeptInv => NoForgottenSubscriber
  BY DEF TypeOK, KeptInv, OnePlace, Listed, NoForgottenSubscriber
<1>. QED  BY <1>1, <1>2, <1>3, TypeCorrect, PTL DEF Spec

=============================================================================

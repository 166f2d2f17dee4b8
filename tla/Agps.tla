-------------------------------- MODULE Agps --------------------------------
(***************************************************************************)
(* The AGPS data-call machinery of gps/gnss/Agps.{h,cpp}: two state        *)
(* machines (one per network interface), the AgpsManager in front of them, *)
(* the GnssAdapter message queue that feeds it, and its two neighbours:    *)
(* the modem, which asks for and gives back data calls by handle, and the  *)
(* Android framework, which sets them up.  Every handler of the state      *)
(* machine runs to completion on the adapter's MsgTask thread, except the  *)
(* one dataConnOpenCommand calls directly when the APN is unusable.        *)
(***************************************************************************)
EXTENDS Naturals, Sequences

CONSTANTS
    Handle,         \* connection handles the modem uses (mConnHandle)
    Created,        \* the state machines createAgpsStateMachines built
    WaitForClose,   \* handles whose subscriber has mWaitForCloseComplete
    OpenOutcomes,   \* how the framework may answer a connection request
    CloseOutcomes,  \* how the framework may answer a release
    MaxRequests,    \* bound: requests the modem makes
    MaxDrops,       \* bound: connections the network loses by itself
    MaxRestarts     \* bound: modem restarts

Nif == {"agnss", "internet"}

ASSUME EnvironmentAssumption ==
    /\ Created \subseteq Nif
    /\ WaitForClose \subseteq Handle
    /\ OpenOutcomes \subseteq
           {"OPEN", "FAILED", "CANCELLED", "BADAPN", "NOAPN"}
    /\ CloseOutcomes \subseteq {"CLOSED", "FAILED"}
    /\ MaxRequests \in Nat /\ MaxDrops \in Nat /\ MaxRestarts \in Nat

VARIABLES
    mState,         \* state of each state machine
    subscribers,    \* mSubscriberList, whose order nothing depends on
    inactive,       \* the subscribers with mIsInactive
    msgQ,           \* the adapter's message queue
    toFramework,    \* commands handed to mFrameworkStatusV4Cb, per interface
    connection,     \* is the framework's data connection up?
    modem,          \* what the modem knows of each handle
    requests, drops, restarts    \* the bounded counters

queues  == <<msgQ, toFramework>>
machine == <<mState, subscribers, inactive>>
counts  == <<requests, drops, restarts>>
vars    == <<machine, queues, connection, modem, counts>>

State == {"RELEASED", "PENDING", "ACQUIRED", "RELEASING"}

Msg == [kind : {"REQUEST"}, handle : Handle, nif : Nif]
       \union [kind : {"RELEASE"}, handle : Handle]
       \union [kind : {"OPEN", "CLOSED", "FAILED"}, nif : Nif]

Init ==
    /\ mState = [n \in Nif |-> "RELEASED"]
    /\ subscribers = [n \in Nif |-> {}]
    /\ inactive = [n \in Nif |-> {}]
    /\ msgQ = <<>>
    /\ toFramework = [n \in Nif |-> <<>>]
    /\ connection = [n \in Nif |-> FALSE]
    /\ modem = [h \in Handle |-> "idle"]
    /\ requests = 0 /\ drops = 0 /\ restarts = 0

-----------------------------------------------------------------------------
(* What the callbacks to the modem and to the framework do. *)

\* mAtlOpenStatusCb(handle, isSuccess = 1): a handle being closed stays so
AtlOpened(H) ==
    modem' = [h \in Handle |->
                IF h \in H /\ modem[h] = "opening" THEN "open" ELSE modem[h]]

\* mAtlOpenStatusCb with isSuccess = 0, and mAtlCloseStatusCb
AtlEnded(H) ==
    modem' = [h \in Handle |-> IF h \in H THEN "idle" ELSE modem[h]]

\* requestOrReleaseDataConn, behind the commands the framework still has
SendToFramework(commands, n, command) ==
    toFramework' = [commands EXCEPT ![n] = Append(@, command)]

active(n) == subscribers[n] \ inactive[n]

TransitionState(n, s) == mState' = [mState EXCEPT ![n] = s]

\* dropping H from the list of n
Drop(n, H) ==
    /\ subscribers' = [subscribers EXCEPT ![n] = @ \ H]
    /\ inactive' = [inactive EXCEPT ![n] = @ \ H]

-----------------------------------------------------------------------------
(* The events of AgpsStateMachine, on the machine of interface n. *)

\* addSubscriber adds a fresh, active clone unless the handle is listed
AddSubscriber(n, h) ==
    /\ subscribers' = [subscribers EXCEPT ![n] = @ \union {h}]
    /\ UNCHANGED inactive

ProcessSubscribe(n, h) ==
    /\ AddSubscriber(n, h)
    /\ \/ /\ mState[n] = "RELEASED"
          /\ SendToFramework(toFramework, n, "REQUEST")
          /\ TransitionState(n, "PENDING")
          /\ UNCHANGED modem
       \/ /\ mState[n] \in {"PENDING", "RELEASING"}
          /\ UNCHANGED <<mState, toFramework, modem>>
       \/ /\ mState[n] = "ACQUIRED"
          /\ AtlOpened({h})
          /\ UNCHANGED <<mState, toFramework>>

\* mutants: the subscriber is told but not deleted; deleted but not told
RetireListed(n, h) ==
    AtlEnded({h}) /\ UNCHANGED <<subscribers, inactive>>
RetireSilently(n, h) ==
    Drop(n, {h}) /\ UNCHANGED modem

\* The subscriber is told its call is closed and deleted, or goes inactive.
\* A RELEASED machine has no subscriber that releaseATL could find.
Retire(n, h) ==
    IF h \in WaitForClose
    THEN /\ inactive' = [inactive EXCEPT ![n] = @ \union {h}]
         /\ UNCHANGED <<subscribers, modem>>
    ELSE Drop(n, {h}) /\ AtlEnded({h})

ProcessUnsubscribe(n, h) ==
    /\ Retire(n, h)
    /\ \/ /\ mState[n] \in {"PENDING", "ACQUIRED"}
          /\ subscribers'[n] = {}
          /\ TransitionState(n, "RELEASED")
          /\ SendToFramework(toFramework, n, "RELEASE")
       \/ /\ mState[n] \in {"PENDING", "ACQUIRED"}
          /\ subscribers'[n] # {}
          /\ subscribers'[n] \subseteq inactive'[n]
          /\ TransitionState(n, "RELEASING")
          /\ SendToFramework(toFramework, n, "RELEASE")
       \/ /\ mState[n] \in {"PENDING", "ACQUIRED"}
          /\ ~ subscribers'[n] \subseteq inactive'[n]
          /\ UNCHANGED <<mState, toFramework>>
       \/ /\ mState[n] = "RELEASING"
          /\ IF subscribers'[n] = {}
             THEN TransitionState(n, "RELEASED")
             ELSE UNCHANGED mState
          /\ UNCHANGED toFramework

\* mutant: the machine acquires and tells nobody
ProcessGrantedSilently(n) ==
    /\ mState[n] = "PENDING"
    /\ TransitionState(n, "ACQUIRED")
    /\ UNCHANGED <<subscribers, inactive, toFramework, modem>>

ProcessGranted(n) ==
    /\ \/ /\ mState[n] = "PENDING"
          /\ TransitionState(n, "ACQUIRED")
          /\ AtlOpened(active(n))
       \/ /\ mState[n] # "PENDING"
          /\ UNCHANGED <<mState, modem>>
    /\ UNCHANGED <<subscribers, inactive, toFramework>>

\* RELEASING, on RELEASED and on DENIED alike: the inactive subscribers are
\* told and deleted; the active ones, if any, ask for a new connection
FinishReleasing(n, commands) ==
    /\ mState[n] = "RELEASING"
    /\ AtlEnded(inactive[n])
    /\ Drop(n, inactive[n])
    /\ IF active(n) # {}
       THEN /\ TransitionState(n, "PENDING")
            /\ SendToFramework(commands, n, "REQUEST")
       ELSE /\ TransitionState(n, "RELEASED")
            /\ toFramework' = commands

\* mutants: the list is kept; the subscribers are not told
EndAllListed(n, commands) ==
    /\ TransitionState(n, "RELEASED")
    /\ AtlEnded(subscribers[n])
    /\ UNCHANGED <<subscribers, inactive>>
    /\ toFramework' = commands
EndAllSilently(n, commands) ==
    /\ TransitionState(n, "RELEASED")
    /\ Drop(n, subscribers[n])
    /\ toFramework' = commands
    /\ UNCHANGED modem

\* every subscriber is told that its call ended, and deleted
EndAll(n, commands) ==
    /\ TransitionState(n, "RELEASED")
    /\ AtlEnded(subscribers[n])
    /\ Drop(n, subscribers[n])
    /\ toFramework' = commands

Ignore(commands) == toFramework' = commands /\ UNCHANGED <<machine, modem>>

ProcessReleased(n, commands) ==
    \/ mState[n] = "ACQUIRED" /\ EndAll(n, commands)
    \/ FinishReleasing(n, commands)
    \/ mState[n] \in {"RELEASED", "PENDING"} /\ Ignore(commands)

ProcessDenied(n, commands) ==
    \/ mState[n] = "PENDING" /\ EndAll(n, commands)
    \/ FinishReleasing(n, commands)
    \/ mState[n] \in {"RELEASED", "ACQUIRED"} /\ Ignore(commands)

-----------------------------------------------------------------------------
(* AgpsManager, on the MsgTask thread: one action per message. *)

Receive(kind) ==
    /\ msgQ # <<>>
    /\ Head(msgQ).kind = kind
    /\ msgQ' = Tail(msgQ)
    /\ UNCHANGED <<connection, counts>>

\* the machine releaseATL finds the handle in: the AGNSS one first
Holder(h) == IF h \in subscribers["agnss"] THEN "agnss" ELSE "internet"

RequestATL ==
    /\ Receive("REQUEST")
    /\ LET h == Head(msgQ).handle
           n == Head(msgQ).nif
       IN \/ n \in Created /\ ProcessSubscribe(n, h)
          \/ /\ n \notin Created
             /\ AtlEnded({h})
             /\ UNCHANGED <<machine, toFramework>>

ReleaseATL ==
    /\ Receive("RELEASE")
    /\ LET h == Head(msgQ).handle
           n == Holder(h)
       IN \/ h \in subscribers[n] /\ ProcessUnsubscribe(n, h)
          \/ /\ h \notin subscribers[n]
             /\ UNCHANGED <<machine, toFramework, modem>>

ReportAtlOpenSuccess == Receive("OPEN") /\ ProcessGranted(Head(msgQ).nif)

ReportAtlOpenFailed ==
    Receive("FAILED") /\ ProcessDenied(Head(msgQ).nif, toFramework)

ReportAtlClosed ==
    Receive("CLOSED") /\ ProcessReleased(Head(msgQ).nif, toFramework)

MsgTask == \/ RequestATL \/ ReleaseATL
           \/ ReportAtlOpenSuccess \/ ReportAtlOpenFailed \/ ReportAtlClosed

-----------------------------------------------------------------------------
(* The modem's thread posts requests and releases to the queue. *)

Send(m) == msgQ' = Append(msgQ, m)

ModemRequest(h, n) ==
    /\ modem[h] = "idle"
    /\ requests < MaxRequests
    /\ requests' = requests + 1
    /\ modem' = [modem EXCEPT ![h] = "opening"]
    /\ Send([kind |-> "REQUEST", handle |-> h, nif |-> n])
    /\ UNCHANGED <<machine, toFramework, connection, drops, restarts>>

ModemRelease(h) ==
    /\ modem[h] \in {"opening", "open"}
    /\ modem' = [modem EXCEPT ![h] = "closing"]
    /\ Send([kind |-> "RELEASE", handle |-> h])
    /\ UNCHANGED <<machine, toFramework, connection, counts>>

\* The modem restarts and forgets its handles.  The adapter does nothing: the
\* subscribers stay, for nobody calls handleModemSSR.
ModemRestart ==
    /\ restarts < MaxRestarts
    /\ restarts' = restarts + 1
    /\ modem' = [h \in Handle |-> "idle"]
    /\ UNCHANGED <<machine, queues, connection, requests, drops>>

-----------------------------------------------------------------------------
(* The framework answers its commands in order; the answers are posted to   *)
(* the adapter's queue by dataConnOpen/Failed/ClosedCommand.                *)

NextCommand(n, command) ==
    toFramework[n] # <<>> /\ Head(toFramework[n]) = command

Rest(n) == [toFramework EXCEPT ![n] = Tail(@)]

Take(n, command) == NextCommand(n, command) /\ toFramework' = Rest(n)

FrameworkOpens(n) ==
    /\ "OPEN" \in OpenOutcomes
    /\ Take(n, "REQUEST")
    /\ connection' = [connection EXCEPT ![n] = TRUE]
    /\ Send([kind |-> "OPEN", nif |-> n])
    /\ UNCHANGED <<machine, modem, counts>>

FrameworkFails(n) ==
    /\ "FAILED" \in OpenOutcomes
    /\ Take(n, "REQUEST")
    /\ Send([kind |-> "FAILED", nif |-> n])
    /\ UNCHANGED <<machine, connection, modem, counts>>

\* a request already given back need not be answered
FrameworkCancels(n) ==
    /\ "CANCELLED" \in OpenOutcomes
    /\ Len(toFramework[n]) > 1
    /\ Take(n, "REQUEST")
    /\ UNCHANGED <<machine, msgQ, connection, modem, counts>>

\* agpsOpenResultCb drops a result, good or bad, that names no APN: the machine
\* hears nothing, although the connection may be up
FrameworkResultDropped(n) ==
    /\ "NOAPN" \in OpenOutcomes
    /\ Take(n, "REQUEST")
    /\ \/ UNCHANGED connection
       \/ connection' = [connection EXCEPT ![n] = TRUE]
    /\ UNCHANGED <<machine, msgQ, modem, counts>>

\* dataConnOpenCommand with an unusable APN: instead of posting a message it
\* runs reportAtlClosed at once, on the framework's thread
FrameworkOpensBadApn(n) ==
    /\ "BADAPN" \in OpenOutcomes
    /\ NextCommand(n, "REQUEST")
    /\ ProcessReleased(n, Rest(n))
    /\ connection' = [connection EXCEPT ![n] = TRUE]
    /\ UNCHANGED <<msgQ, counts>>

FrameworkCloses(n) ==
    /\ "CLOSED" \in CloseOutcomes
    /\ Take(n, "RELEASE")
    /\ connection' = [connection EXCEPT ![n] = FALSE]
    /\ Send([kind |-> "CLOSED", nif |-> n])
    /\ UNCHANGED <<machine, modem, counts>>

\* agpsCloseResultCb turns a failed close into dataConnFailedCommand
FrameworkCloseFails(n) ==
    /\ "FAILED" \in CloseOutcomes
    /\ Take(n, "RELEASE")
    /\ Send([kind |-> "FAILED", nif |-> n])
    /\ UNCHANGED <<machine, connection, modem, counts>>

\* the network goes away by itself
NetworkLost(n) ==
    /\ connection[n]
    /\ drops < MaxDrops
    /\ drops' = drops + 1
    /\ connection' = [connection EXCEPT ![n] = FALSE]
    /\ Send([kind |-> "CLOSED", nif |-> n])
    /\ UNCHANGED <<machine, toFramework, modem, requests, restarts>>

Framework(n) ==
    \/ FrameworkOpens(n) \/ FrameworkFails(n) \/ FrameworkCancels(n)
    \/ FrameworkResultDropped(n) \/ FrameworkOpensBadApn(n)
    \/ FrameworkCloses(n) \/ FrameworkCloseFails(n)

Next ==
    \/ MsgTask
    \/ \E h \in Handle, n \in Nif : ModemRequest(h, n)
    \/ \E h \in Handle : ModemRelease(h)
    \/ ModemRestart
    \/ \E n \in Nif : Framework(n) \/ NetworkLost(n)

\* The MsgTask thread keeps taking messages, and the framework answers every
\* command in the end; the modem owes nothing.
Fairness == WF_vars(MsgTask) /\ \A n \in Nif : WF_vars(Framework(n))

Spec == Init /\ [][Next]_vars /\ Fairness

-----------------------------------------------------------------------------
(* Correctness *)

\* Every variable has its type; in particular only a listed subscriber is
\* inactive, and only a subscriber that waits for the close.
TypeOK ==
    /\ mState \in [Nif -> State]
    /\ subscribers \in [Nif -> SUBSET Handle]
    /\ inactive \in [Nif -> SUBSET WaitForClose]
    /\ \A n \in Nif : inactive[n] \subseteq subscribers[n]
    /\ msgQ \in Seq(Msg)
    /\ toFramework \in [Nif -> Seq({"REQUEST", "RELEASE"})]
    /\ connection \in [Nif -> BOOLEAN]
    /\ modem \in [Handle -> {"idle", "opening", "open", "closing"}]
    /\ requests \in 0..MaxRequests
    /\ drops \in 0..MaxDrops
    /\ restarts \in 0..MaxRestarts

\* The state of a machine and its subscriber list agree: a RELEASED machine
\* has no subscriber left behind (Agps.cpp:201), and a machine that asked for
\* or holds a connection has an active subscriber that wants it.
LeaseMatchesSubscribers ==
    \A n \in Nif :
        /\ mState[n] = "RELEASED" <=> subscribers[n] = {}
        /\ mState[n] \in {"PENDING", "ACQUIRED"} => active(n) # {}

\* A handle the modem believes open is subscribed in a machine that holds the
\* connection, whatever answers, losses and modem restarts crossed it.
OpenOnlyWhileHeld ==
    \A h \in Handle :
        modem[h] = "open" =>
            \E n \in Nif :
                /\ h \in subscribers[n]
                /\ \/ mState[n] = "ACQUIRED"
                   \/ mState[n] = "RELEASING" /\ h \in inactive[n]

\* When all is quiet, a RELEASED machine has left no connection up
\* ("If no subscribers in list, release data connection", Agps.cpp:133).
NoConnectionLeftUp ==
    (msgQ = <<>> /\ \A n \in Nif : toFramework[n] = <<>>) =>
        \A n \in Nif : subscribers[n] = {} => ~ connection[n]

\* As long as the modem does not restart, no subscriber is listed whose handle
\* the modem does not use: it would keep the connection up for ever.  Answers,
\* losses and the modem's own releases may cross on the way.
NoForgottenSubscriber ==
    restarts = 0 => \A n \in Nif : \A h \in subscribers[n] : modem[h] # "idle"

\* Every data call the modem asks for is answered: granted, refused, or
\* closed again if the modem gave it up or the network went away.
EveryRequestAnswered ==
    \A h \in Handle : modem[h] = "opening" ~> modem[h] # "opening"

\* Every data call the modem gives back is closed.
EveryReleaseAnswered ==
    \A h \in Handle : modem[h] = "closing" ~> modem[h] # "closing"

=============================================================================

------------------------------ MODULE Tracking ------------------------------
(***************************************************************************)
(* Tracking sessions in GnssAdapter.cpp.  Any number of clients' sessions  *)
(* share one modem: time-based sessions are multiplexed into the single    *)
(* session the modem supports, distance-based ones are passed through.     *)
(* A client's request and an answer of the modem are each one message of   *)
(* the adapter's MsgTask, handled in one step.  LocApi is a library that   *)
(* ContextBase::createLocApi loads; it works through the adapter's calls   *)
(* in order, on a thread of its own.                                       *)
(***************************************************************************)
EXTENDS Integers, Sequences, FiniteSets

CONSTANTS
    Session,            \* session ids, in the order generateSessionId gives them
    Client, ClientOf,   \* the clients, and whose a session is
    Listening,          \* clients with a tracking or a measurements callback
    Options,            \* options a client may ask for
    None,
    DistanceSupported,  \* isMessageSupported(..._DISTANCE_BASE_TRACKING)
    InitialEngine,      \* is the engine "up" before the first request?
    MaxUpdates, MaxFailures, MaxRemovals, MaxRestarts   \* bounds

\* Power mode 1 (M1) uses most power; every HIDL client since 1.1 sets one.
Option == [interval : Nat, power : 1..5, distance : BOOLEAN]

ASSUME TrackingAssumption ==
    /\ Session \subseteq Nat /\ IsFiniteSet(Session)
    /\ ClientOf \in [Session -> Client] /\ Listening \subseteq Client
    /\ Options \subseteq Option /\ None \notin Option
    /\ DistanceSupported \in BOOLEAN /\ InitialEngine \in {"down", "up"}
    /\ {MaxUpdates, MaxFailures, MaxRemovals, MaxRestarts} \subseteq Nat

VARIABLES
    timeBased,      \* mTimeBasedTrackingSessions: options or None
    distanceBased,  \* mDistanceBasedTrackingSessions
    powerOn,        \* mPowerOn, as last reported
    capsKnown,      \* mIsEngineCapabilitiesKnown
    mPendingMsgs,   \* requests put off until the capabilities are known
    resent,         \* those posted again
    clients,        \* mClientData
    calls,          \* calls LocApi has still to answer
    modem,          \* options of the modem's time-based session, or None
    modemDistance,  \* distance-based sessions the modem runs
    engine,         \* "down", "opened" (the adapter does not know yet), "up"
    phase,          \* what the client did with a session id
    owed,           \* requests on a session without a response
    used            \* how much of each bound is used

sessionVars == <<timeBased, distanceBased, powerOn>>
deferVars == <<capsKnown, mPendingMsgs, resent>>
modemVars == <<modem, modemDistance, engine>>
clientVars == <<clients, phase>>
vars == <<sessionVars, deferVars, modemVars, clientVars, calls, owed, used>>

Limit == [updates |-> MaxUpdates, failures |-> MaxFailures,
          removals |-> MaxRemovals, restarts |-> MaxRestarts]

Use(bound) == used[bound] < Limit[bound] /\ used' = [used EXCEPT ![bound] = @ + 1]

Init ==
    /\ timeBased = [s \in Session |-> None]
    /\ distanceBased = [s \in Session |-> None]
    /\ powerOn = FALSE
    /\ capsKnown = (InitialEngine = "up") /\ mPendingMsgs = <<>> /\ resent = <<>>
    /\ clients = Client
    /\ calls = <<>>
    /\ modem = None /\ modemDistance = {} /\ engine = InitialEngine
    /\ phase = [s \in Session |-> "new"]
    /\ owed = [s \in Session |-> 0]
    /\ used = [b \in DOMAIN Limit |-> 0]

-----------------------------------------------------------------------------
(* The adapter's tables *)

Held(table) == {s \in Session : table[s] # None}

\* the sessions of a table as the map's iterator gives them
InOrder(S) ==
    [i \in 1..Cardinality(S) |-> CHOOSE s \in S : Cardinality({t \in S : t <= s}) = i]

\* The first session with the smallest interval
Smallest(S) ==
    timeBased[CHOOSE s \in S : \A t \in S :
        \/ timeBased[s].interval < timeBased[t].interval
        \/ timeBased[s].interval = timeBased[t].interval /\ s <= t]

\* multiplexedPowerMode
LeastPower(S) ==
    CHOOSE p \in 1..5 : /\ \E s \in S : timeBased[s].power = p
                        /\ \A s \in S : p <= timeBased[s].power

IsDistance(o) == o.distance /\ DistanceSupported

\* reportPowerStateIfChanged
ReportPowerState ==
    powerOn' = (Held(timeBased') \union Held(distanceBased') # {})

SaveTrackingSession(s, o) ==
    /\ IF IsDistance(o)
       THEN distanceBased' = [distanceBased EXCEPT ![s] = o] /\ UNCHANGED timeBased
       ELSE timeBased' = [timeBased EXCEPT ![s] = o] /\ UNCHANGED distanceBased
    /\ ReportPowerState

EraseTrackingSession(s) ==
    /\ IF s \in Held(timeBased)
       THEN timeBased' = [timeBased EXCEPT ![s] = None] /\ UNCHANGED distanceBased
       ELSE distanceBased' = [distanceBased EXCEPT ![s] = None] /\ UNCHANGED timeBased
    /\ ReportPowerState

\* hasTrackingCallback or hasMeasurementsCallback
Listens(s) == ClientOf[s] \in clients \intersect Listening

\* reportResponse: a removed client is not found any more
Report(asked, s, now) ==
    IF now /\ ClientOf[s] \in clients THEN [asked EXCEPT ![s] = @ - 1] ELSE asked

-----------------------------------------------------------------------------
(* Calls to LocApi: what to do, and what the answer's handler does then *)

Call(op, s, o, then, old) == [op |-> op, s |-> s, o |-> o, then |-> then, old |-> old]

StartTimeBased(s, o) == Call("start", s, o, "erase", None)
UpdateTracking(s, o) == Call("start", s, o, "restore", timeBased[s])
StopTracking(s) == Call("stop", s, None, "report", None)
StartDistance(s, o, then) == Call("startDistance", s, o, then, None)
StopDistance(s, o, then) == Call("stopDistance", s, o, then, None)

\* mutant: a smaller interval alone does not restart the modem's session
StartMultiplexForPower(s, o) ==
    LET all == Held(timeBased)
        least == Smallest(all)
    IN  IF all = {} THEN <<StartTimeBased(s, o)>>
        ELSE IF o.power < LeastPower(all)
             THEN <<StartTimeBased(s, [least EXCEPT !.power = o.power])>> ELSE <<>>

\* startTimeBasedTrackingMultiplex: the call to make, if one is needed
StartMultiplex(s, o) ==
    LET all == Held(timeBased)
        least == Smallest(all)
        faster == o.interval < least.interval
        higher == o.power < LeastPower(all)
    IN  IF all = {} THEN <<StartTimeBased(s, o)>>
        ELSE IF faster \/ higher
             THEN <<StartTimeBased(s, [least EXCEPT
                        !.interval = IF faster THEN o.interval ELSE @,
                        !.power = IF higher THEN o.power ELSE @])>>
             ELSE <<>>

\* updateTrackingMultiplex
UpdateMultiplex(s, o) ==
    LET others == Held(timeBased) \ {s}
        least == Smallest(others)
        faster == o.interval < least.interval
        higher == o.power < LeastPower(others)
    IN  IF o.interval = timeBased[s].interval /\ o.power = timeBased[s].power THEN <<>>
        ELSE IF others = {} THEN <<UpdateTracking(s, o)>>
        ELSE IF faster \/ higher
             THEN <<UpdateTracking(s, [least EXCEPT
                        !.interval = IF faster THEN o.interval ELSE @,
                        !.power = IF higher THEN o.power ELSE @])>>
             ELSE <<>>

\* mutant: the last session is treated like any other
StopMultiplexNever(s) == <<>>

\* stopTimeBasedTrackingMultiplex
StopMultiplex(s) ==
    LET others == Held(timeBased) \ {s}
        least == Smallest(others)
    IN  IF Cardinality(Held(timeBased)) = 1 THEN <<StopTracking(s)>>
        ELSE IF /\ s \in Held(timeBased)
                /\ \/ timeBased[s].interval < least.interval
                   \/ timeBased[s].power < LeastPower(others)
             THEN <<StartTimeBased(s, [least EXCEPT !.power = LeastPower(others)])>>
             ELSE <<>>

-----------------------------------------------------------------------------
(* The handlers of the clients' requests; asked counts the open requests *)

\* MsgStartTracking: a start without a callback is dropped, not answered
DoStart(s, o, asked) ==
    \/ /\ ~ Listens(s)
       /\ owed' = asked
       /\ UNCHANGED <<sessionVars, calls>>
    \/ /\ Listens(s) /\ IsDistance(o)
       /\ SaveTrackingSession(s, o)
       /\ calls' = Append(calls, StartDistance(s, o, "erase"))
       /\ owed' = asked
    \/ /\ Listens(s) /\ ~ IsDistance(o)
       /\ calls' = calls \o StartMultiplex(s, o)
       /\ SaveTrackingSession(s, o)
       /\ owed' = Report(asked, s, StartMultiplex(s, o) = <<>>)

\* From time based to distance based; without support for the latter the
\* session is saved as time based again.
SwitchToDistance(s, o, asked) ==
    /\ calls' = calls \o StopMultiplex(s) \o <<StartDistance(s, o, "nothing")>>
    /\ owed' = Report(asked, s, StopMultiplex(s) = <<>>)
    /\ IF IsDistance(o)
       THEN /\ timeBased' = [timeBased EXCEPT ![s] = None]
            /\ distanceBased' = [distanceBased EXCEPT ![s] = o]
       ELSE /\ timeBased' = [timeBased EXCEPT ![s] = o]
            /\ UNCHANGED distanceBased
    /\ ReportPowerState

\* MsgUpdateTracking
DoUpdate(s, o, asked) ==
    LET isTime == s \in Held(timeBased)
        isDistance == s \in Held(distanceBased)
    IN  \/ /\ ~ isTime /\ ~ isDistance
           /\ owed' = Report(asked, s, TRUE)
           /\ UNCHANGED <<sessionVars, calls>>
        \/ isTime /\ o.distance /\ SwitchToDistance(s, o, asked)
        \/ /\ isDistance /\ ~ o.distance
           /\ EraseTrackingSession(s)
           /\ calls' = Append(calls, StopDistance(s, o, "switch"))
           /\ owed' = asked
        \/ /\ isTime /\ ~ isDistance /\ ~ o.distance
           /\ calls' = calls \o UpdateMultiplex(s, o)
           /\ SaveTrackingSession(s, o)
           /\ owed' = Report(asked, s, UpdateMultiplex(s, o) = <<>>)
        \/ /\ isDistance /\ ~ isTime /\ o.distance
           /\ calls' = Append(calls, StopDistance(s, o, "restart"))
           /\ owed' = asked
           /\ UNCHANGED sessionVars

\* MsgStopTracking
DoStop(s, asked) ==
    \/ /\ s \in Held(timeBased)
       /\ calls' = calls \o StopMultiplex(s)
       /\ EraseTrackingSession(s)
       /\ owed' = Report(asked, s, StopMultiplex(s) = <<>>)
    \/ /\ s \in Held(distanceBased) \ Held(timeBased)
       /\ calls' = Append(calls, StopDistance(s, None, "erase"))
       /\ owed' = asked
       /\ UNCHANGED sessionVars
    \/ /\ s \notin Held(timeBased) \union Held(distanceBased)
       /\ owed' = Report(asked, s, TRUE)
       /\ UNCHANGED <<sessionVars, calls>>

Asked(s) == [owed EXCEPT ![s] = @ + 1]

\* Distance-based requests wait until the engine's capabilities are known.
Defers(o) == ~ capsKnown /\ o.distance

Defer(kind, s, o) ==
    /\ mPendingMsgs' = Append(mPendingMsgs, [kind |-> kind, s |-> s, o |-> o])
    /\ owed' = Asked(s)
    /\ UNCHANGED <<sessionVars, calls, capsKnown, resent>>

-----------------------------------------------------------------------------
(* What the clients do *)

StartTrackingCommand(s, o) ==
    /\ phase[s] = "new" /\ ClientOf[s] \in clients
    /\ phase' = [phase EXCEPT ![s] = "started"]
    /\ \/ Defers(o) /\ Defer("start", s, o)
       \/ ~ Defers(o) /\ DoStart(s, o, Asked(s)) /\ UNCHANGED deferVars
    /\ UNCHANGED <<clients, modemVars, used>>

UpdateTrackingOptionsCommand(s, o) ==
    /\ phase[s] = "started" /\ ClientOf[s] \in clients
    /\ Use("updates")
    /\ \/ Defers(o) /\ Defer("update", s, o)
       \/ ~ Defers(o) /\ DoUpdate(s, o, Asked(s)) /\ UNCHANGED deferVars
    /\ UNCHANGED <<clientVars, modemVars>>

StopTrackingCommand(s) ==
    /\ phase[s] = "started" /\ ClientOf[s] \in clients
    /\ phase' = [phase EXCEPT ![s] = "stopped"]
    /\ DoStop(s, Asked(s))
    /\ UNCHANGED <<clients, deferVars, modemVars, used>>

\* A request that was put off is handled at last.
HandleResent ==
    /\ resent # <<>>
    /\ resent' = Tail(resent)
    /\ LET m == Head(resent)
       IN  \/ m.kind = "start" /\ DoStart(m.s, m.o, owed)
           \/ m.kind = "update" /\ DoUpdate(m.s, m.o, owed)
    /\ UNCHANGED <<clientVars, modemVars, used, capsKnown, mPendingMsgs>>

\* The calls that stop the time-based sessions of c, one after the other, and
\* those that stop the distance-based ones.
StopsOfTimeBased(c) ==
    LET q == InOrder({s \in Held(timeBased) : ClientOf[s] = c /\ StopMultiplex(s) # <<>>})
    IN  [i \in DOMAIN q |-> StopMultiplex(q[i])[1]]

StopsOfDistanceBased(c, then) ==
    LET q == InOrder({s \in Held(distanceBased) : ClientOf[s] = c})
    IN  [i \in DOMAIN q |-> StopDistance(q[i], None, then)]

\* mutant: the distance-based sessions of a removed client stay in the table
StopClientSessionsKeeping(c) ==
    calls' = calls \o StopsOfTimeBased(c) \o StopsOfDistanceBased(c, "nothing")

\* stopClientSessions: the time-based sessions are stopped but not erased
StopClientSessions(c) ==
    calls' = calls \o StopsOfTimeBased(c) \o StopsOfDistanceBased(c, "forget")

RemoveClient(c) ==
    /\ c \in clients /\ Use("removals")
    /\ StopClientSessions(c)
    /\ clients' = clients \ {c}
    /\ UNCHANGED <<sessionVars, deferVars, modemVars, phase, owed>>

-----------------------------------------------------------------------------
(* What LocApi and the modem do *)

\* The modem carries out a call, or fails: it is down, or has a failure left
ModemDoes(k, ok) ==
    /\ IF ok THEN engine # "down" /\ UNCHANGED used
             ELSE IF engine = "down" \/ (k.op = "startDistance" /\ ~ DistanceSupported)
                  THEN UNCHANGED used ELSE Use("failures")
    /\ ok /\ k.op = "startDistance" => DistanceSupported
    /\ modem' = IF ok /\ k.op \in {"start", "stop"} THEN k.o ELSE modem
    /\ modemDistance' = IF ok /\ k.op = "startDistance" THEN modemDistance \union {k.s}
                        ELSE IF ok /\ k.op = "stopDistance" THEN modemDistance \ {k.s}
                        ELSE modemDistance
    /\ UNCHANGED engine

\* mutant: only a failure is reported
OnStartSilently(k, ok) ==
    /\ owed' = Report(owed, k.s, ~ ok)
    /\ calls' = Tail(calls)
    /\ IF ok THEN UNCHANGED sessionVars ELSE EraseTrackingSession(k.s)

\* The answer to a start: a session that did not start is erased
OnStart(k, ok) ==
    /\ owed' = Report(owed, k.s, TRUE)
    /\ calls' = Tail(calls)
    /\ IF ok THEN UNCHANGED sessionVars ELSE EraseTrackingSession(k.s)

\* The answer to an update: the old options come back if it failed
OnUpdate(k, ok) ==
    /\ owed' = Report(owed, k.s, TRUE)
    /\ calls' = Tail(calls)
    /\ IF ok THEN UNCHANGED sessionVars ELSE SaveTrackingSession(k.s, k.old)

\* The answer to a stop of a distance-based session
OnStopDistance(k, ok) ==
    /\ owed' = Report(owed, k.s, k.then = "erase")
    /\ calls' = Tail(calls)
    /\ IF ok THEN EraseTrackingSession(k.s) ELSE UNCHANGED sessionVars

\* Distance based to time based: now the time-based session can start
OnSwitch(k) ==
    /\ calls' = Tail(calls) \o StartMultiplex(k.s, k.o)
    /\ SaveTrackingSession(k.s, k.o)
    /\ owed' = Report(owed, k.s, StartMultiplex(k.s, k.o) = <<>>)

\* A distance-based session is updated: stopped, started again, then saved
OnRestart(k, ok) ==
    /\ calls' = IF ok THEN Append(Tail(calls), StartDistance(k.s, k.o, "save"))
                ELSE Tail(calls)
    /\ UNCHANGED <<sessionVars, owed>>

OnSave(k, ok) ==
    /\ owed' = Report(owed, k.s, TRUE)
    /\ calls' = Tail(calls)
    /\ IF ok THEN SaveTrackingSession(k.s, k.o) ELSE UNCHANGED sessionVars

OnOther(k) ==
    /\ owed' = Report(owed, k.s, k.then = "report")
    /\ calls' = Tail(calls)
    /\ UNCHANGED sessionVars

LocApiAnswers(ok) ==
    /\ calls # <<>>
    /\ LET k == Head(calls)
       IN  /\ ModemDoes(k, ok)
           /\ \/ k.then = "erase" /\ k.op # "stopDistance" /\ OnStart(k, ok)
              \/ k.then = "restore" /\ OnUpdate(k, ok)
              \/ k.then \in {"erase", "forget"} /\ k.op = "stopDistance" /\ OnStopDistance(k, ok)
              \/ k.then = "switch" /\ OnSwitch(k)
              \/ k.then = "restart" /\ OnRestart(k, ok)
              \/ k.then = "save" /\ OnSave(k, ok)
              \/ k.then \in {"report", "nothing"} /\ OnOther(k)
    /\ UNCHANGED <<deferVars, clientVars>>

\* The modem restarts: its sessions are gone.
ModemRestart ==
    /\ engine = "up" /\ Use("restarts")
    /\ engine' = "down" /\ modem' = None /\ modemDistance' = {}
    /\ UNCHANGED <<sessionVars, deferVars, clientVars, calls, owed>>

ModemOpens ==
    /\ engine = "down" /\ engine' = "opened"
    /\ UNCHANGED <<sessionVars, deferVars, clientVars, calls, owed, used, modem, modemDistance>>

\* restartSessions: the calls it makes
RestartTimeBased ==
    LET all == Held(timeBased)
    IN  IF all = {} THEN <<>>
        ELSE <<Call("start", 0, [Smallest(all) EXCEPT !.power = LeastPower(all)],
                    "nothing", None)>>

RestartDistanceBased ==
    LET q == InOrder(Held(distanceBased))
    IN  [i \in DOMAIN q |-> StartDistance(q[i], distanceBased[q[i]], "nothing")]

RestartSessions == RestartTimeBased \o RestartDistanceBased

\* MsgHandleEngineUpEvent
HandleEngineUp ==
    /\ engine = "opened" /\ engine' = "up"
    /\ capsKnown' = TRUE
    /\ calls' = calls \o RestartSessions
    /\ resent' = resent \o mPendingMsgs /\ mPendingMsgs' = <<>>
    /\ UNCHANGED <<sessionVars, clientVars, owed, used, modem, modemDistance>>

Next ==
    \/ \E s \in Session, o \in Options : StartTrackingCommand(s, o)
    \/ \E s \in Session, o \in Options : UpdateTrackingOptionsCommand(s, o)
    \/ \E s \in Session : StopTrackingCommand(s)
    \/ \E c \in Client : RemoveClient(c)
    \/ \E ok \in BOOLEAN : LocApiAnswers(ok)
    \/ HandleResent \/ ModemRestart \/ ModemOpens \/ HandleEngineUp

Spec == Init /\ [][Next]_vars

-----------------------------------------------------------------------------
(* Correctness *)

DeferredRequest == [kind : {"start", "update"}, s : Session, o : Options]

\* What each kind of call to LocApi carries.  The options of a call to start
\* may be mixed from those of two sessions.
LocApiCall ==
    [op : {"start"}, s : Session, o : Option, then : {"erase"}, old : {None}]
    \union [op : {"start"}, s : Session, o : Option, then : {"restore"}, old : Options]
    \union [op : {"start"}, s : {0}, o : Option, then : {"nothing"}, old : {None}]
    \union [op : {"stop"}, s : Session, o : {None}, then : {"report"}, old : {None}]
    \union [op : {"startDistance"}, s : Session, o : Options,
            then : {"erase", "nothing"}, old : {None}]
    \union [op : {"startDistance"}, s : Session, o : {o \in Options : o.distance},
            then : {"save"}, old : {None}]
    \union [op : {"stopDistance"}, s : Session, o : {None},
            then : {"erase", "forget"}, old : {None}]
    \union [op : {"stopDistance"}, s : Session, o : {o \in Options : o.distance},
            then : {"restart"}, old : {None}]
    \union [op : {"stopDistance"}, s : Session, o : {o \in Options : ~ o.distance},
            then : {"switch"}, old : {None}]

\* Every variable has its type.
TypeOK ==
    /\ timeBased \in [Session -> Options \union {None}]
    /\ distanceBased \in [Session -> Options \union {None}]
    /\ powerOn \in BOOLEAN /\ capsKnown \in BOOLEAN
    /\ mPendingMsgs \in Seq(DeferredRequest) /\ resent \in Seq(DeferredRequest)
    /\ clients \subseteq Client
    /\ calls \in Seq(LocApiCall)
    /\ modem \in Option \union {None} /\ modemDistance \subseteq Session
    /\ engine \in {"down", "opened", "up"}
    /\ phase \in [Session -> {"new", "started", "stopped"}]
    /\ owed \in [Session -> Nat]
    /\ used \in [DOMAIN Limit -> Nat] /\ \A b \in DOMAIN Limit : used[b] <= Limit[b]

\* Nothing is under way between the adapter and the modem.
Quiet == calls = <<>> /\ resent = <<>> /\ engine = "up"

\* The modem was up all the time and carried out every call.
NothingFailed ==
    InitialEngine = "up" /\ used["restarts"] = 0 /\ used["failures"] = 0

\* While there is a time-based session, the modem tracks, and at least as often
\* as every session asked for.
ModemFastEnough ==
    Quiet /\ Held(timeBased) # {} =>
        modem # None /\ \A s \in Held(timeBased) : modem.interval <= timeBased[s].interval

\* It does so with the power the most demanding session asked for
\* ("find the smallest interval and powerMode").
ModemPowerEnough ==
    Quiet /\ modem # None => \A s \in Held(timeBased) : modem.power <= timeBased[s].power

\* As long as the modem carries out every call, a session its client has
\* stopped is not there any more, nor comes back
\* ("stopTracking stops a tracking session associated with id parameter").
StoppedStaysStopped ==
    Quiet /\ NothingFailed => \A s \in Session :
        phase[s] = "stopped" => s \notin Held(timeBased) \union Held(distanceBased)

\* What clients stopped is off: their sessions are gone, the modem does not
\* track for nobody, and what the adapter reports as powered off is off.
OffWhenUnused ==
    /\ StoppedStaysStopped
    /\ Quiet /\ NothingFailed =>
             /\ Held(timeBased) = {} => modem = None
             /\ ~ powerOn => modem = None /\ modemDistance = {}

\* The modem runs the distance-based sessions the adapter holds.
ModemRunsHeldSessions == Quiet => Held(distanceBased) = modemDistance

\* It does until a second update comes: one that overtakes the answer to the
\* first finds the session already stopped, or puts it back when it is.
DistanceSessionsAgree == used["updates"] <= 1 => ModemRunsHeldSessions

\* Every request of a client got exactly one response.
EveryRequestAnswered ==
    Quiet => \A s \in Session : ClientOf[s] \in clients => owed[s] = 0

=============================================================================

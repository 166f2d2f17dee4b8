------------------------------- MODULE Batching -------------------------------
(***************************************************************************)
(* BatchingAdapter: sessions that batch positions in the modem.  Each      *)
(* routine (or no-auto-report) session is a session of the modem; all      *)
(* outdoor trips share one batch of the modem, long enough for the trip    *)
(* with the least distance left, which is restarted as trips come and go.  *)
(* LocApi takes calls in order on a thread of its own and returns their    *)
(* results to the adapter's queue.                                         *)
(***************************************************************************)
EXTENDS Integers, Sequences, FiniteSets, SequencesExt

CONSTANTS
    Client,
    None,
    Modes,          \* batching modes the clients use
    Trips,          \* a trip's minDistance and minInterval: records [d, i]
    Word,           \* uint32_t counts modulo Word
    MaxRequests,    \* bound on requests
    MaxTravel,      \* bound on the distance travelled
    MaxEvents       \* bound on failures, restarts and removals of clients together

ASSUME BatchingAssumption ==
    /\ Modes \subseteq {"routine", "trip", "noReport"}
    /\ \A t \in Trips : t.d \in 1..(Word - 1) /\ t.i \in 1..(Word - 1)
    /\ {Word, MaxRequests, MaxTravel, MaxEvents} \subseteq Nat
    /\ Word > 0 /\ None \notin Client

VARIABLES
    requests, owner,    \* requests made; the client of each session
    mBatchingSessions,  \* sessions to modes
    mTripSessions,      \* sessions to their TripSessionStatus
    ongoing,            \* mOngoingTripDistance, mOngoingTripTBFInterval
    dropped,            \* mTripWithOngoing...Dropped: "d" and "i"
    batchFull,          \* is the adapter registered for full batches?
    known, mPendingMsgs,
    clients,            \* mClientData
    msgQ, apiQ,         \* messages to the adapter; calls LocApi has still to take
    modem,              \* the modem's routine sessions
    batch,              \* its trip batch: distance, interval, what it has covered
    engine,
    travelled, since,   \* history: the way covered, and covered when a trip began
    ended, early,       \* history: trips completed; of them, before their distance was covered
    used

tableVars == <<mBatchingSessions, mTripSessions, ongoing, dropped, batchFull>>
readyVars == <<known, mPendingMsgs, clients>>
modemVars == <<modem, batch, engine>>
historyVars == <<travelled, since, ended, early, used>>
clientVars == <<requests, owner>>
vars == <<clientVars, tableVars, readyVars, msgQ, apiQ, modemVars, historyVars>>

Session == 1..MaxRequests
Option == [mode : {"routine", "noReport"}, d : {0}, i : {0}]
              \union [mode : {"trip"}, d : {t.d : t \in Trips}, i : {t.i : t \in Trips}]
Options == {o \in Option : o.mode \in Modes /\ (o.mode = "trip" => [d |-> o.d, i |-> o.i] \in Trips)}

\* BatchingOptions(): what stopBatching is given when no restart is wanted
Default == [mode |-> "routine", d |-> 0, i |-> 0]

Sub(a, b) == (a - b) % Word
Add(a, b) == (a + b) % Word

Saved == {s \in Session : mBatchingSessions[s] # None}
OnTrip == {s \in Session : mTripSessions[s] # None}

Init ==
    /\ requests = 0 /\ owner = [s \in Session |-> None]
    /\ mBatchingSessions = [s \in Session |-> None]
    /\ mTripSessions = [s \in Session |-> None]
    /\ ongoing = [d |-> 0, i |-> 0] /\ dropped = {} /\ batchFull = FALSE
    /\ known = FALSE /\ mPendingMsgs = <<>> /\ clients = Client
    /\ msgQ = <<>> /\ apiQ = <<[op |-> "open"]>>
    /\ modem = [s \in Session |-> None] /\ batch = None /\ engine = "down"
    /\ travelled = 0 /\ since = [s \in Session |-> 0] /\ ended = {} /\ early = {} /\ used = {}

Use(event) ==
    /\ event \notin used /\ Cardinality(used) < MaxEvents
    /\ used' = used \union {event}

-----------------------------------------------------------------------------
(* The clients *)

Quiet == msgQ = <<>> /\ apiQ = <<>>

\* generateSessionId: here the number of the request
StartBatchingCommand(c, o) ==
    LET s == requests + 1 IN
    /\ c \in clients /\ s \in Session
    /\ requests' = s /\ owner' = [owner EXCEPT ![s] = c]
    /\ msgQ' = Append(msgQ, [type |-> "start", s |-> s, o |-> o])
    /\ UNCHANGED <<tableVars, readyVars, apiQ, modemVars, historyVars>>

LaterCommand(s, m) ==
    /\ owner[s] \in clients /\ requests < MaxRequests
    /\ requests' = requests + 1
    /\ msgQ' = Append(msgQ, m)
    /\ UNCHANGED <<owner, tableVars, readyVars, apiQ, modemVars, historyVars>>

UpdateBatchingOptionsCommand(s, o) == LaterCommand(s, [type |-> "update", s |-> s, o |-> o])
StopBatchingCommand(s) == LaterCommand(s, [type |-> "stop", s |-> s])

RemoveClientCommand(c) ==
    /\ c \in clients /\ Use("remove")
    /\ msgQ' = Append(msgQ, [type |-> "removeClient", c |-> c])
    /\ UNCHANGED <<clientVars, tableVars, readyVars, apiQ, modemVars, travelled, since, ended, early>>

-----------------------------------------------------------------------------
(* Parts of the handlers.  Each Do... gives the calls that are made and the  *)
(* tables; T is a record of the tables, of the calls made so far and of the  *)
(* sessions that were completed.                                             *)

Tables == [saved |-> mBatchingSessions, trips |-> mTripSessions, ongoing |-> ongoing,
           dropped |-> dropped, full |-> batchFull, calls |-> <<>>]

Put(T) ==
    /\ mBatchingSessions' = T.saved /\ mTripSessions' = T.trips
    /\ ongoing' = T.ongoing /\ dropped' = T.dropped /\ batchFull' = T.full
    /\ apiQ' = apiQ \o T.calls

\* autoReportBatchingSessionsCount, which counts a saved trip twice
Autos(T) == Cardinality({s \in Session : T.saved[s] \notin {None, "noReport"}})
                + Cardinality({s \in Session : T.trips[s] # None})

Called(T, call) == [T EXCEPT !.calls = Append(@, call)]

Call(op, s, o, back) == [op |-> op, s |-> s, o |-> o, back |-> back]
Ignored == [type |-> "ignored"]

DoStart(T, s, o) ==
    Called([T EXCEPT !.full = @ \/ (o.mode # "noReport" /\ Autos(T) = 0), !.saved[s] = o.mode],
           Call("start", s, o, [type |-> "started", s |-> s, o |-> o]))

\* Mutant: a trip that joins a batch counts what the batch has covered as its own.
NewTripFromStart(o, covered) == [batch |-> 0, this |-> 0, restart |-> 0, d |-> o.d, i |-> o.i]

\* A TripSessionStatus, for a trip that begins when the batch has covered that much
NewTrip(o, covered) == [batch |-> covered, this |-> 0, restart |-> 0, d |-> o.d, i |-> o.i]

\* A session that is not the first trip is not saved in mBatchingSessions.
DoStartTrip(T, s, o) ==
    IF \A t \in Session : T.trips[t] = None
    THEN Called([T EXCEPT !.full = @ \/ Autos(T) = 0, !.saved[s] = "trip",
                          !.trips[s] = NewTrip(o, 0)],
                Call("tripStart", s, o, [type |-> "tripStarted", s |-> s, o |-> o]))
    ELSE Called(T, Call("query", s, o, [type |-> "queried", s |-> s, o |-> o]))

DoStartAny(T, s, o) == IF o.mode = "trip" THEN DoStartTrip(T, s, o) ELSE DoStart(T, s, o)

DoStop(T, s, again, o) ==
    IF T.saved[s] = None THEN T
    ELSE Called([T EXCEPT !.saved[s] = None],
                Call("stop", s, o, [type |-> "stopped", s |-> s, was |-> T.saved[s],
                                    again |-> again, o |-> o]))

\* The loops over mTripSessions, in the order of the sessions' ids, keep a running
\* minimum that takes a zero for "none yet".
RunningLeast(values) ==
    FoldLeft(LAMBDA least, v : IF least = 0 \/ least > v THEN v ELSE least, 0, values)

InOrder(T) == SetToSortSeq({s \in Session : T.trips[s] # None}, <)
LeastLeft(T) ==
    RunningLeast([k \in DOMAIN InOrder(T) |-> LET trip == T.trips[InOrder(T)[k]]
                                              IN Sub(trip.d, trip.this)])
LeastInterval(T) == RunningLeast([k \in DOMAIN InOrder(T) |-> T.trips[InOrder(T)[k]].i])

\* Mutant: the last trip gone, the modem is not told to stop.
DoRestartTripsKeepingLast(T, query, acc) ==
    IF \A s \in Session : T.trips[s] = None THEN [T EXCEPT !.ongoing = [d |-> 0, i |-> 0]]
    ELSE Called(T, Call("query", 0, Default,
                        [type |-> "requeried", query |-> query, acc |-> acc,
                         left |-> LeastLeft(T), i |-> LeastInterval(T)]))

DoRestartTrips(T, query, acc) ==
    IF \A s \in Session : T.trips[s] = None
    THEN LET E == [T EXCEPT !.ongoing = [d |-> 0, i |-> 0]] IN
         Called([E EXCEPT !.full = @ /\ Autos(E) > 0], Call("tripStop", 0, Default, Ignored))
    ELSE Called(T, Call("query", 0, Default,
                        [type |-> "requeried", query |-> query, acc |-> acc,
                         left |-> LeastLeft(T), i |-> LeastInterval(T)]))

Dropping(T, trip) ==
    {x \in {"d", "i"} : trip[x] = T.ongoing[x]}

\* stopTripBatchingMultiplexCommon.  The trip is looked up without asking whether it
\* is still there: if not, what is read is anything, and here a flag may be set or not.
StopTripCommon(T, s, again, o, garbage) ==
    LET A == [T EXCEPT !.dropped = @ \union (IF T.trips[s] = None THEN garbage
                                                                  ELSE Dropping(T, T.trips[s])),
                       !.trips[s] = None]
        B == IF \A t \in Session : A.trips[t] = None
             THEN [A EXCEPT !.ongoing = [d |-> 0, i |-> 0]] ELSE DoRestartTrips(A, TRUE, 0)
    IN IF again THEN DoStartAny([B EXCEPT !.saved[s] = None], s, o) ELSE B

DoStopTrip(T, s, again, o, garbage) ==
    IF Cardinality({t \in Session : T.trips[t] # None}) = 1
    THEN Called(T, Call("tripStop", s, o, [type |-> "tripStopped", s |-> s, again |-> again, o |-> o]))
    ELSE StopTripCommon(T, s, again, o, garbage)

Garbage == SUBSET {"d", "i"}

-----------------------------------------------------------------------------
(* The adapter: commands.  Until the capabilities are known they are put off. *)

Arrives(type) == msgQ # <<>> /\ Head(msgQ).type = type /\ msgQ' = Tail(msgQ)

Defer ==
    /\ ~known
    /\ \E type \in {"start", "update", "stop"} : Arrives(type)
    /\ mPendingMsgs' = Append(mPendingMsgs, Head(msgQ))
    /\ UNCHANGED <<clientVars, tableVars, known, clients, apiQ, modemVars, historyVars>>

HandleStart ==
    /\ known /\ Arrives("start")
    /\ LET m == Head(msgQ) IN
       IF owner[m.s] \in clients THEN Put(DoStartAny(Tables, m.s, m.o))
                                 ELSE UNCHANGED <<tableVars, apiQ>>
    /\ UNCHANGED <<clientVars, readyVars, modemVars, historyVars>>

HandleUpdate ==
    /\ known /\ Arrives("update")
    /\ LET m == Head(msgQ) IN
       \/ m.s \notin Saved /\ UNCHANGED <<tableVars, apiQ>>
       \/ m.s \in Saved /\ m.s \notin OnTrip /\ Put(DoStop(Tables, m.s, TRUE, m.o))
       \/ m.s \in Saved \intersect OnTrip /\ Put(DoStopTrip(Tables, m.s, TRUE, m.o, {}))
    /\ UNCHANGED <<clientVars, readyVars, modemVars, historyVars>>

HandleStop ==
    /\ known /\ Arrives("stop")
    /\ LET m == Head(msgQ) IN
       \/ m.s \notin Saved /\ UNCHANGED <<tableVars, apiQ>>
       \/ m.s \in Saved /\ m.s \notin OnTrip /\ Put(DoStop(Tables, m.s, FALSE, Default))
       \/ m.s \in Saved \intersect OnTrip /\ Put(DoStopTrip(Tables, m.s, FALSE, Default, {}))
    /\ UNCHANGED <<clientVars, readyVars, modemVars, historyVars>>

\* Mutant: a client's sessions are forgotten, not stopped.
HandleRemoveClientForgetting ==
    /\ Arrives("removeClient")
    /\ LET c == Head(msgQ).c
           T == [Tables EXCEPT !.saved = [s \in Session |-> IF owner[s] = c THEN None ELSE @[s]]]
       IN Put([T EXCEPT !.full = Autos(T) > 0]) /\ clients' = clients \ {c}
    /\ UNCHANGED <<clientVars, known, mPendingMsgs, modemVars, historyVars>>

\* stopClientSessions goes by the mode saved, though the trip may be over;
\* then updateClientsEventMask sets the mask anew.
HandleRemoveClient ==
    /\ Arrives("removeClient")
    /\ LET c == Head(msgQ).c
           mine == SetToSortSeq({s \in Saved : owner[s] = c}, <)
       IN \E garbage \in Garbage :
          LET Stop1(T, s) == IF mBatchingSessions[s] = "trip"
                             THEN DoStopTrip(T, s, FALSE, Default, garbage)
                             ELSE DoStop(T, s, FALSE, Default)
              T == FoldLeft(Stop1, Tables, mine)
          IN Put([T EXCEPT !.full = Autos(T) > 0]) /\ clients' = clients \ {c}
    /\ UNCHANGED <<clientVars, known, mPendingMsgs, modemVars, historyVars>>

\* restartSessions; it resets copies of the trips, not the trips.
HandleEngineUp ==
    /\ Arrives("engineUp")
    /\ known' = TRUE /\ mPendingMsgs' = <<>>
    /\ LET routine == SetToSortSeq({s \in Saved : mBatchingSessions[s] # "trip"}, <)
           A == [Tables EXCEPT !.full = @ \/ Autos(Tables) > 0,
                     !.calls = [n \in DOMAIN routine |->
                         Call("start", routine[n],
                              [mode |-> mBatchingSessions[routine[n]], d |-> 0, i |-> 0], Ignored)]]
           first == [d |-> LeastLeft(A), i |-> LeastInterval(A)]
       IN Put(IF OnTrip = {} THEN A
              ELSE Called([A EXCEPT !.ongoing = first],
                          Call("tripStart", 0, [mode |-> "trip"] @@ first, [type |-> "resumed"])))
    /\ msgQ' = Tail(msgQ) \o mPendingMsgs
    /\ UNCHANGED <<clientVars, clients, modemVars, historyVars>>

-----------------------------------------------------------------------------
(* The adapter: results of calls *)

\* Mutant: whoever else still reports is not considered.
UnregisterAnyway(T, condition) == [T EXCEPT !.full = @ /\ ~condition]

\* The registration is undone when nothing reports by itself any more.
Unregister(T, condition) == [T EXCEPT !.full = @ /\ ~(condition /\ Autos(T) = 0)]

AfterStarted(m) ==
    IF m.ok THEN Tables
    ELSE Unregister([Tables EXCEPT !.saved[m.s] = None], m.o.mode # "noReport")

\* A session whose stop fails is saved with the options for the restart.
AfterStopped(m) ==
    IF ~m.ok THEN [Tables EXCEPT !.saved[m.s] = m.o.mode]
    ELSE LET A == Unregister(Tables, m.was # "noReport") IN
         IF m.again THEN DoStartAny(A, m.s, m.o) ELSE A

AfterTripStarted(m) ==
    IF m.ok THEN [Tables EXCEPT !.ongoing = [d |-> m.o.d, i |-> m.o.i]]
    ELSE Unregister([Tables EXCEPT !.saved[m.s] = None, !.trips[m.s] = None], TRUE)

\* The trips' distances so far, and a batch that starts from zero
Credit(T, acc) ==
    [s \in Session |-> IF T.trips[s] = None THEN None
                       ELSE LET t == T.trips[s]
                                so == Add(t.restart, Sub(acc, t.batch))
                            IN [t EXCEPT !.this = so, !.restart = so, !.batch = 0]]
NoCredit(T) ==
    [s \in Session |-> IF T.trips[s] = None THEN None
                       ELSE [T.trips[s] EXCEPT !.restart = T.trips[s].this, !.batch = 0]]

\* startTripBatchingMultiplex, once the distance covered so far is known
AfterQueried(m) ==
    LET left == IF m.ok THEN Sub(ongoing.d, m.covered) ELSE ongoing.d
        sooner == m.o.i < ongoing.i
        nearer == m.o.d < left
        next == [d |-> IF nearer THEN m.o.d ELSE IF sooner THEN left ELSE ongoing.d,
                 i |-> IF sooner THEN m.o.i ELSE ongoing.i]
        A == IF m.ok
             THEN [Tables EXCEPT !.trips[m.s] = NewTrip(m.o, m.covered)]
             ELSE Tables
    IN IF sooner \/ nearer
       THEN Called([A EXCEPT !.ongoing = next, !.trips = NoCredit(A)],
                   Call("tripStart", m.s, [mode |-> "trip"] @@ next, Ignored))
       ELSE A

\* restartTripBatching, once the distance covered so far is known
AfterRequeried(m) ==
    LET acc == IF m.query THEN m.covered ELSE m.acc
        left == Sub(ongoing.d, acc)
        nearer == IF "d" \notin dropped /\ left # 0 THEN m.left < left ELSE m.left # 0
        other == m.i < ongoing.i \/ (m.i # ongoing.i /\ "i" \in dropped)
        next == [d |-> IF nearer THEN m.left ELSE ongoing.d,
                 i |-> IF other THEN m.i ELSE ongoing.i]
    IN IF nearer \/ other
       THEN Called(Tables, Call("tripStart", 0, [mode |-> "trip"] @@ next,
                                [type |-> "restarted", acc |-> acc, next |-> next]))
       ELSE Tables

AfterRestarted(m) ==
    IF m.ok THEN [Tables EXCEPT !.ongoing = m.next, !.trips = Credit(Tables, m.acc)] ELSE Tables

AfterTripStopped(m, garbage) ==
    StopTripCommon([Tables EXCEPT !.full = @ /\ ~(m.ok /\ Autos(Tables) = 1)],
                   m.s, m.again, m.o, garbage)

HandleResult ==
    /\ \/ Arrives("started") /\ Put(AfterStarted(Head(msgQ)))
       \/ Arrives("stopped") /\ Put(AfterStopped(Head(msgQ)))
       \/ Arrives("tripStarted") /\ Put(AfterTripStarted(Head(msgQ)))
       \/ Arrives("queried") /\ Put(AfterQueried(Head(msgQ)))
       \/ Arrives("requeried") /\ Put(AfterRequeried(Head(msgQ)))
       \/ Arrives("restarted") /\ Put(AfterRestarted(Head(msgQ)))
       \/ /\ Arrives("tripStopped")
          /\ \E garbage \in Garbage : Put(AfterTripStopped(Head(msgQ), garbage))
       \/ /\ Arrives("resumed")
          /\ Put(IF Head(msgQ).ok THEN Tables ELSE [Tables EXCEPT !.ongoing = [d |-> 0, i |-> 0]])
    /\ UNCHANGED <<clientVars, readyVars, modemVars, historyVars>>

Complete(trips) == {s \in OnTrip : trips[s].d <= trips[s].this}

\* reportCompletedTripsEvent.  A completed trip is read after it was erased.
HandleTripReport ==
    /\ Arrives("tripReport")
    /\ LET acc == Head(msgQ).acc
           So(t) == [t EXCEPT !.this = Add(t.restart, Sub(acc, t.batch))]
           trips == [s \in Session |-> IF s \in OnTrip THEN So(mTripSessions[s]) ELSE None]
           done == Complete(trips)
       IN /\ \E garbage \in Garbage :
                LET A == [Tables EXCEPT
                            !.trips = [s \in Session |-> IF s \in done THEN None ELSE trips[s]],
                            !.dropped = IF done = {} THEN @ ELSE @ \union garbage]
                IN Put(IF done = {} THEN A ELSE DoRestartTrips(A, FALSE, acc))
          /\ ended' = ended \union done
          /\ early' = early \union {s \in done : travelled - since[s] < trips[s].d}
    /\ UNCHANGED <<clientVars, readyVars, modemVars, travelled, since, used>>

-----------------------------------------------------------------------------
(* LocApi and the modem (external) *)

Result(c, ok, covered) ==
    msgQ' = IF c.back.type = "ignored" THEN msgQ
            ELSE Append(msgQ, c.back @@ [ok |-> ok, covered |-> covered])

ModemDoes(c) ==
    /\ engine = "up" /\ (c.op = "stop" => modem[c.s] # None) /\ (c.op = "query" => batch # None)
    /\ modem' = CASE c.op = "start" -> [modem EXCEPT ![c.s] = c.o.mode]
                  [] c.op = "stop" -> [modem EXCEPT ![c.s] = None]
                  [] OTHER -> modem
    /\ batch' = CASE c.op = "tripStart" -> [d |-> c.o.d, i |-> c.o.i, covered |-> 0]
                  [] c.op = "tripStop" -> None
                  [] OTHER -> batch
    /\ since' = IF c.back.type \in {"tripStarted", "queried"}
                THEN [since EXCEPT ![c.s] = travelled] ELSE since
    /\ Result(c, TRUE, IF c.op = "query" THEN batch.covered ELSE 0)
    /\ UNCHANGED used

ModemRefuses(c) ==
    /\ \/ engine = "down" /\ UNCHANGED used
       \/ engine = "up" /\ c.op = "stop" /\ modem[c.s] = None /\ UNCHANGED used
       \/ engine = "up" /\ c.op = "query" /\ batch = None /\ UNCHANGED used
       \/ engine = "up" /\ Use("failure")
    /\ Result(c, FALSE, 0)
    /\ UNCHANGED <<modem, batch, since>>

LocApiCall ==
    /\ apiQ # <<>> /\ Head(apiQ).op # "open" /\ apiQ' = Tail(apiQ)
    /\ ModemDoes(Head(apiQ)) \/ ModemRefuses(Head(apiQ))
    /\ UNCHANGED <<clientVars, tableVars, readyVars, engine, travelled, ended, early>>

\* LocOpenMsg, LocSsrMsg: the modem is opened and the adapters are told
LocApiOpens ==
    /\ apiQ # <<>> /\ Head(apiQ).op = "open" /\ apiQ' = Tail(apiQ)
    /\ engine' = "up" /\ msgQ' = Append(msgQ, [type |-> "engineUp"])
    /\ UNCHANGED <<clientVars, tableVars, readyVars, modem, batch, historyVars>>

ModemRestart ==
    /\ engine = "up" /\ Use("restart")
    /\ engine' = "down" /\ modem' = [s \in Session |-> None] /\ batch' = None
    /\ apiQ' = Append(apiQ, [op |-> "open"])
    /\ UNCHANGED <<clientVars, tableVars, readyVars, msgQ, travelled, since, ended, early>>

Travel ==
    /\ batch # None /\ travelled < MaxTravel
    /\ travelled' = travelled + 1
    /\ batch' = [batch EXCEPT !.covered = @ + 1]
    /\ msgQ' = IF batch.covered + 1 = batch.d
               THEN Append(msgQ, [type |-> "tripReport", acc |-> batch.d]) ELSE msgQ
    /\ UNCHANGED <<clientVars, tableVars, readyVars, apiQ, modem, engine, since, ended, early, used>>

-----------------------------------------------------------------------------
Command ==
    \/ \E c \in Client, o \in Options : StartBatchingCommand(c, o)
    \/ \E s \in Session, o \in Options : UpdateBatchingOptionsCommand(s, o)
    \/ \E s \in Session : StopBatchingCommand(s)
    \/ \E c \in Client : RemoveClientCommand(c)

Adapter ==
    \/ Defer \/ HandleStart \/ HandleUpdate \/ HandleStop \/ HandleRemoveClient
    \/ HandleEngineUp \/ HandleResult \/ HandleTripReport

Next == Command \/ Adapter \/ LocApiCall \/ LocApiOpens \/ ModemRestart \/ Travel

Spec == Init /\ [][Next]_vars

=============================================================================

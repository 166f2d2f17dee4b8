------------------------------ MODULE Geofences ------------------------------
(***************************************************************************)
(* Geofences: one client (LocationAPIClientBase), GeofenceAdapter and the  *)
(* modem.  A request names several geofences.  The adapter gives each its  *)
(* turn in LocApi's call queue, looks it up when the turn comes, and makes *)
(* a call of its own for it; one collective response ends the request.     *)
(* LocApi is the library ContextBase::createLocApi loads: it works through *)
(* turns and calls in order, on a thread of its own.                       *)
(***************************************************************************)
EXTENDS Integers, Sequences, FiniteSets

CONSTANTS
    Id,             \* the client's names of geofences
    Mask,           \* breachTypeMask, standing for all the options
    None,
    Kinds,          \* requests the client makes
    MaxRequests,    \* bound on requests
    MaxOpen,        \* bound on requests open together
    MaxEvents       \* bound on failures, restarts, breaches and destructions together

Session == 1..(2 * MaxRequests)
HwId == 1..(2 * MaxRequests)

Geofence == [key : Session, mask : Mask, paused : BOOLEAN]

\* A request's arrays: what is reported for each geofence, and what became of it
Outcome == {"garbage", "nothing", "ok", "failed", "unknown"}
Batch == [kind : {"add", "remove", "modify", "pause", "resume"}, keys : Seq(Session),
          mask : Mask \union {None}, errs : Seq(Outcome), did : Seq(Outcome),
          state : {"live", "freed"}]

ASSUME GeofenceAssumption ==
    /\ Kinds \subseteq {"add", "remove", "modify", "pause", "resume"}
    /\ Mask # {} /\ None \notin Id \union Mask \union Geofence \union Batch
    /\ {MaxRequests, MaxOpen, MaxEvents} \subseteq Nat

VARIABLES
    forward, backward,  \* mGeofenceBiDict: ids to sessions and back
    requests,           \* mRequestQueues[REQUEST_GEOFENCE]: numbers of requests
    client,             \* is the client in the adapter's mClientData?
    batch,              \* the requests so far, with their arrays ids and errs
    mGeofenceIds,       \* the adapter: sessions to hwIds
    mGeofences,         \* and hwIds to geofences
    msgQ,               \* messages to the adapter
    apiQ,               \* turns and calls LocApi has still to take
    modem, engine,      \* geofences the modem watches; "up" or "down"
    wrong,              \* history: what went wrong, see the properties
    used                \* events that have happened

clientVars == <<forward, backward, requests, client>>
tableVars == <<mGeofenceIds, mGeofences>>
modemVars == <<modem, engine>>
vars == <<clientVars, batch, tableVars, msgQ, apiQ, modemVars, wrong, used>>

\* An event of which there may be one only, and MaxEvents of all kinds
Use(event) ==
    /\ event \notin used /\ Cardinality(used) < MaxEvents
    /\ used' = used \union {event}

\* What one request may name: one geofence, or two
Batches == {ids \in [1..1 -> Id] \union [1..2 -> Id] :
                \A i, j \in DOMAIN ids : ids[i] = ids[j] => i = j}

\* generateSessionId: the session of the i-th geofence the r-th request adds
SessionOf(r, i) == 2 * (r - 1) + i

Geofences(table) == {hw \in HwId : table[hw] # None}

\* the members of a set of numbers, as an iterator of a map gives them
InOrder(S) ==
    [i \in 1..Cardinality(S) |-> CHOOSE s \in S : Cardinality({t \in S : t <= s}) = i]

Init ==
    /\ forward = [i \in Id |-> 0] /\ backward = [s \in Session |-> None]
    /\ requests = <<>> /\ client = TRUE
    /\ batch = <<>>
    /\ mGeofenceIds = [s \in Session |-> 0] /\ mGeofences = [hw \in HwId |-> None]
    /\ msgQ = <<>> /\ apiQ = <<>>
    /\ modem = [hw \in HwId |-> None] /\ engine = "up"
    /\ wrong = {}
    /\ used = {}

-----------------------------------------------------------------------------
(* The client, under its mutex.  A request is posted and queued in one step. *)

Post(kind, keys, mask) ==
    /\ batch' = Append(batch, [kind |-> kind, keys |-> keys, mask |-> mask,
                               errs |-> [i \in DOMAIN keys |-> "garbage"],
                               did |-> [i \in DOMAIN keys |-> "nothing"],
                               state |-> "live"])
    /\ requests' = Append(requests, Len(batch) + 1)
    /\ msgQ' = Append(msgQ, [type |-> "command", r |-> Len(batch) + 1])

MayRequest(kind) ==
    kind \in Kinds /\ client /\ Len(batch) < MaxRequests /\ Len(requests) < MaxOpen

\* An id that is added again leaves its old session in the backward map.
AddGeofences(ids, mask) ==
    LET sessions == [i \in DOMAIN ids |-> SessionOf(Len(batch) + 1, i)] IN
    /\ MayRequest("add")
    /\ Post("add", sessions, mask)
    /\ forward' = [id \in Id |->
           IF \E i \in DOMAIN ids : ids[i] = id
           THEN sessions[CHOOSE i \in DOMAIN ids : ids[i] = id] ELSE forward[id]]
    /\ backward' = [s \in Session |->
           IF \E i \in DOMAIN ids : sessions[i] = s
           THEN ids[CHOOSE i \in DOMAIN ids : sessions[i] = s] ELSE backward[s]]
    /\ UNCHANGED <<client, tableVars, apiQ, modemVars, wrong, used>>

\* The sessions of those ids that have one
Known(ids) ==
    LET places == InOrder({i \in DOMAIN ids : forward[ids[i]] > 0})
    IN  [n \in DOMAIN places |-> forward[ids[places[n]]]]

RemoveGeofences(ids) ==
    LET gone == {Known(ids)[n] : n \in DOMAIN Known(ids)} IN
    /\ MayRequest("remove") /\ gone # {}
    /\ Post("remove", Known(ids), None)
    /\ forward' = [id \in Id |-> IF \E s \in gone : backward[s] = id THEN 0 ELSE forward[id]]
    /\ backward' = [s \in Session |-> IF s \in gone THEN None ELSE backward[s]]
    /\ UNCHANGED <<client, tableVars, apiQ, modemVars, wrong, used>>

ChangeGeofences(kind, ids, mask) ==
    /\ MayRequest(kind) /\ Known(ids) # <<>>
    /\ Post(kind, Known(ids), mask)
    /\ UNCHANGED <<forward, backward, client, tableVars, apiQ, modemVars, wrong, used>>

\* ~LocationAPIClientBase, LocationAPI::destroy
Destroy ==
    /\ client /\ Use("destroy")
    /\ msgQ' = Append(msgQ, [type |-> "removeClient"])
    /\ client' = FALSE /\ requests' = <<>>
    /\ UNCHANGED <<forward, backward, batch, tableVars, apiQ, modemVars, wrong>>

-----------------------------------------------------------------------------
(* The adapter *)

Arrives(type) == msgQ # <<>> /\ Head(msgQ).type = type

FirstOf(r) == 1
LastOf(r) == Len(batch[r].keys)

Flag(condition, what) == IF condition THEN {what} ELSE {}

\* reportResponse with onCollectiveResponseCb, which takes the oldest request.  The
\* arrays are deleted; they are forgotten here once no call is left to use them.
Respond(r, b) ==
    /\ batch' = [batch EXCEPT ![r] =
           IF \E i \in DOMAIN b.did : b.did[i] = "nothing" THEN [b EXCEPT !.state = "freed"]
                                                          ELSE None]
    /\ requests' = IF requests = <<>> THEN <<>> ELSE Tail(requests)
    /\ wrong' = wrong
         \union Flag(requests # <<>> /\ Head(requests) # r, "request")
         \union Flag(\E i \in DOMAIN b.errs : b.errs[i] # b.did[i], "error")
         \union Flag(\E i \in DOMAIN b.did : b.did[i] = "unknown", "unknown")

\* What is left of the handler for the i-th geofence of r
Finish(r, i, b) ==
    IF i = LastOf(r) THEN Respond(r, b)
    ELSE /\ batch' = [batch EXCEPT ![r] = IF @.state = "freed" THEN @ ELSE b]
         /\ wrong' = wrong \union Flag(batch[r].state = "freed", "freed")
         /\ UNCHANGED requests

Turn(r, i) == [type |-> "turn", r |-> r, i |-> i]

Call(op, hw, g, back) == [type |-> "call", op |-> op, hw |-> hw, g |-> g, back |-> back]

HandleCommand ==
    /\ Arrives("command")
    /\ LET r == Head(msgQ).r IN
       apiQ' = apiQ \o [i \in DOMAIN batch[r].keys |-> Turn(r, i)]
    /\ msgQ' = Tail(msgQ)
    /\ UNCHANGED <<clientVars, batch, tableVars, modemVars, wrong, used>>

\* getHwIdFromClient: an add needs no hwId, any other request an entry of the table
HandleTurn ==
    /\ Arrives("turn")
    /\ LET r == Head(msgQ).r
           i == Head(msgQ).i
           b == batch[r]
           hw == mGeofenceIds[b.keys[i]]
           g == [key |-> b.keys[i], mask |-> b.mask, paused |-> FALSE]
       IN \/ /\ b.kind = "add" \/ hw > 0
             /\ apiQ' = Append(apiQ, Call(b.kind, hw, g, [type |-> "answer", r |-> r, i |-> i]))
             /\ batch' = [batch EXCEPT ![r].errs[i] = IF b.kind = "add" THEN @ ELSE "ok"]
             /\ UNCHANGED <<requests, wrong, used>>
          \/ /\ b.kind # "add" /\ hw = 0
             /\ Finish(r, i, [b EXCEPT !.errs[i] = "unknown", !.did[i] = "unknown"])
             /\ UNCHANGED <<apiQ, used>>
    /\ msgQ' = Tail(msgQ)
    /\ UNCHANGED <<forward, backward, client, tableVars, modemVars>>

SaveGeofenceItem(hw, g) ==
    /\ mGeofences' = [mGeofences EXCEPT ![hw] = g]
    /\ mGeofenceIds' = [mGeofenceIds EXCEPT ![g.key] = hw]

RemoveGeofenceItemOnly(hw) ==
    /\ mGeofences' = [mGeofences EXCEPT ![hw] = None]
    /\ UNCHANGED mGeofenceIds

RemoveGeofenceItem(hw) ==
    IF mGeofences[hw] # None /\ mGeofenceIds[mGeofences[hw].key] # 0
    THEN /\ mGeofenceIds' = [mGeofenceIds EXCEPT ![mGeofences[hw].key] = 0]
         /\ mGeofences' = [mGeofences EXCEPT ![hw] = None]
    ELSE UNCHANGED tableVars

ChangeGeofenceItem(hw, g) ==
    /\ mGeofences' = IF mGeofences[hw] = None THEN mGeofences
                     ELSE [mGeofences EXCEPT ![hw] = g]
    /\ UNCHANGED mGeofenceIds

SaveOutcomeUnderFirst(kind, hw, b, i) ==
    IF kind = "add"
    THEN SaveGeofenceItem(hw, [key |-> b.keys[1], mask |-> b.mask, paused |-> FALSE])
    ELSE UNCHANGED tableVars

\* The tables after a call that succeeded
SaveOutcome(kind, hw, b, i) ==
    CASE kind = "add" ->
           SaveGeofenceItem(hw, [key |-> b.keys[i], mask |-> b.mask, paused |-> FALSE])
      [] kind = "remove" -> RemoveGeofenceItem(hw)
      [] kind = "modify" -> ChangeGeofenceItem(hw, [mGeofences[hw] EXCEPT !.mask = b.mask])
      [] kind = "pause" -> ChangeGeofenceItem(hw, [mGeofences[hw] EXCEPT !.paused = TRUE])
      [] kind = "resume" -> ChangeGeofenceItem(hw, [mGeofences[hw] EXCEPT !.paused = FALSE])

\* A resume that fails gets no further; a modify that fails keeps errs as it was.
HandleAnswer ==
    /\ Arrives("answer")
    /\ LET m == Head(msgQ)
           r == m.back.r
           i == m.back.i
           b == batch[r]
           err == IF m.ok THEN "ok" ELSE "failed"
           done == [b EXCEPT !.did[i] = err,
                             !.errs[i] = IF b.kind \in {"modify", "resume"} /\ ~m.ok
                                           THEN @ ELSE err]
       IN /\ IF m.ok THEN SaveOutcome(b.kind, m.hw, b, i) ELSE UNCHANGED tableVars
          /\ IF b.kind = "resume" /\ ~m.ok
             THEN /\ batch' = [batch EXCEPT ![r] = done]
                  /\ UNCHANGED <<requests, wrong>>
             ELSE Finish(r, i, done)
    /\ msgQ' = Tail(msgQ)
    /\ UNCHANGED <<forward, backward, client, apiQ, modemVars, used>>

HandleEngineUpKeeping ==
    /\ Arrives("engineUp")
    /\ LET old == InOrder(Geofences(mGeofences)) IN
       apiQ' = apiQ \o [n \in DOMAIN old |->
           LET g == mGeofences[old[n]] IN
           Call("add", 0, [g EXCEPT !.paused = FALSE], [type |-> "restarted", g |-> g])]
    /\ msgQ' = Tail(msgQ)
    /\ UNCHANGED <<clientVars, batch, tableVars, modemVars, wrong, used>>

\* restartGeofences: the tables are emptied and filled again as the modem answers
HandleEngineUp ==
    /\ Arrives("engineUp")
    /\ LET old == InOrder(Geofences(mGeofences)) IN
       apiQ' = apiQ \o [n \in DOMAIN old |->
           LET g == mGeofences[old[n]] IN
           Call("add", 0, [g EXCEPT !.paused = FALSE], [type |-> "restarted", g |-> g])]
    /\ mGeofences' = [hw \in HwId |-> None]
    /\ mGeofenceIds' = [s \in Session |-> 0]
    /\ msgQ' = Tail(msgQ)
    /\ UNCHANGED <<clientVars, batch, modemVars, wrong, used>>

\* A paused geofence is paused again, but saved as one that is not.
HandleRestarted ==
    /\ Arrives("restarted")
    /\ LET m == Head(msgQ)
           g == m.back.g
       IN
       IF m.ok
       THEN /\ SaveGeofenceItem(m.hw, [g EXCEPT !.paused = FALSE])
            /\ apiQ' = IF g.paused
                       THEN Append(apiQ, Call("pause", m.hw, g, [type |-> "ignored"]))
                       ELSE apiQ
       ELSE UNCHANGED <<tableVars, apiQ>>
    /\ msgQ' = Tail(msgQ)
    /\ UNCHANGED <<clientVars, batch, modemVars, wrong, used>>

\* stopClientSessions: the keys go at once, the geofences when the modem answers
HandleRemoveClient ==
    /\ Arrives("removeClient")
    /\ LET held == InOrder({s \in Session : mGeofenceIds[s] > 0}) IN
       apiQ' = apiQ \o [n \in DOMAIN held |->
           Call("remove", mGeofenceIds[held[n]], [key |-> held[n], mask |-> None, paused |-> FALSE],
                [type |-> "stopped"])]
    /\ mGeofenceIds' = [s \in Session |-> 0]
    /\ msgQ' = Tail(msgQ)
    /\ UNCHANGED <<clientVars, batch, mGeofences, modemVars, wrong, used>>

HandleStopped ==
    /\ Arrives("stopped")
    /\ mGeofences' = IF Head(msgQ).ok THEN [mGeofences EXCEPT ![Head(msgQ).hw] = None]
                                      ELSE mGeofences
    /\ msgQ' = Tail(msgQ)
    /\ UNCHANGED <<clientVars, batch, mGeofenceIds, apiQ, modemVars, wrong, used>>

\* geofenceBreach: the hwId is resolved when the message is handled
HandleBreach ==
    /\ Arrives("breach")
    /\ LET m == Head(msgQ)
           g == mGeofences[m.hw]
       IN wrong' = IF g # None /\ client /\ g.key # m.key THEN wrong \union {"breach"} ELSE wrong
    /\ msgQ' = Tail(msgQ)
    /\ UNCHANGED <<clientVars, batch, tableVars, apiQ, modemVars, used>>

-----------------------------------------------------------------------------
(* LocApi and the modem (external) *)

\* Hands its outcome to the adapter; the answer to a call whose handler is empty is left out
Answer(back, hw, ok) ==
    msgQ' = IF back.type = "ignored" THEN msgQ
            ELSE Append(msgQ, [type |-> back.type, back |-> back, hw |-> hw, ok |-> ok])

\* A geofence that is added gets the first hwId that is free.
IsFree(hw) ==
    /\ hw \in HwId \ Geofences(modem)
    /\ \A other \in HwId \ Geofences(modem) : hw <= other

ModemDoes(c) ==
    /\ engine = "up"
    /\ \E hw \in HwId :
         /\ IF c.op = "add" THEN IsFree(hw) ELSE hw = c.hw /\ modem[hw] # None
         /\ modem' = [modem EXCEPT ![hw] =
               CASE c.op = "add" -> c.g
                 [] c.op = "remove" -> None
                 [] c.op = "modify" -> [modem[hw] EXCEPT !.mask = c.g.mask]
                 [] c.op = "pause" -> [modem[hw] EXCEPT !.paused = TRUE]
                 [] c.op = "resume" -> [modem[hw] EXCEPT !.paused = FALSE]]
         /\ Answer(c.back, hw, TRUE)
    /\ UNCHANGED <<used, wrong>>

ModemRefuses(c) ==
    /\ \/ engine = "down" /\ UNCHANGED used
       \/ engine = "up" /\ c.op # "add" /\ modem[c.hw] = None /\ UNCHANGED used
       \/ engine = "up" /\ (c.op # "add" => modem[c.hw] # None) /\ Use("failure")
    /\ Answer(c.back, c.hw, FALSE)
    /\ wrong' = wrong \union Flag(c.op \in {"modify", "resume"}, "refused")
    /\ UNCHANGED modem

LocApiTakes(type) == apiQ # <<>> /\ Head(apiQ).type = type /\ apiQ' = Tail(apiQ)

LocApiTurn ==
    /\ LocApiTakes("turn")
    /\ msgQ' = Append(msgQ, Head(apiQ))
    /\ UNCHANGED <<clientVars, batch, tableVars, modemVars, wrong, used>>

LocApiCall ==
    /\ LocApiTakes("call")
    /\ ModemDoes(Head(apiQ)) \/ ModemRefuses(Head(apiQ))
    /\ UNCHANGED <<clientVars, batch, tableVars, engine>>

\* LocSsrMsg: the modem is opened again and the adapters are told
LocApiReopens ==
    /\ LocApiTakes("reopen")
    /\ engine' = "up"
    /\ msgQ' = Append(msgQ, [type |-> "engineUp"])
    /\ UNCHANGED <<clientVars, batch, tableVars, modem, wrong, used>>

ModemRestart ==
    /\ engine = "up" /\ Use("restart")
    /\ modem' = [hw \in HwId |-> None] /\ engine' = "down"
    /\ apiQ' = Append(apiQ, [type |-> "reopen"])
    /\ UNCHANGED <<clientVars, batch, tableVars, msgQ, wrong>>

ModemBreach ==
    /\ engine = "up" /\ Use("breach")
    /\ \E hw \in Geofences(modem) :
          /\ ~modem[hw].paused
          /\ msgQ' = Append(msgQ, [type |-> "breach", hw |-> hw, key |-> modem[hw].key])
    /\ UNCHANGED <<clientVars, batch, tableVars, apiQ, modemVars, wrong>>

-----------------------------------------------------------------------------
Request ==
    \E ids \in Batches :
       \/ AddGeofences(ids, CHOOSE mask \in Mask : TRUE)
       \/ RemoveGeofences(ids)
       \/ \E mask \in Mask : ChangeGeofences("modify", ids, mask)
       \/ \E kind \in {"pause", "resume"} : ChangeGeofences(kind, ids, None)

Adapter ==
    \/ HandleCommand \/ HandleTurn \/ HandleAnswer
    \/ HandleEngineUp \/ HandleRestarted
    \/ HandleRemoveClient \/ HandleStopped \/ HandleBreach

Next ==
    \/ Request \/ Destroy \/ Adapter
    \/ LocApiTurn \/ LocApiCall \/ LocApiReopens
    \/ ModemRestart \/ ModemBreach

Spec == Init /\ [][Next]_vars

-----------------------------------------------------------------------------
(* Properties *)

TypeOK ==
    /\ forward \in [Id -> {0} \union Session] /\ backward \in [Session -> Id \union {None}]
    /\ requests \in Seq(1..MaxRequests) /\ client \in BOOLEAN
    /\ mGeofenceIds \in [Session -> {0} \union HwId]
    /\ mGeofences \in [HwId -> Geofence \union {None}]
    /\ modem \in [HwId -> Geofence \union {None}] /\ engine \in {"up", "down"}
    /\ wrong \subseteq {"request", "error", "freed", "breach", "unknown", "refused"}

Quiet == msgQ = <<>> /\ apiQ = <<>> /\ engine = "up"

(* The two maps agree: the key of a client leads to a geofence with that key,
   through removals, restarts of the modem and hwIds the modem gives again. *)
KeysResolve ==
    client => \A s \in Session : mGeofenceIds[s] > 0 =>
        /\ mGeofences[mGeofenceIds[s]] # None
        /\ mGeofences[mGeofenceIds[s]].key = s

(* When nothing is under way the adapter's table is what the modem watches,
   also after it restarted and the geofences were added again. *)
AdapterMatchesModem ==
    Quiet /\ client => \A hw \in HwId :
        \/ mGeofences[hw] = modem[hw]
        \/ /\ "restart" \in used
           /\ mGeofences[hw] # None /\ modem[hw] # None
           /\ mGeofences[hw] = [modem[hw] EXCEPT !.paused = FALSE]

(* If the adapter finds the geofences it is asked about and the modem refuses
   no resume or modify, each request gets its own response, in order, with the
   errors the modem gave, and no array is used after it was deleted. *)
OneTrueResponseEach ==
    wrong \intersect {"unknown", "refused"} = {} =>
        /\ wrong \intersect {"request", "error", "freed"} = {}
        /\ Quiet => requests = <<>>

(* A breach is reported for the geofence that was breached, though it carries
   an hwId only, which is resolved when its message is handled. *)
BreachReachesOwner == "breach" \notin wrong

=============================================================================

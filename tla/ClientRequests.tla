---------------------------- MODULE ClientRequests ----------------------------
(***************************************************************************)
(* LocationAPIClientBase: what stands between a client of the framework,   *)
(* which names its sessions as it likes, and the location API, which names *)
(* them by numbers of its own.  A response carries the session's number    *)
(* and an error, not the request: requests wait in queues, one for the     *)
(* single tracking session and one for all other sessions, and a response  *)
(* goes to the request at the front.  Two threads are at work: the         *)
(* client's, under mMutex, and the location API's, which takes a request   *)
(* under mMutex and handles it without.  The queues count on one response  *)
(* per request.  GnssAdapter gives it; BatchingAdapter answers an update   *)
(* twice, once for the stop and once for the restart, and gives no answer  *)
(* to a request that fails its checks.  Geofences and network-initiated    *)
(* requests, which have queues of their own, are left out.                 *)
(***************************************************************************)
EXTENDS Naturals, Sequences

CONSTANTS
    Ids,                    \* the client's names of its sessions
    MaxRequests             \* bound on its requests

ASSUME ClientAssumption == MaxRequests \in Nat /\ "tracking" \notin Ids

Modes == {"fix", "full", "trip"}
Numbers == 1..MaxRequests
Queues == {"tracking", "session"}

VARIABLES
    mTracking,
    mSession,               \* of the tracking queue
    queue,                  \* mRequestQueues
    forward, backward, ext, \* mSessionBiDict: id -> session, session -> id, session -> entity
    nextSession,            \* the location API's next number
    client,                 \* the request the client's thread is making, under mMutex
    response,               \* the response the location API's thread is handling
    \* the adapters
    calls, running,
    restarts,               \* the batching sessions whose update is owed a second response
    \* the client
    waits,                  \* does it wait for the response "id" by id, or for "all" of them?
    requests,
    waiting,                \* whose responses it waits for
    believed,               \* the sessions it takes to be started
    \* history
    delivery,               \* the last request taken, and the one its response was for
    lost                    \* has a request gone without an answer or met one of another's, a
                            \* trip ended under a request, or a stop that no name is left for
                            \* failed?

dict == <<forward, backward, ext>>
library == <<mTracking, mSession, queue, dict, nextSession>>
user == <<waits, requests, waiting, believed>>
vars == <<library, client, response, calls, running, restarts, user, delivery, lost>>

Init ==
    /\ mTracking = FALSE /\ mSession = 0 /\ nextSession = 1
    /\ queue = [q \in Queues |-> <<>>]
    /\ forward = <<>> /\ backward = <<>> /\ ext = <<>>
    /\ client = [op |-> "none"] /\ response = [op |-> "none"]
    /\ calls = <<>> /\ running = {} /\ restarts = {}
    /\ waits \in {"id", "all"} /\ requests = 0 /\ waiting = {} /\ believed = {}
    /\ delivery = [request |-> 0, call |-> 0] /\ lost = FALSE

-----------------------------------------------------------------------------
(* BiDict *)

With(f, x, y) == [z \in DOMAIN f \union {x} |-> IF z = x THEN y ELSE f[z]]
Without(f, x) == [y \in DOMAIN f \ {x} |-> f[y]]

Set(id, s, entity) ==
    /\ forward' = With(forward, id, s)
    /\ backward' = With(backward, s, id)
    /\ ext' = With(ext, s, entity)

\* Mutant: the session's old number is not removed.
SetOver(id, s, entity) == Set(id, s, entity)

\* getExtById, rmById, set; operator[] makes an entry for an id that has gone.
Got(id) == IF id \in DOMAIN forward THEN forward ELSE With(forward, id, 0)
Replace(id, s, entity) ==
    /\ forward' = With(forward, id, s)
    /\ backward' = With(Without(backward, Got(id)[id]), s, id)
    /\ ext' = With(Without(ext, Got(id)[id]), s, entity)

\* removeSession, rmBySession
RmBySession(s) ==
    IF s \in DOMAIN backward
    THEN /\ forward' = Without(forward, backward[s])
         /\ backward' = Without(backward, s) /\ ext' = Without(ext, s)
    ELSE UNCHANGED dict

NoEntity == [session |-> 0, mode |-> "none"]
Entity(id) ==
    IF id \in DOMAIN forward /\ forward[id] \in DOMAIN ext THEN ext[forward[id]] ELSE NoEntity

-----------------------------------------------------------------------------
(* The client's requests.  A client that waits by id has at most one request *)
(* out for each session, and the adapters answer in order; one that waits    *)
(* for all has at most one out, and the answers may overtake each other.     *)

Free == client.op = "none"

\* May the client make a request for this owner, and which number does it get?
Asks(owner) ==
    /\ requests < MaxRequests
    /\ owner \notin waiting /\ (waits = "all" => waiting = {})

Made(owner) ==
    /\ requests' = requests + 1 /\ waiting' = waiting \union {owner}
    /\ UNCHANGED <<waits, believed>>

Request(op, owner) == [op |-> op, owner |-> owner, n |-> requests + 1]
Call(op, s, n, mode) ==
    [op |-> op, session |-> s, n |-> n,
     adapter |-> IF mode = "fix" THEN "GnssAdapter" ELSE "BatchingAdapter"]

Push(q, request) == queue' = [queue EXCEPT ![q] = Append(@, request)]

LocAPIStartTracking ==
    /\ Free /\ Asks("tracking") /\ Made("tracking") /\ ~mTracking
    /\ mTracking' = TRUE /\ mSession' = nextSession /\ nextSession' = nextSession + 1
    /\ queue' = [queue EXCEPT !["tracking"] = <<Request("start", "tracking")>>]
    /\ calls' = Append(calls, Call("start", nextSession, requests', "fix"))
    /\ UNCHANGED <<dict, client, response, running, restarts, delivery, lost>>

LocAPIStopTracking ==
    /\ Free /\ Asks("tracking") /\ Made("tracking") /\ mSession > 0
    /\ mTracking' = FALSE
    /\ Push("tracking", Request("stop", "tracking"))
    /\ calls' = Append(calls, Call("stop", mSession, requests', "fix"))
    /\ UNCHANGED <<mSession, nextSession, dict, client, response, running, restarts, delivery,
                   lost>>

LocAPIUpdateTrackingOptions ==
    /\ Free /\ Asks("tracking") /\ Made("tracking") /\ mSession > 0
    /\ Push("tracking", Request("update", "tracking"))
    /\ calls' = Append(calls, Call("update", mSession, requests', "fix"))
    /\ UNCHANGED <<mTracking, mSession, nextSession, dict, client, response, running, restarts,
                   delivery, lost>>

LocAPIStartSession(id, mode) ==
    /\ Free /\ Asks(id) /\ Made(id) /\ id \notin DOMAIN forward
    /\ Push("session", Request("start", id))
    /\ calls' = Append(calls, Call("start", nextSession, requests', mode))
    /\ Set(id, nextSession, [session |-> nextSession, mode |-> mode])
    /\ nextSession' = nextSession + 1
    /\ UNCHANGED <<mTracking, mSession, client, response, running, restarts, delivery, lost>>

\* The other requests look the session up twice; mMutex does not keep it from going in between.
LookUp(op, id, mode) ==
    /\ Free /\ Asks(id) /\ id \in believed /\ id \in DOMAIN forward
    /\ client' = [op |-> op, id |-> id, mode |-> mode]
    /\ UNCHANGED <<library, response, calls, running, restarts, user, delivery, lost>>

Making(op) == client.op = op /\ client' = [op |-> "none"]

LocAPIStopSession ==
    LET id == client.id
    IN  /\ Making("stop") /\ Made(id)
        /\ Push("session", Request("stop", id))
        /\ calls' = Append(calls, Call("stop", Entity(id).session, requests', Entity(id).mode))
        /\ forward' = Got(id)
        /\ UNCHANGED <<mTracking, mSession, backward, ext, nextSession, response, running,
                       restarts, delivery, lost>>

LocAPIGetBatchedLocations ==
    LET id == client.id
        entity == Entity(id)
    IN  /\ Making("get") /\ forward' = Got(id)
        /\ IF entity.mode # "fix"
           THEN /\ Made(id) /\ Push("session", Request("get", id))
                /\ calls' = Append(calls, Call("get", entity.session, requests', entity.mode))
           ELSE UNCHANGED <<queue, calls, user>>
        /\ UNCHANGED <<mTracking, mSession, backward, ext, nextSession, response, running,
                       restarts, delivery, lost>>

\* From batching to tracking or back, the session is stopped and another started:
\* two calls, and one request in the queue.
LocAPIUpdateSessionOptions ==
    LET id == client.id
        entity == Entity(id)
        switch == (entity.mode = "fix") # (client.mode = "fix")
        s == IF switch THEN nextSession ELSE entity.session
    IN  /\ Making("update") /\ Made(id)
        /\ Push("session", Request("update", id))
        /\ calls' = calls \o IF switch
                              THEN <<Call("stop", entity.session, 0, entity.mode),
                                   Call("start", s, requests', client.mode)>>
                              ELSE <<Call("update", s, requests', client.mode)>>
        /\ nextSession' = IF switch THEN nextSession + 1 ELSE nextSession
        /\ Replace(id, s, [session |-> s, mode |-> client.mode])
        /\ UNCHANGED <<mTracking, mSession, response, running, restarts, delivery, lost>>

-----------------------------------------------------------------------------
(* The adapters and the location API's thread *)

\* calls without the i-th; to a client that waits by id the adapters answer in order.
DoneWith(i) ==
    /\ waits = "id" => i = 1
    /\ calls' = SubSeq(calls, 1, i - 1) \o SubSeq(calls, i + 1, Len(calls))

\* The i-th call is answered.  Any may fail, and must for a session that does not run.  A
\* stop that fails may leave the session running.  A batching session that is updated
\* starts again, unless its stop has failed; a trip starts again even then.
Done(i, error) ==
    LET c == calls[i]
        started == IF error THEN running ELSE running \union {c.session}
        stopped == {running \ {c.session}} \union (IF error THEN {running} ELSE {})
    IN  /\ DoneWith(i)
        /\ c.op # "start" /\ c.session \notin running =>
               error /\ (c.adapter = "BatchingAdapter" => c.op = "get")
        /\ CASE c.op = "start" -> running' = started
             [] c.op = "stop" -> running' \in stopped
             [] OTHER -> running' = running
        /\ \/ /\ c.op = "update" /\ c.adapter = "BatchingAdapter"
              /\ restarts' = restarts \union {[session |-> c.session, n |-> c.n]}
           \/ /\ c.op = "update" /\ c.adapter = "BatchingAdapter" => error
              /\ restarts' = restarts
        /\ lost' = (lost \/ (c.op = "stop" /\ c.session \in running' \ DOMAIN backward))

\* Mutant: only the session's queue is asked.
TakenByQueue(s) ==
    IF s \in DOMAIN backward \/ mSession = s
    THEN IF queue["session"] # <<>> THEN "session" ELSE "tracking" ELSE "none"

\* getRequestBySession: the queue whose request the response is for
Taken(s) ==
    IF mSession = s /\ queue["tracking"] # <<>> THEN "tracking"
    ELSE IF s \in DOMAIN backward /\ queue["session"] # <<>> THEN "session" ELSE "none"

\* onResponseCb, up to the end of getRequestBySession, for a response to the n-th request
Take(s, n, error) ==
    LET q == Taken(s)
    IN  IF q = "none"
        THEN /\ delivery' = [request |-> 0, call |-> n]
             /\ UNCHANGED <<queue, response>>
        ELSE /\ queue' = [queue EXCEPT ![q] = Tail(@)]
             /\ response' = [op |-> Head(queue[q]).op, owner |-> Head(queue[q]).owner,
                             session |-> s, error |-> error]
             /\ delivery' = [request |-> Head(queue[q]).n, call |-> n]

OnResponseCb(i, error) ==
    /\ Free /\ response.op = "none"
    /\ Done(i, error)
    /\ Take(calls[i].session, calls[i].n, error)
    /\ UNCHANGED <<mTracking, mSession, dict, nextSession, client, user>>

\* The second response to an update.  Its own request has gone: any that it takes is another.
Restarted(r, error) ==
    /\ Free /\ response.op = "none"
    /\ restarts' = restarts \ {r}
    /\ running' \in {running} \union (IF error THEN {running \ {r.session}} ELSE {})
    /\ Take(r.session, r.n, error)
    /\ lost' = (lost \/ Taken(r.session) # "none")
    /\ UNCHANGED <<mTracking, mSession, dict, nextSession, client, calls, user>>

\* The batching adapter's checks fail: it does nothing and gives no answer.  That matters
\* unless the call was made on the side and the session does not run.
Refused(i) ==
    /\ calls[i].adapter = "BatchingAdapter" /\ calls[i].op # "get"
    /\ DoneWith(i)
    /\ lost' = (lost \/ calls[i].n # 0 \/ calls[i].session \in running)
    /\ UNCHANGED <<library, client, response, running, restarts, user, delivery>>

\* onStartTrackingCb and the like
Told(now) ==
    /\ waiting' = waiting \ {response.owner}
    /\ believed' = now /\ UNCHANGED <<waits, requests>>

OnStart ==
    /\ response.op = "start" /\ response' = [op |-> "none"]
    /\ IF response.error THEN RmBySession(response.session) ELSE UNCHANGED dict
    /\ Told(IF response.error THEN believed ELSE believed \union {response.owner})
    /\ UNCHANGED <<mTracking, mSession, queue, nextSession, client, calls, running, restarts,
                   delivery, lost>>

\* The client is told before the session is removed.
OnStop ==
    /\ response.op = "stop"
    /\ response' = IF response.error THEN [op |-> "none"] ELSE [response EXCEPT !.op = "remove"]
    /\ Told(IF response.error THEN believed ELSE believed \ {response.owner})
    /\ UNCHANGED <<library, client, calls, running, restarts, delivery, lost>>

AfterStop ==
    /\ response.op = "remove" /\ response' = [op |-> "none"]
    /\ RmBySession(response.session)
    /\ UNCHANGED <<mTracking, mSession, queue, nextSession, client, calls, running, restarts,
                   user, delivery, lost>>

OnOther ==
    /\ response.op \in {"update", "get"} /\ response' = [op |-> "none"]
    /\ Told(believed)
    /\ UNCHANGED <<library, client, calls, running, restarts, delivery, lost>>

\* beforeBatchingStatusCb of a trip that has ended; it does not take mMutex.
BeforeBatchingStatusCb(s) ==
    /\ response.op = "none"
    /\ s \in running /\ s \in DOMAIN ext /\ ext[s].mode = "trip"
    /\ running' = running \ {s}
    /\ RmBySession(s)
    /\ believed' = believed \ {backward[s]}
    /\ lost' = (lost \/ backward[s] \in waiting \/ (~Free /\ client.id = backward[s]))
    /\ UNCHANGED <<mTracking, mSession, queue, nextSession, client, response, calls, restarts,
                   waits, requests, waiting, delivery>>

-----------------------------------------------------------------------------
Client ==
    \/ LocAPIStartTracking \/ LocAPIStopTracking \/ LocAPIUpdateTrackingOptions
    \/ \E id \in Ids, mode \in Modes : LocAPIStartSession(id, mode)
    \/ \E id \in Ids, op \in {"stop", "get"} : LookUp(op, id, "none")
    \/ \E id \in Ids, mode \in Modes : LookUp("update", id, mode)
    \/ LocAPIStopSession \/ LocAPIGetBatchedLocations \/ LocAPIUpdateSessionOptions

LocationAPI ==
    \/ \E i \in DOMAIN calls, error \in BOOLEAN : OnResponseCb(i, error)
    \/ \E r \in restarts, error \in BOOLEAN : Restarted(r, error)
    \/ \E i \in DOMAIN calls : Refused(i)
    \/ OnStart \/ OnStop \/ AfterStop \/ OnOther
    \/ \E s \in running : BeforeBatchingStatusCb(s)

Next == Client \/ LocationAPI

Spec == Init /\ [][Next]_vars

-----------------------------------------------------------------------------
TypeOK ==
    /\ mTracking \in BOOLEAN /\ lost \in BOOLEAN
    /\ mSession \in 0..MaxRequests /\ nextSession \in 1..MaxRequests + 1
    /\ queue \in [Queues -> Seq([op : {"start", "stop", "update", "get"},
                                 owner : Ids \union {"tracking"}, n : Numbers])]
    /\ DOMAIN forward \subseteq Ids /\ DOMAIN backward \subseteq Numbers \union {0}
    /\ DOMAIN ext = DOMAIN backward
    /\ running \subseteq Numbers /\ requests \in 0..MaxRequests
    /\ restarts \subseteq [session : Numbers, n : 0..MaxRequests]
    /\ waiting \subseteq Ids \union {"tracking"} /\ believed \subseteq Ids \union {"tracking"}

(* Without exceptions: a response is handled by the request it answers.     *)
EachResponseFindsItsRequest == delivery.request # 0 => delivery.request = delivery.call

Quiet == calls = <<>> /\ Free /\ response.op = "none"

(* A response is handled by the request it answers, though it is matched by *)
(* order and two queues alone, and none waits behind when all have come;    *)
(* until a batching adapter's missing or second answer shifts the queue, or *)
(* a trip ends under a request.                                             *)
ResponseReachesItsRequest ==
    lost \/ /\ delivery.request # 0 => delivery.request = delivery.call
            /\ Quiet => \A q \in Queues : queue[q] = <<>>

(* The three maps of mSessionBiDict agree: a session has one id, an id one  *)
(* session, and the entity is that session's; with the same exceptions.     *)
MapsAgree ==
    lost \/ /\ \A id \in DOMAIN forward :
                   forward[id] \in DOMAIN backward /\ backward[forward[id]] = id
            /\ \A s \in DOMAIN backward :
                   /\ backward[s] \in DOMAIN forward /\ forward[backward[s]] = s
                   /\ s \in DOMAIN ext /\ ext[s].session = s

(* When all calls are done the client can name, and so stop, every session  *)
(* that runs for it; with the same exceptions.                              *)
KnownWhileRunning ==
    ~lost /\ Quiet =>
        running \subseteq DOMAIN backward \union (IF mTracking THEN {mSession} ELSE {})

=============================================================================

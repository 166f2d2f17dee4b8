------------------------------ MODULE NiSessions ------------------------------
(***************************************************************************)
(* Network-initiated requests: the modem asks whether the device may be    *)
(* positioned, the adapter shows a notification to the user and answers    *)
(* the modem with what the user says or, when the time is up, with "no     *)
(* response".  There are two sessions, one for emergency requests and one  *)
(* for all others, and a detached thread for each request.  The adapter's  *)
(* thread and these threads share the fields of the sessions; tLock covers *)
(* only some of the accesses.                                              *)
(***************************************************************************)
EXTENDS Naturals, Sequences, FiniteSets

CONSTANTS
    SuplEsNo,               \* is SUPL_ES = GNSS_CONFIG_SUPL_EMERGENCY_SERVICES_NO?
    CpMtlrEs,               \* is CP_MTLR_ES = 1?
    ThreadMayFail,          \* may pthread_create fail?
    MaxRequests,            \* bound on the modem's requests
    MaxChanges              \* bound on clients coming and going

ASSUME NiAssumption ==
    /\ SuplEsNo \in BOOLEAN /\ CpMtlrEs \in BOOLEAN /\ ThreadMayFail \in BOOLEAN
    /\ MaxRequests \in Nat /\ MaxChanges \in Nat

Requests == 1..MaxRequests
Sessions == {"session", "sessionEs"}
\* A request by SUPL is handled like one by the control plane outside emergencies.
Types == {"emergency", "controlPlane"}
None == 0

VARIABLES
    hasClient,              \* does a client have gnssNiCb?
    ni,                     \* the sessions' fields
    reqIDCounter,
    thread,                 \* the thread of each request ID
    adapter,                \* where the adapter's handler is, and what it holds
    msgQ,                   \* the adapter's messages
    \* the modem and the user
    requested,              \* the requests the modem has sent
    notified,               \* the notifications shown and not answered: [id, request]
    saved,                  \* the requests a session has taken
    user,                   \* what the user said to each request
    ends,                   \* what became of each request: answers to the modem, or "freed"
    stray,                  \* has a response been stored in a session whose request had ended?
    unnamed,                \* has a notification been shown whose ID had been cleared?
    threadless,             \* the requests for which no thread could be created
    changes

vars == <<hasClient, ni, reqIDCounter, thread, adapter, msgQ, requested, notified, saved, user,
          ends, stray, unnamed, threadless, changes>>
shown == <<notified, unnamed, threadless>>
outside == <<hasClient, requested, shown, user, changes>>

Response == {"ACCEPT", "DENY", "NO_RESPONSE", "IGNORE"}
Message == [type : {"notify"}, ni : Types, data : Requests, inEmergency : BOOLEAN]
           \union [type : {"respond"}, id : 0..MaxRequests, response : {"ACCEPT", "DENY"}]
           \union [type : {"inform"}, response : Response, data : Requests]

\* Is a session's thread at work, and is it done?
NoThread == [at |-> "none", of |-> "session", resp |-> "DENY", rawRequest |-> None]
Idle == [at |-> "idle", of |-> "session", resp |-> "DENY", data |-> None]

NiSession == [rawRequest : {None} \union Requests, reqID : 0..MaxRequests,
              resp : Response, respRecvd : BOOLEAN]
NiThreadState == [at : {"none", "starting", "waiting", "reqID", "post"}, of : Sessions,
                  resp : Response, rawRequest : {None} \union Requests]
Handler == [at : {"idle", "saved", "accepted", "ignoring", "responding"},
            of : Sessions \union {"none"}, resp : Response, data : {None} \union Requests]

TypeOK ==
    /\ hasClient \in BOOLEAN /\ stray \in BOOLEAN /\ unnamed \in BOOLEAN
    /\ ni \in [Sessions -> NiSession] /\ thread \in [Requests -> NiThreadState]
    /\ adapter \in Handler /\ msgQ \in Seq(Message)
    /\ reqIDCounter \in 0..MaxRequests
    /\ requested \in 0..MaxRequests /\ changes \in 0..MaxChanges
    /\ notified \subseteq [id : 0..MaxRequests, request : Requests]
    /\ saved \subseteq Requests /\ threadless \subseteq Requests
    /\ user \in [Requests -> {"silent", "ACCEPT", "DENY"}]
    /\ ends \in [Requests -> Seq(Response \union {"freed"})]

Init ==
    /\ hasClient \in BOOLEAN /\ reqIDCounter = 0 /\ adapter = Idle /\ msgQ = <<>>
    /\ ni = [s \in Sessions |-> [rawRequest |-> None, reqID |-> 0, resp |-> "DENY",
                                 respRecvd |-> FALSE]]
    /\ thread = [id \in Requests |-> NoThread]
    /\ requested = 0 /\ notified = {} /\ saved = {} /\ stray = FALSE /\ changes = 0
    /\ unnamed = FALSE /\ threadless = {}
    /\ user = [r \in Requests |-> "silent"]
    /\ ends = [r \in Requests |-> <<>>]

-----------------------------------------------------------------------------
(* The modem, the user and the clients *)

\* requestNiNotifyEvent
Notify(type, inEmergency) ==
    /\ requested < MaxRequests /\ requested' = requested + 1
    /\ msgQ' = Append(msgQ, [type |-> "notify", ni |-> type, data |-> requested',
                             inEmergency |-> inEmergency])
    /\ UNCHANGED <<hasClient, ni, reqIDCounter, thread, adapter, shown, saved, user, ends,
                   stray, changes>>

\* gnssNiResponseCommand of a client
UserResponds(n, response) ==
    /\ n \in notified /\ notified' = notified \ {n}
    /\ user' = [user EXCEPT ![n.request] = response]
    /\ msgQ' = Append(msgQ, [type |-> "respond", id |-> n.id, response |-> response])
    /\ UNCHANGED <<hasClient, ni, reqIDCounter, thread, adapter, requested, saved, ends, stray,
                   unnamed, threadless, changes>>

\* a client with gnssNiCb is added, the last one is removed
ClientsChange ==
    /\ adapter = Idle
    /\ changes < MaxChanges /\ changes' = changes + 1 /\ hasClient' = ~hasClient
    /\ UNCHANGED <<ni, reqIDCounter, thread, adapter, msgQ, requested, shown, saved, user,
                   ends, stray>>

-----------------------------------------------------------------------------
(* The thread of a request *)

\* Mutant: an ignored request is freed and answered all the same.
ConcludeAnswering(id, resp) ==
    LET s == thread[id].of
        raw == ni[s].rawRequest
    IN  /\ ni' = [ni EXCEPT ![s].respRecvd = FALSE, ![s].resp = resp, ![s].rawRequest = None]
        /\ thread' = [thread EXCEPT ![id] =
                          [at |-> "reqID", of |-> s, resp |-> resp, rawRequest |-> raw]]
        /\ ends' = IF raw # None /\ resp = "IGNORE"
                   THEN [ends EXCEPT ![raw] = Append(@, "freed")] ELSE ends
        /\ UNCHANGED <<outside, reqIDCounter, adapter, msgQ, saved, stray>>

\* Under tLock: the flag is reset and the request leaves the session.
Conclude(id, resp) ==
    LET s == thread[id].of
        raw == ni[s].rawRequest
    IN  /\ ni' = [ni EXCEPT ![s].respRecvd = FALSE, ![s].resp = resp, ![s].rawRequest = None]
        /\ thread' = [thread EXCEPT ![id] =
                          [at |-> "reqID", of |-> s, resp |-> resp,
                           rawRequest |-> IF resp = "IGNORE" THEN None ELSE raw]]
        /\ ends' = IF raw # None /\ resp = "IGNORE"
                   THEN [ends EXCEPT ![raw] = Append(@, "freed")] ELSE ends
        /\ UNCHANGED <<outside, reqIDCounter, adapter, msgQ, saved, stray>>

\* The deadline is taken; a response already there is not waited for.
NiThreadStarts(id) ==
    LET s == thread[id].of
    IN  /\ thread[id].at = "starting"
        /\ IF ni[s].respRecvd
           THEN Conclude(id, ni[s].resp)
           ELSE /\ thread' = [thread EXCEPT ![id].at = "waiting"]
                /\ UNCHANGED <<outside, ni, reqIDCounter, adapter, msgQ, saved, ends, stray>>

NiThreadWakes(id) ==
    LET s == thread[id].of
    IN  /\ thread[id].at = "waiting" /\ ni[s].respRecvd
        /\ Conclude(id, ni[s].resp)

\* ETIMEDOUT, even if a response came in the meantime
NiThreadTimesOut(id) == thread[id].at = "waiting" /\ Conclude(id, "NO_RESPONSE")

\* No longer under tLock.  respTimeLeft is not kept: a thread may time out at any moment.
NiThreadClearsReqID(id) ==
    /\ thread[id].at = "reqID" /\ thread' = [thread EXCEPT ![id].at = "post"]
    /\ ni' = [ni EXCEPT ![thread[id].of].reqID = 0]
    /\ UNCHANGED <<outside, reqIDCounter, adapter, msgQ, saved, ends, stray>>

\* sendResponse: gnssNiResponseCommand(resp, rawRequest)
NiThreadPosts(id) ==
    /\ thread[id].at = "post" /\ thread' = [thread EXCEPT ![id] = NoThread]
    /\ msgQ' = IF thread[id].rawRequest = None THEN msgQ
               ELSE Append(msgQ, [type |-> "inform", response |-> thread[id].resp,
                                  data |-> thread[id].rawRequest])
    /\ UNCHANGED <<outside, ni, reqIDCounter, adapter, saved, ends, stray>>

NiThread(id) ==
    \/ NiThreadStarts(id) \/ NiThreadWakes(id) \/ NiThreadTimesOut(id)
    \/ NiThreadClearsReqID(id) \/ NiThreadPosts(id)

-----------------------------------------------------------------------------
(* The adapter's thread *)

Taking == adapter = Idle /\ msgQ # <<>> /\ msgQ' = Tail(msgQ)

\* informNiResponse
Inform(r, response) == ends' = [ends EXCEPT ![r] = Append(@, response)]

Busy(s) == ni[s].rawRequest # None

\* The fields are written without tLock, in an order that lets the clearing
\* by an earlier thread come before or after all of them.
Save(s, r) ==
    /\ reqIDCounter' = reqIDCounter + 1 /\ saved' = saved \union {r}
    /\ ni' = [ni EXCEPT ![s].rawRequest = r, ![s].reqID = reqIDCounter']
    /\ adapter' = [Idle EXCEPT !.at = "saved", !.of = s, !.data = r]
    /\ UNCHANGED <<thread, shown, ends>>

\* Mutant: the session is not looked at.
RequestNiNotifyAnyway(m) ==
    LET s == IF m.ni = "emergency" THEN "sessionEs" ELSE "session"
    IN  hasClient /\ Save(s, m.data)

RequestNiNotify(m) ==
    LET s == IF m.ni = "emergency" THEN "sessionEs" ELSE "session"
    IN  \/ /\ hasClient /\ ~Busy(s) /\ ~Busy("sessionEs")
           /\ Save(s, m.data)
        \/ /\ hasClient /\ (Busy(s) \/ Busy("sessionEs"))
           /\ ends' = [ends EXCEPT ![m.data] = Append(@, "freed")]
           /\ UNCHANGED <<ni, reqIDCounter, thread, adapter, shown, saved>>
        \/ /\ ~hasClient /\ m.ni = "emergency"
           /\ Inform(m.data, "ACCEPT")
           /\ adapter' = IF Busy("session") THEN [Idle EXCEPT !.at = "ignoring", !.of = "none"] ELSE Idle
           /\ UNCHANGED <<ni, reqIDCounter, thread, shown, saved>>
        \/ /\ ~hasClient /\ m.ni # "emergency"
           /\ UNCHANGED <<ni, reqIDCounter, thread, adapter, shown, saved, ends>>

HandleNotify ==
    LET m == Head(msgQ)
        answer ==
            IF m.ni = "emergency"
            THEN IF m.inEmergency \/ SuplEsNo THEN "ask" ELSE "DENY"
            ELSE IF m.ni = "controlPlane" /\ m.inEmergency /\ CpMtlrEs THEN "ACCEPT" ELSE "ask"
    IN  /\ Taking /\ m.type = "notify"
        /\ \/ answer = "ask" /\ RequestNiNotify(m)
           \/ /\ answer # "ask" /\ Inform(m.data, answer)
              /\ UNCHANGED <<ni, reqIDCounter, thread, adapter, shown, saved>>
        /\ UNCHANGED <<hasClient, requested, user, stray, changes>>

\* The rest of requestNiNotify: the ID is read back from the session, where an
\* earlier thread may have cleared it by now, and shown with the request
\* whether or not the thread that is to end the request could be created.
ShowNotification ==
    LET s == adapter.of
        r == adapter.data
    IN  /\ adapter.at = "saved" /\ adapter' = Idle
        /\ notified' = notified \union {[id |-> ni[s].reqID, request |-> r]}
        /\ unnamed' = (unnamed \/ ni[s].reqID = 0)
        /\ \/ /\ thread' = [thread EXCEPT ![reqIDCounter] =
                                   [NoThread EXCEPT !.at = "starting", !.of = s]]
              /\ UNCHANGED threadless
           \/ ThreadMayFail /\ threadless' = threadless \union {r} /\ UNCHANGED thread
        /\ UNCHANGED <<hasClient, ni, reqIDCounter, msgQ, requested, saved, user, ends, stray,
                       changes>>

\* The sessions are read without tLock.
HandleRespond ==
    LET m == Head(msgQ)
        Active(s) == ni[s].reqID = m.id /\ Busy(s)
    IN  /\ Taking /\ m.type = "respond"
        /\ adapter' =
               IF ~hasClient THEN Idle
               ELSE IF Active("sessionEs")
                    THEN [Idle EXCEPT !.at = IF m.response = "ACCEPT" THEN "accepted" ELSE "responding",
                                      !.of = "sessionEs", !.resp = m.response]
                    ELSE IF Active("session")
                         THEN [Idle EXCEPT !.at = "responding", !.resp = m.response]
                         ELSE Idle
        /\ UNCHANGED <<outside, ni, reqIDCounter, thread, saved, ends, stray>>

\* An emergency request has been accepted: any other request is to be ignored.
AfterAccepted ==
    /\ adapter.at = "accepted"
    /\ adapter' = [adapter EXCEPT !.at = IF Busy("session") THEN "ignoring" ELSE "responding"]
    /\ UNCHANGED <<outside, ni, reqIDCounter, thread, msgQ, saved, ends, stray>>

\* Under tLock
SetResponse(s, resp) ==
    /\ ni' = [ni EXCEPT ![s].resp = resp, ![s].respRecvd = TRUE]
    /\ stray' = (stray \/ ~Busy(s))
    /\ UNCHANGED <<outside, reqIDCounter, thread, msgQ, saved, ends>>

IgnoreOther ==
    /\ adapter.at = "ignoring"
    /\ SetResponse("session", "IGNORE")
    /\ adapter' = IF adapter.of = "none" THEN Idle ELSE [adapter EXCEPT !.at = "responding"]

SendUserResponse ==
    /\ adapter.at = "responding"
    /\ SetResponse(adapter.of, adapter.resp) /\ adapter' = Idle

HandleInform ==
    /\ Taking /\ Head(msgQ).type = "inform"
    /\ Inform(Head(msgQ).data, Head(msgQ).response)
    /\ UNCHANGED <<outside, ni, reqIDCounter, thread, adapter, saved, stray>>

Adapter ==
    \/ HandleNotify \/ HandleRespond \/ HandleInform
    \/ ShowNotification \/ AfterAccepted \/ IgnoreOther \/ SendUserResponse

-----------------------------------------------------------------------------
Next ==
    \/ \E type \in Types, inEmergency \in BOOLEAN : Notify(type, inEmergency)
    \/ \E n \in notified, response \in {"ACCEPT", "DENY"} : UserResponds(n, response)
    \/ ClientsChange
    \/ \E id \in Requests : NiThread(id)
    \/ Adapter

(* All threads keep running; the user need not answer. *)
Fairness == WF_vars(Adapter) /\ \A id \in Requests : WF_vars(NiThread(id))

Spec == Init /\ [][Next]_vars /\ Fairness

-----------------------------------------------------------------------------
(* No request of the modem is answered, or its memory freed, twice: not    *)
(* when a response, the end of the time and an accepted emergency request  *)
(* fall together.                                                          *)
AnsweredOnce == \A r \in Requests : Len(ends[r]) <= 1

(* What the user decides is what the modem is told: a request that went    *)
(* through a session is accepted only if the user accepted this request.   *)
Decided(r) == ends[r] = <<"ACCEPT">> => user[r] = "ACCEPT"
UserDecides == \A r \in saved : Decided(r)

(* The same while no response has been stored in a session whose request   *)
(* had ended in the meantime, and no notification has been shown without   *)
(* the ID of its request, which the thread of an earlier one had cleared.  *)
UserDecidesUnlessLate == ~stray => UserDecides
UserDecidesInTime == ~unnamed => UserDecidesUnlessLate

(* Every request a session has taken ends, if there was a thread for it:   *)
(* whatever the user does, the modem gets an answer or the request is      *)
(* dropped for an emergency.                                               *)
EverySavedRequestEnds ==
    \A r \in Requests : r \in saved ~> ends[r] # <<>> \/ r \in threadless

=============================================================================

--------------------------- MODULE NiSessionsProofs ---------------------------
(***************************************************************************)
(* Proofs about NiSessions, for any number of requests: the state is       *)
(* typed, no request is answered twice, and what the user decided is what  *)
(* the modem is told, unless a response was stored in a session whose      *)
(* request had ended, or a notification shown whose ID had been cleared.   *)
(* The argument follows a request through the places it can be in: a       *)
(* message that brings it, a session, a thread, a message that brings its  *)
(* answer.  It is in one of them, until it has ended, and an acceptance    *)
(* travels with it.                                                        *)
(***************************************************************************)
EXTENDS NiSessions, TLAPS

USE NiAssumption DEF NiAssumption

(* The message at i brings a request, or the answer to one, to the adapter. *)
Carries(i) == msgQ[i].type # "respond"

(* Requests are handled in the order in which the modem sends them: request *)
(* IDs given so far are no more than the requests handled.                  *)
CountInv ==
    /\ reqIDCounter <= requested
    /\ \A i \in 1..Len(msgQ) :
           msgQ[i].type = "notify" => reqIDCounter < msgQ[i].data /\ msgQ[i].data <= requested
    /\ \A i, j \in 1..Len(msgQ) :
           i < j /\ msgQ[i].type = "notify" /\ msgQ[j].type = "notify" => msgQ[i].data < msgQ[j].data

HandlerInv ==
    /\ adapter.at \in {"saved", "accepted", "responding"} => adapter.of \in Sessions
    /\ adapter.at = "saved" => adapter.data \in Requests

TypeInv == TypeOK /\ CountInv /\ HandlerInv

(* A request is in one place: in one message, ...                           *)
MsgInv ==
    \A i \in 1..Len(msgQ) : Carries(i) =>
        /\ \A j \in 1..Len(msgQ) : Carries(j) /\ msgQ[j].data = msgQ[i].data => i = j
        /\ \A s \in Sessions : ni[s].rawRequest # msgQ[i].data
        /\ \A id \in Requests : thread[id].rawRequest # msgQ[i].data
        /\ msgQ[i].data <= requested /\ ends[msgQ[i].data] = <<>>

(* ... in one session, ...                                                  *)
SessionInv ==
    \A s \in Sessions : ni[s].rawRequest # None =>
        /\ ni[s].rawRequest <= requested
        /\ \A s2 \in Sessions : ni[s2].rawRequest = ni[s].rawRequest => s = s2
        /\ \A id \in Requests : thread[id].rawRequest # ni[s].rawRequest
        /\ ends[ni[s].rawRequest] = <<>>

(* ... in the hands of one thread that is about to post its answer, ...     *)
ThreadInv ==
    \A id \in Requests : thread[id].rawRequest # None =>
        /\ thread[id].rawRequest <= requested
        /\ \A id2 \in Requests : thread[id2].rawRequest = thread[id].rawRequest => id = id2
        /\ ends[thread[id].rawRequest] = <<>>

(* ... or over, once.                                                       *)
EndInv ==
    \A r \in Requests : Len(ends[r]) <= 1 /\ (requested < r => ends[r] = <<>>)

OnceInv == MsgInv /\ SessionInv /\ ThreadInv /\ EndInv

(* Whose decision an acceptance is that is on its way, and where.           *)
AcceptedBy(s) == ni[s].rawRequest # None => user[ni[s].rawRequest] = "ACCEPT"

NotifiedInv ==
    /\ \A n \in notified :
           /\ n.request \in saved /\ user[n.request] = "silent"
           /\ n.id # 0 /\ n.id <= reqIDCounter
           /\ \A s \in Sessions : ni[s].rawRequest # None /\ ni[s].reqID = n.id
                                      => ni[s].rawRequest = n.request
           /\ \A n2 \in notified : n2.request = n.request => n2 = n
    /\ \A s \in Sessions : ni[s].reqID <= reqIDCounter
    /\ \A r \in saved : r <= requested
    /\ \A r \in Requests : user[r] # "silent" => r \in saved
    /\ \A i \in 1..Len(msgQ) : msgQ[i].type = "notify" => msgQ[i].data \notin saved

RespondInv ==
    /\ \A i \in 1..Len(msgQ) : msgQ[i].type = "respond" =>
           /\ msgQ[i].id # 0 /\ msgQ[i].id <= reqIDCounter
           /\ msgQ[i].response = "ACCEPT" =>
                  \A s \in Sessions : ni[s].reqID = msgQ[i].id => AcceptedBy(s)
    /\ adapter.at # "idle" /\ adapter.of \in Sessions /\ adapter.resp = "ACCEPT"
           => AcceptedBy(adapter.of)

ResponseInv ==
    /\ \A s \in Sessions : ni[s].rawRequest = None => ~ni[s].respRecvd
    /\ \A s \in Sessions : ni[s].respRecvd /\ ni[s].resp = "ACCEPT" => AcceptedBy(s)
    /\ \A id \in Requests : thread[id].rawRequest # None /\ thread[id].resp = "ACCEPT"
                                => user[thread[id].rawRequest] = "ACCEPT"
    /\ \A i \in 1..Len(msgQ) : msgQ[i].type = "inform" /\ msgQ[i].response = "ACCEPT"
                                   => user[msgQ[i].data] = "ACCEPT"
    /\ UserDecides

(* The request saved is not notified yet, and if its session still has the  *)
(* ID to be shown, no other session has it.                                 *)
ShowInv ==
    adapter.at = "saved" =>
        /\ adapter.data \in saved /\ user[adapter.data] = "silent"
        /\ \A n \in notified : n.request # adapter.data
        /\ \A s \in Sessions :
               /\ ni[s].rawRequest # None
               /\ ni[adapter.of].reqID # 0 /\ ni[s].reqID = ni[adapter.of].reqID
               => ni[s].rawRequest = adapter.data

(* All this until a notification is shown without an ID.                    *)
DecideInv == NotifiedInv /\ RespondInv /\ ShowInv /\ (~stray => ResponseInv)
-----------------------------------------------------------------------------
(* The queue and its messages *)

LEMMA MessageFields ==
    ASSUME NEW m \in Message
    PROVE  /\ m.type \in {"notify", "respond", "inform"}
           /\ m.type = "notify" => m.data \in Requests /\ m.ni \in Types /\ m.inEmergency \in BOOLEAN
           /\ m.type = "inform" => m.data \in Requests /\ m.response \in Response
           /\ m.type = "respond" => m.id \in 0..MaxRequests /\ m.response \in {"ACCEPT", "DENY"}
BY DEF Message

LEMMA AppendMessage ==
    ASSUME NEW q \in Seq(Message), NEW m \in Message
    PROVE  /\ Append(q, m) \in Seq(Message) /\ Len(Append(q, m)) = Len(q) + 1
           /\ Append(q, m)[Len(q) + 1] = m
           /\ \A i \in 1..Len(q) : Append(q, m)[i] = q[i]
OBVIOUS

LEMMA TailMessages ==
    ASSUME NEW q \in Seq(Message), q # <<>>
    PROVE  /\ Tail(q) \in Seq(Message) /\ Len(Tail(q)) = Len(q) - 1
           /\ Len(q) \in Nat \ {0} /\ Head(q) = q[1] /\ Head(q) \in Message
           /\ \A i \in 1..Len(Tail(q)) : i + 1 \in 1..Len(q) /\ Tail(q)[i] = q[i + 1]
OBVIOUS

-----------------------------------------------------------------------------
(* What the assignments to the fields of a session and of a thread do *)

LEMMA SessionConcluded ==
    ASSUME NEW f \in [Sessions -> NiSession], NEW s \in Sessions, NEW resp \in Response
    PROVE  LET g == [f EXCEPT ![s].respRecvd = FALSE, ![s].resp = resp, ![s].rawRequest = None]
           IN  /\ g \in [Sessions -> NiSession]
               /\ \A t \in Sessions : t # s => g[t] = f[t]
               /\ g[s].rawRequest = None /\ g[s].reqID = f[s].reqID
               /\ g[s].resp = resp /\ g[s].respRecvd = FALSE
BY DEF NiSession

LEMMA SessionForgets ==
    ASSUME NEW f \in [Sessions -> NiSession], NEW s \in Sessions
    PROVE  LET g == [f EXCEPT ![s].reqID = 0]
           IN  /\ g \in [Sessions -> NiSession]
               /\ \A t \in Sessions : t # s => g[t] = f[t]
               /\ g[s].rawRequest = f[s].rawRequest /\ g[s].reqID = 0
               /\ g[s].resp = f[s].resp /\ g[s].respRecvd = f[s].respRecvd
BY DEF NiSession

LEMMA SessionSaves ==
    ASSUME NEW f \in [Sessions -> NiSession], NEW s \in Sessions,
           NEW r \in Requests, NEW id \in 0..MaxRequests
    PROVE  LET g == [f EXCEPT ![s].rawRequest = r, ![s].reqID = id]
           IN  /\ g \in [Sessions -> NiSession]
               /\ \A t \in Sessions : t # s => g[t] = f[t]
               /\ g[s].rawRequest = r /\ g[s].reqID = id
               /\ g[s].resp = f[s].resp /\ g[s].respRecvd = f[s].respRecvd
BY DEF NiSession

LEMMA SessionAnswered ==
    ASSUME NEW f \in [Sessions -> NiSession], NEW s \in Sessions, NEW resp \in Response
    PROVE  LET g == [f EXCEPT ![s].resp = resp, ![s].respRecvd = TRUE]
           IN  /\ g \in [Sessions -> NiSession]
               /\ \A t \in Sessions : t # s => g[t] = f[t]
               /\ g[s].rawRequest = f[s].rawRequest /\ g[s].reqID = f[s].reqID
               /\ g[s].resp = resp /\ g[s].respRecvd = TRUE
BY DEF NiSession

LEMMA ThreadMoves ==
    ASSUME NEW f \in [Requests -> NiThreadState], NEW id \in Requests,
           NEW at \in {"none", "starting", "waiting", "reqID", "post"}
    PROVE  LET g == [f EXCEPT ![id].at = at]
           IN  /\ g \in [Requests -> NiThreadState]
               /\ \A t \in Requests : t # id => g[t] = f[t]
               /\ g[id].at = at /\ g[id].of = f[id].of
               /\ g[id].resp = f[id].resp /\ g[id].rawRequest = f[id].rawRequest
BY DEF NiThreadState

LEMMA ThreadBegins ==
    ASSUME NEW f \in [Requests -> NiThreadState], NEW id, NEW s \in Sessions
    PROVE  LET g == [f EXCEPT ![id] = [NoThread EXCEPT !.at = "starting", !.of = s]]
           IN  /\ g \in [Requests -> NiThreadState]
               /\ \A t \in Requests : g[t] = f[t] \/ g[t].rawRequest = None
<1> DEFINE state == [NoThread EXCEPT !.at = "starting", !.of = s]
           g == [f EXCEPT ![id] = state]
<1>1. state \in NiThreadState /\ state.rawRequest = None
  BY DEF NoThread, NiThreadState, Response, Sessions
<1> HIDE DEF state
<1>2. g \in [Requests -> NiThreadState] /\ \A t \in Requests : g[t] = f[t] \/ g[t] = state
  BY <1>1
<1>. QED  BY <1>1, <1>2 DEF state

-----------------------------------------------------------------------------
(* Types *)

LEMMA InitType == ASSUME Init PROVE TypeInv
<1> USE DEF Requests, Response, None
<1>1. msgQ \in Seq(Message) /\ Len(msgQ) = 0
  BY DEF Init
<1>2. ni \in [Sessions -> NiSession]
  BY DEF Init, NiSession
<1>3. adapter \in Handler
  BY DEF Init, Idle, Handler, Sessions
<1>4. thread \in [Requests -> NiThreadState]
  BY DEF Init, NoThread, NiThreadState, Sessions
<1>5. ends \in [Requests -> Seq(Response \union {"freed"})]
  BY DEF Init
<1>6. /\ user \in [Requests -> {"silent", "ACCEPT", "DENY"}]
      /\ saved \subseteq Requests /\ notified \subseteq [id : 0..MaxRequests, request : Requests]
      /\ threadless \subseteq Requests
  BY DEF Init
<1>7. hasClient \in BOOLEAN /\ stray \in BOOLEAN /\ unnamed \in BOOLEAN
  BY DEF Init
<1>8. reqIDCounter \in 0..MaxRequests /\ requested \in 0..MaxRequests /\ changes \in 0..MaxChanges
  BY DEF Init
<1>9. TypeOK
  BY <1>1, <1>2, <1>3, <1>4, <1>5, <1>6, <1>7, <1>8, Zenon DEF TypeOK
<1>10. HandlerInv
  BY DEF Init, HandlerInv, Idle
<1>11. CountInv
  BY <1>1 DEF Init, CountInv
<1>. QED  BY <1>9, <1>10, <1>11 DEF TypeInv

(* What concluding does, whichever way a thread gets there.                 *)
LEMMA ConcludeType ==
    ASSUME TypeOK, NEW id \in Requests, NEW resp \in Response, Conclude(id, resp)
    PROVE  TypeOK'
<1> DEFINE s == thread[id].of
           raw == ni[s].rawRequest
           state == [at |-> "reqID", of |-> s, resp |-> resp,
                     rawRequest |-> IF resp = "IGNORE" THEN None ELSE raw]
<1>1. s \in Sessions /\ raw \in {None} \union Requests /\ ni[s].reqID \in 0..MaxRequests
  BY DEF TypeOK, NiThreadState, NiSession
<1>2. state \in NiThreadState
  BY <1>1 DEF NiThreadState
<1>3. ni' \in [Sessions -> NiSession]
  BY <1>1, SessionConcluded DEF Conclude, TypeOK
<1>4. thread' \in [Requests -> NiThreadState]
  BY <1>1, <1>2 DEF Conclude, TypeOK
<1>5. ends' \in [Requests -> Seq(Response \union {"freed"})]
  BY <1>1 DEF Conclude, TypeOK
<1>6. UNCHANGED <<outside, reqIDCounter, adapter, msgQ, saved, stray>>
  BY DEF Conclude
<1>. QED  BY <1>3, <1>4, <1>5, <1>6, Zenon DEF TypeOK, outside, shown

LEMMA ThreadType ==
    ASSUME TypeOK, NEW id \in Requests, NiThread(id)
    PROVE  TypeOK'
<1> DEFINE s == thread[id].of
<1>1. s \in Sessions /\ ni[s].resp \in Response /\ thread[id] \in NiThreadState
  BY DEF TypeOK, NiThreadState, NiSession
<1>2. CASE NiThreadStarts(id) /\ ~ni[s].respRecvd
  <2>1. thread' \in [Requests -> NiThreadState]
    <3>1. thread' = [thread EXCEPT ![id].at = "waiting"] /\ thread \in [Requests -> NiThreadState]
      BY <1>2 DEF NiThreadStarts, TypeOK
    <3>. QED  BY <3>1 DEF NiThreadState
  <2>2. UNCHANGED <<outside, ni, reqIDCounter, adapter, msgQ, saved, ends, stray>>
    BY <1>2 DEF NiThreadStarts
  <2>. QED  BY <2>1, <2>2, Zenon DEF TypeOK, outside, shown
<1>3. CASE NiThreadClearsReqID(id)
  <2>1. thread' \in [Requests -> NiThreadState] /\ ni' \in [Sessions -> NiSession]
    <3>1. thread' = [thread EXCEPT ![id].at = "post"] /\ thread \in [Requests -> NiThreadState]
      BY <1>3 DEF NiThreadClearsReqID, TypeOK
    <3>2. ni' = [ni EXCEPT ![s].reqID = 0] /\ ni \in [Sessions -> NiSession]
      BY <1>3 DEF NiThreadClearsReqID, TypeOK
    <3>3. thread' \in [Requests -> NiThreadState]
      BY <3>1 DEF NiThreadState
    <3>. QED  BY <1>1, <3>2, <3>3, SessionForgets
  <2>2. UNCHANGED <<outside, reqIDCounter, adapter, msgQ, saved, ends, stray>>
    BY <1>3 DEF NiThreadClearsReqID
  <2>. QED  BY <2>1, <2>2, Zenon DEF TypeOK, outside, shown
<1>4. CASE NiThreadPosts(id)
  <2>1. NoThread \in NiThreadState
    BY DEF NoThread, NiThreadState, Sessions, Response
  <2>2. thread' \in [Requests -> NiThreadState]
    BY <1>4, <2>1 DEF NiThreadPosts, TypeOK
  <2>3. msgQ' \in Seq(Message)
    <3> DEFINE m == [type |-> "inform", response |-> thread[id].resp,
                     data |-> thread[id].rawRequest]
    <3>1. CASE thread[id].rawRequest = None
      BY <1>4, <3>1 DEF NiThreadPosts, TypeOK
    <3>2. CASE thread[id].rawRequest # None
      <4>1. m \in Message
        BY <1>1, <3>2 DEF NiThreadState, Message
      <4>. QED  BY <1>4, <3>2, <4>1 DEF NiThreadPosts, TypeOK
    <3>. QED  BY <3>1, <3>2
  <2>4. UNCHANGED <<outside, ni, reqIDCounter, adapter, saved, ends, stray>>
    BY <1>4 DEF NiThreadPosts
  <2>. QED  BY <2>2, <2>3, <2>4, Zenon DEF TypeOK, outside, shown
<1>5. CASE \E resp \in Response : Conclude(id, resp)
  BY <1>5, ConcludeType
<1>6. NiThreadStarts(id) /\ ni[s].respRecvd => \E resp \in Response : Conclude(id, resp)
  BY <1>1 DEF NiThreadStarts
<1>7. NiThreadWakes(id) \/ NiThreadTimesOut(id) => \E resp \in Response : Conclude(id, resp)
  BY <1>1 DEF NiThreadWakes, NiThreadTimesOut, Response
<1>. QED  BY <1>2, <1>3, <1>4, <1>5, <1>6, <1>7 DEF NiThread

LEMMA OutsideType ==
    ASSUME TypeOK,
           \/ \E type \in Types, inEmergency \in BOOLEAN : Notify(type, inEmergency)
           \/ \E n \in notified, response \in {"ACCEPT", "DENY"} : UserResponds(n, response)
           \/ ClientsChange
    PROVE  TypeOK'
<1>1. ASSUME NEW type \in Types, NEW inEmergency \in BOOLEAN, Notify(type, inEmergency)
      PROVE  TypeOK'
  <2> DEFINE m == [type |-> "notify", ni |-> type, data |-> requested', inEmergency |-> inEmergency]
  <2>1. requested' \in 0..MaxRequests /\ requested' \in Requests
    BY <1>1 DEF Notify, TypeOK, Requests
  <2>2. m \in Message
    BY <2>1 DEF Message
  <2>3. msgQ' \in Seq(Message)
    BY <1>1, <2>2 DEF Notify, TypeOK
  <2>4. UNCHANGED <<hasClient, ni, reqIDCounter, thread, adapter, notified, unnamed, threadless,
                    saved, user, ends, stray, changes>>
    BY <1>1 DEF Notify, shown
  <2>. QED  BY <2>1, <2>3, <2>4, Zenon DEF TypeOK
<1>2. ASSUME NEW n \in notified, NEW response \in {"ACCEPT", "DENY"}, UserResponds(n, response)
      PROVE  TypeOK'
  <2> DEFINE m == [type |-> "respond", id |-> n.id, response |-> response]
  <2>1. n.id \in 0..MaxRequests /\ n.request \in Requests
    BY DEF TypeOK
  <2>2. m \in Message
    BY <2>1 DEF Message
  <2>3. msgQ' \in Seq(Message)
    BY <1>2, <2>2 DEF UserResponds, TypeOK
  <2>4. /\ user' \in [Requests -> {"silent", "ACCEPT", "DENY"}]
        /\ notified' \subseteq [id : 0..MaxRequests, request : Requests]
    BY <1>2, <2>1 DEF UserResponds, TypeOK
  <2>5. UNCHANGED <<hasClient, ni, reqIDCounter, thread, adapter, requested, saved, ends, stray,
                    unnamed, threadless, changes>>
    BY <1>2 DEF UserResponds
  <2>. QED  BY <2>3, <2>4, <2>5, Zenon DEF TypeOK
<1>3. CASE ClientsChange
  <2>1. hasClient' \in BOOLEAN
    BY <1>3 DEF ClientsChange
  <2>2. changes' \in 0..MaxChanges
    BY <1>3 DEF ClientsChange, TypeOK
  <2>3. UNCHANGED <<ni, reqIDCounter, thread, adapter, msgQ, requested, notified, unnamed,
                    threadless, saved, user, ends, stray>>
    BY <1>3 DEF ClientsChange, shown
  <2>. QED  BY <2>1, <2>2, <2>3, Zenon DEF TypeOK
<1>. QED  BY <1>1, <1>2, <1>3

(* A message that brings a request finds a request ID for it.               *)
LEMMA NextID ==
    ASSUME TypeInv, msgQ # <<>>, Head(msgQ).type = "notify"
    PROVE  /\ Head(msgQ).data \in Requests /\ Head(msgQ).ni \in Types
           /\ reqIDCounter + 1 \in Requests /\ reqIDCounter + 1 <= Head(msgQ).data
           /\ Head(msgQ).data <= requested
<1>1. /\ Head(msgQ) = msgQ[1] /\ 1 \in 1..Len(msgQ) /\ Head(msgQ) \in Message
      /\ reqIDCounter \in Nat /\ requested \in 0..MaxRequests
  BY TailMessages DEF TypeInv, TypeOK
<1>2. Head(msgQ).data \in Requests /\ Head(msgQ).ni \in Types
  BY <1>1, MessageFields
<1>3. reqIDCounter < Head(msgQ).data /\ Head(msgQ).data <= requested
  BY <1>1 DEF TypeInv, CountInv
<1>. QED  BY <1>1, <1>2, <1>3 DEF Requests

LEMMA SaveType ==
    ASSUME TypeOK, NEW s \in Sessions, NEW r \in Requests, reqIDCounter + 1 \in Requests, Save(s, r)
    PROVE  /\ ni' \in [Sessions -> NiSession] /\ adapter' \in Handler
           /\ reqIDCounter' \in 0..MaxRequests /\ saved' \subseteq Requests
           /\ UNCHANGED <<thread, notified, unnamed, threadless, ends>>
<1>1. reqIDCounter' = reqIDCounter + 1 /\ reqIDCounter' \in Requests /\ reqIDCounter' \in 0..MaxRequests
  BY DEF Save, Requests
<1>2. ni' \in [Sessions -> NiSession]
  <2>1. ni' = [ni EXCEPT ![s].rawRequest = r, ![s].reqID = reqIDCounter']
    BY DEF Save
  <2>. QED  BY <1>1, <2>1, SessionSaves DEF TypeOK
<1>3. adapter' \in Handler
  <2>1. adapter' = [at |-> "saved", of |-> s, resp |-> "DENY", data |-> r]
    BY DEF Save, Idle
  <2>. QED  BY <2>1 DEF Handler, Response
<1>4. saved' \subseteq Requests /\ UNCHANGED <<thread, notified, unnamed, threadless, ends>>
  BY DEF Save, TypeOK, shown
<1>. QED  BY <1>1, <1>2, <1>3, <1>4

LEMMA InformType ==
    ASSUME TypeOK, NEW r \in Requests, NEW response \in Response \union {"freed"},
           ends' = [ends EXCEPT ![r] = Append(@, response)]
    PROVE  ends' \in [Requests -> Seq(Response \union {"freed"})]
BY DEF TypeOK

LEMMA HandleNotifyType ==
    ASSUME TypeInv, HandleNotify
    PROVE  TypeOK'
<1> DEFINE m == Head(msgQ)
           s == IF m.ni = "emergency" THEN "sessionEs" ELSE "session"
<1>1. /\ Taking /\ m.type = "notify" /\ UNCHANGED <<hasClient, requested, user, stray, changes>>
      /\ \/ RequestNiNotify(m)
         \/ /\ \/ Inform(m.data, "DENY") \/ Inform(m.data, "ACCEPT")
            /\ UNCHANGED <<ni, reqIDCounter, thread, adapter, notified, unnamed, threadless, saved>>
  BY DEF HandleNotify, shown
<1>2. /\ msgQ # <<>> /\ m.data \in Requests /\ reqIDCounter + 1 \in Requests /\ s \in Sessions
      /\ msgQ' \in Seq(Message) /\ TypeOK
  BY <1>1, NextID, TailMessages DEF Taking, TypeInv, TypeOK, Sessions
<1>3. CASE Save(s, m.data)
  <2>. QED  BY <1>1, <1>2, <1>3, SaveType, Zenon DEF TypeOK
<1>4. CASE /\ \E response \in Response \union {"freed"} :
                  ends' = [ends EXCEPT ![m.data] = Append(@, response)]
           /\ UNCHANGED <<ni, reqIDCounter, thread, notified, unnamed, threadless, saved>>
           /\ adapter' = adapter \/ adapter' = Idle \/ adapter' = [Idle EXCEPT !.at = "ignoring", !.of = "none"]
  <2>1. ends' \in [Requests -> Seq(Response \union {"freed"})]
    BY <1>2, <1>4, InformType
  <2>2. adapter' \in Handler
    <3>1. Idle \in Handler /\ [Idle EXCEPT !.at = "ignoring", !.of = "none"] \in Handler
      BY DEF Idle, Handler, Response, Sessions
    <3>2. adapter \in Handler
      BY <1>2 DEF TypeOK
    <3>. QED  BY <1>4, <3>1, <3>2
  <2>3. UNCHANGED <<ni, reqIDCounter, thread, notified, unnamed, threadless, saved>>
    BY <1>4
  <2>. QED  BY <1>1, <1>2, <2>1, <2>2, <2>3, Zenon DEF TypeOK
<1>5. CASE UNCHANGED <<ni, reqIDCounter, thread, adapter, notified, unnamed, threadless, saved, ends>>
  BY <1>1, <1>2, <1>5, Zenon DEF TypeOK
<1>6. {"DENY", "ACCEPT", "freed"} \subseteq Response \union {"freed"}
  BY DEF Response
<1>7. ASSUME RequestNiNotify(m) PROVE TypeOK'
  BY <1>3, <1>4, <1>5, <1>6, <1>7 DEF RequestNiNotify, Inform, shown
<1>8. ASSUME Inform(m.data, "DENY") \/ Inform(m.data, "ACCEPT"),
             UNCHANGED <<ni, reqIDCounter, thread, adapter, notified, unnamed, threadless, saved>>
      PROVE  TypeOK'
  BY <1>4, <1>6, <1>8 DEF Inform
<1>. QED  BY <1>1, <1>7, <1>8

LEMMA AnswerType ==
    ASSUME TypeOK, NEW s \in Sessions, NEW resp \in Response, SetResponse(s, resp), adapter' \in Handler
    PROVE  TypeOK'
<1>1. ni' \in [Sessions -> NiSession]
  BY SessionAnswered DEF SetResponse, TypeOK
<1>2. stray' \in BOOLEAN
  BY DEF SetResponse, TypeOK, Busy
<1>3. UNCHANGED <<outside, reqIDCounter, thread, msgQ, saved, ends>>
  BY DEF SetResponse
<1>. QED  BY <1>1, <1>2, <1>3, Zenon DEF TypeOK, outside, shown

LEMMA AdapterType ==
    ASSUME TypeInv, Adapter
    PROVE  TypeOK'
<1>1. TypeOK /\ adapter \in Handler /\ HandlerInv
  BY DEF TypeInv, TypeOK
<1>2. CASE HandleRespond
  <2> DEFINE m == Head(msgQ)
  <2>1. msgQ' \in Seq(Message) /\ m \in Message /\ m.type = "respond"
    BY <1>1, <1>2, TailMessages DEF HandleRespond, Taking, TypeOK
  <2>2. m.response \in Response
    BY <2>1, MessageFields DEF Response
  <2>3. adapter' \in Handler
    BY <1>2, <2>2 DEF HandleRespond, Handler, Idle, Sessions, Response
  <2>4. UNCHANGED <<outside, ni, reqIDCounter, thread, saved, ends, stray>>
    BY <1>2 DEF HandleRespond
  <2>. QED  BY <1>1, <2>1, <2>3, <2>4, Zenon DEF TypeOK, outside, shown
<1>3. CASE HandleInform
  <2> DEFINE m == Head(msgQ)
  <2>1. msgQ' \in Seq(Message) /\ m \in Message /\ m.type = "inform"
    BY <1>1, <1>3, TailMessages DEF HandleInform, Taking, TypeOK
  <2>2. m.data \in Requests /\ m.response \in Response
    BY <2>1, MessageFields
  <2>3. ends' \in [Requests -> Seq(Response \union {"freed"})]
    BY <1>1, <1>3, <2>2, InformType DEF HandleInform, Inform
  <2>4. UNCHANGED <<outside, ni, reqIDCounter, thread, adapter, saved, stray>>
    BY <1>3 DEF HandleInform
  <2>. QED  BY <1>1, <2>1, <2>3, <2>4, Zenon DEF TypeOK, outside, shown
<1>4. CASE AfterAccepted
  <2>1. adapter' \in Handler
    BY <1>1, <1>4 DEF AfterAccepted, Handler
  <2>2. UNCHANGED <<outside, ni, reqIDCounter, thread, msgQ, saved, ends, stray>>
    BY <1>4 DEF AfterAccepted
  <2>. QED  BY <1>1, <2>1, <2>2, Zenon DEF TypeOK, outside, shown
<1>5. CASE IgnoreOther
  <2>1. adapter' \in Handler
    BY <1>1, <1>5 DEF IgnoreOther, Handler, Idle, Sessions, Response
  <2>2. "session" \in Sessions /\ "IGNORE" \in Response
    BY DEF Sessions, Response
  <2>. QED  BY <1>1, <1>5, <2>1, <2>2, AnswerType DEF IgnoreOther
<1>6. CASE SendUserResponse
  <2>1. adapter' \in Handler
    BY <1>6 DEF SendUserResponse, Handler, Idle, Sessions, Response
  <2>2. adapter.of \in Sessions /\ adapter.resp \in Response
    BY <1>1, <1>6 DEF SendUserResponse, HandlerInv, Handler
  <2>. QED  BY <1>1, <1>6, <2>1, <2>2, AnswerType DEF SendUserResponse
<1>7. CASE ShowNotification
  <2>1. adapter.of \in Sessions /\ adapter.data \in Requests /\ ni[adapter.of].reqID \in 0..MaxRequests
    BY <1>1, <1>7 DEF ShowNotification, HandlerInv, TypeOK, NiSession
  <2>2. notified' \subseteq [id : 0..MaxRequests, request : Requests] /\ threadless' \subseteq Requests
    <3>1. notified \subseteq [id : 0..MaxRequests, request : Requests] /\ threadless \subseteq Requests
      BY <1>1 DEF TypeOK
    <3>. QED  BY <1>7, <2>1, <3>1 DEF ShowNotification
  <2>3. thread' \in [Requests -> NiThreadState]
    <3>1. \/ thread' = thread
          \/ thread' = [thread EXCEPT ![reqIDCounter] =
                             [NoThread EXCEPT !.at = "starting", !.of = adapter.of]]
      BY <1>7 DEF ShowNotification
    <3>2. thread \in [Requests -> NiThreadState]
      BY <1>1 DEF TypeOK
    <3>3. [thread EXCEPT ![reqIDCounter] = [NoThread EXCEPT !.at = "starting", !.of = adapter.of]]
              \in [Requests -> NiThreadState]
      BY <2>1, <3>2, ThreadBegins
    <3>. QED  BY <3>1, <3>2, <3>3, Zenon
  <2>4. adapter' \in Handler
    BY <1>7 DEF ShowNotification, Handler, Idle, Sessions, Response
  <2>5. unnamed' \in BOOLEAN
    BY <1>1, <1>7 DEF ShowNotification, TypeOK
  <2>6. UNCHANGED <<hasClient, ni, reqIDCounter, msgQ, requested, saved, user, ends, stray, changes>>
    BY <1>7 DEF ShowNotification
  <2>. QED  BY <1>1, <2>2, <2>3, <2>4, <2>5, <2>6, Zenon DEF TypeOK
<1>. QED  BY <1>2, <1>3, <1>4, <1>5, <1>6, <1>7, HandleNotifyType DEF Adapter

-----------------------------------------------------------------------------
(* The order of requests *)

LEMMA CountSame ==
    ASSUME CountInv, UNCHANGED <<reqIDCounter, requested, msgQ>>
    PROVE  CountInv'
BY DEF CountInv

LEMMA CountAppend ==
    ASSUME TypeOK, CountInv, UNCHANGED <<reqIDCounter, requested>>,
           NEW m \in Message, m.type # "notify", msgQ' = Append(msgQ, m)
    PROVE  CountInv'
<1>1. /\ Len(msgQ') = Len(msgQ) + 1 /\ Len(msgQ) \in Nat
      /\ msgQ'[Len(msgQ) + 1] = m /\ \A i \in 1..Len(msgQ) : msgQ'[i] = msgQ[i]
  BY AppendMessage DEF TypeOK
<1>2. \A i \in 1..Len(msgQ') : msgQ'[i].type = "notify" => i \in 1..Len(msgQ) /\ msgQ'[i] = msgQ[i]
  BY <1>1
<1>. QED  BY <1>2 DEF CountInv

LEMMA CountTail ==
    ASSUME TypeOK, CountInv, UNCHANGED requested, msgQ # <<>>, msgQ' = Tail(msgQ),
           reqIDCounter' = reqIDCounter
               \/ (Head(msgQ).type = "notify" /\ reqIDCounter' = reqIDCounter + 1)
    PROVE  CountInv'
<1>1. /\ Len(msgQ') = Len(msgQ) - 1 /\ Len(msgQ) \in Nat \ {0} /\ Head(msgQ) = msgQ[1]
      /\ \A i \in 1..Len(msgQ') : i + 1 \in 1..Len(msgQ) /\ msgQ'[i] = msgQ[i + 1]
  BY TailMessages DEF TypeOK
<1>2. /\ reqIDCounter \in Nat /\ requested \in Nat
      /\ \A i \in 1..Len(msgQ) : msgQ[i].type = "notify" => msgQ[i].data \in Nat
  <2>1. \A i \in 1..Len(msgQ) : msgQ[i] \in Message
    BY DEF TypeOK
  <2>. QED  BY <2>1, MessageFields DEF TypeOK, Requests
<1>3. reqIDCounter' <= requested'
  BY <1>1, <1>2 DEF CountInv
<1>4. ASSUME NEW i \in 1..Len(msgQ'), msgQ'[i].type = "notify"
      PROVE  reqIDCounter' < msgQ'[i].data /\ msgQ'[i].data <= requested'
  <2>1. i + 1 \in 1..Len(msgQ) /\ 1 \in 1..Len(msgQ) /\ 1 < i + 1 /\ msgQ'[i] = msgQ[i + 1]
    BY <1>1
  <2>2. reqIDCounter < msgQ[i + 1].data /\ msgQ[i + 1].data <= requested
    BY <1>4, <2>1 DEF CountInv
  <2>3. Head(msgQ).type = "notify" => reqIDCounter < msgQ[1].data /\ msgQ[1].data < msgQ[i + 1].data
    BY <1>1, <1>4, <2>1 DEF CountInv
  <2>. QED  BY <1>1, <1>2, <1>4, <2>1, <2>2, <2>3
<1>5. \A i, j \in 1..Len(msgQ') :
          i < j /\ msgQ'[i].type = "notify" /\ msgQ'[j].type = "notify" => msgQ'[i].data < msgQ'[j].data
  BY <1>1 DEF CountInv
<1>. QED  BY <1>3, <1>4, <1>5 DEF CountInv

LEMMA NextCount ==
    ASSUME TypeInv, Next
    PROVE  CountInv'
<1>1. TypeOK /\ CountInv
  BY DEF TypeInv
<1>2. ASSUME NEW type \in Types, NEW inEmergency \in BOOLEAN, Notify(type, inEmergency)
      PROVE  CountInv'
  <2> DEFINE m == [type |-> "notify", ni |-> type, data |-> requested', inEmergency |-> inEmergency]
  <2>1. requested' \in Requests /\ requested' = requested + 1 /\ requested \in Nat
    BY <1>1, <1>2 DEF Notify, TypeOK, Requests
  <2>2. m \in Message /\ m.type = "notify" /\ m.data = requested'
    BY <2>1 DEF Message
  <2>3. msgQ' = Append(msgQ, m) /\ reqIDCounter' = reqIDCounter
    BY <1>2 DEF Notify
  <2>4. /\ Len(msgQ') = Len(msgQ) + 1 /\ Len(msgQ) \in Nat
        /\ msgQ'[Len(msgQ) + 1] = m /\ \A i \in 1..Len(msgQ) : msgQ'[i] = msgQ[i]
    BY <1>1, <2>2, <2>3, AppendMessage DEF TypeOK
  <2>5. \A i \in 1..Len(msgQ) : msgQ[i].type = "notify" => msgQ[i].data \in Nat
    <3>1. \A i \in 1..Len(msgQ) : msgQ[i] \in Message
      BY <1>1 DEF TypeOK
    <3>. QED  BY <3>1, MessageFields DEF Requests
  <2>6. reqIDCounter \in Nat /\ reqIDCounter <= requested
    BY <1>1 DEF TypeOK, CountInv
  <2>7. \A i \in 1..Len(msgQ) : msgQ[i].type = "notify" =>
            reqIDCounter < msgQ[i].data /\ msgQ[i].data <= requested
    BY <1>1 DEF CountInv
  <2>8. \A i, j \in 1..Len(msgQ) :
          i < j /\ msgQ[i].type = "notify" /\ msgQ[j].type = "notify" => msgQ[i].data < msgQ[j].data
    BY <1>1 DEF CountInv
  <2>9. \A i \in 1..Len(msgQ') : i \in 1..Len(msgQ) \/ i = Len(msgQ) + 1
    BY <2>4
  <2> HIDE DEF m
  <2>10. \A i \in 1..Len(msgQ') : msgQ'[i].type = "notify" =>
             reqIDCounter' < msgQ'[i].data /\ msgQ'[i].data <= requested'
    BY <2>1, <2>2, <2>3, <2>4, <2>5, <2>6, <2>7, <2>9
  <2>11. ASSUME NEW i \in 1..Len(msgQ'), NEW j \in 1..Len(msgQ'),
                i < j, msgQ'[i].type = "notify", msgQ'[j].type = "notify"
         PROVE  msgQ'[i].data < msgQ'[j].data
    <3>1. i \in 1..Len(msgQ) /\ msgQ'[i] = msgQ[i]
      BY <2>4, <2>11
    <3>2. CASE j \in 1..Len(msgQ)
      BY <2>4, <2>8, <2>11, <3>1, <3>2
    <3>3. CASE j = Len(msgQ) + 1
      <4>1. msgQ'[j].data = requested + 1
        BY <2>1, <2>2, <2>4, <3>3
      <4>2. msgQ'[i].data <= requested /\ msgQ'[i].data \in Nat
        BY <2>5, <2>7, <2>11, <3>1
      <4>. QED  BY <2>1, <4>1, <4>2
    <3>. QED  BY <2>9, <3>2, <3>3
  <2>. QED  BY <2>1, <2>3, <2>6, <2>10, <2>11 DEF CountInv
<1>3. ASSUME NEW n \in notified, NEW response \in {"ACCEPT", "DENY"}, UserResponds(n, response)
      PROVE  CountInv'
  <2> DEFINE m == [type |-> "respond", id |-> n.id, response |-> response]
  <2>1. m \in Message /\ m.type # "notify"
    BY <1>1 DEF TypeOK, Message
  <2>. QED  BY <1>1, <1>3, <2>1, CountAppend DEF UserResponds
<1>4. ASSUME NEW id \in Requests, NiThread(id)
      PROVE  CountInv'
  <2>1. CASE NiThreadPosts(id) /\ thread[id].rawRequest # None
    <3> DEFINE m == [type |-> "inform", response |-> thread[id].resp, data |-> thread[id].rawRequest]
    <3>1. m \in Message /\ m.type # "notify"
      BY <1>1, <2>1 DEF TypeOK, NiThreadState, Message
    <3>. QED  BY <1>1, <2>1, <3>1, CountAppend DEF NiThreadPosts, outside, shown
  <2>2. CASE NiThreadPosts(id) /\ thread[id].rawRequest = None
    BY <1>1, <2>2, CountSame DEF NiThreadPosts, outside, shown
  <2>3. CASE ~NiThreadPosts(id)
    BY <1>1, <1>4, <2>3, CountSame DEF NiThread, NiThreadStarts, NiThreadWakes, NiThreadTimesOut,
       NiThreadClearsReqID, Conclude, outside, shown
  <2>. QED  BY <2>1, <2>2, <2>3
<1>5. CASE HandleNotify
  <2>1. /\ msgQ # <<>> /\ msgQ' = Tail(msgQ) /\ Head(msgQ).type = "notify" /\ requested' = requested
        /\ reqIDCounter' = reqIDCounter \/ reqIDCounter' = reqIDCounter + 1
    BY <1>5 DEF HandleNotify, Taking, RequestNiNotify, Save
  <2>. QED  BY <1>1, <2>1, CountTail
<1>6. CASE HandleRespond \/ HandleInform
  <2>1. /\ msgQ # <<>> /\ msgQ' = Tail(msgQ) /\ requested' = requested /\ reqIDCounter' = reqIDCounter
    BY <1>6 DEF HandleRespond, HandleInform, Taking, outside, shown
  <2>. QED  BY <1>1, <2>1, CountTail
<1>7. CASE ClientsChange \/ ShowNotification \/ AfterAccepted \/ IgnoreOther \/ SendUserResponse
  BY <1>1, <1>7, CountSame DEF ClientsChange, ShowNotification, AfterAccepted, IgnoreOther, SendUserResponse, SetResponse, outside, shown
<1>. QED  BY <1>2, <1>3, <1>4, <1>5, <1>6, <1>7 DEF Next, Adapter

(* The handler has a session in hand whenever it is about to store there.   *)
LEMMA NextHandler ==
    ASSUME TypeInv, Next
    PROVE  HandlerInv'
<1>1. HandlerInv
  BY DEF TypeInv
<1>2. ASSUME Adapter PROVE HandlerInv'
  <2>1. CASE HandleNotify
    <3> DEFINE m == Head(msgQ)
               s == IF m.ni = "emergency" THEN "sessionEs" ELSE "session"
    <3>1. Taking /\ m.type = "notify"
      BY <2>1 DEF HandleNotify
    <3>2. s \in Sessions /\ m.data \in Requests
      BY <3>1, NextID DEF Taking, Sessions
    <3>3. CASE Save(s, m.data)
      <4>1. adapter'.of = s /\ adapter'.data = m.data
        BY <3>3 DEF Save, Idle
      <4>. QED  BY <3>2, <4>1 DEF HandlerInv
    <3>4. CASE adapter' = adapter \/ adapter' = Idle \/ adapter' = [Idle EXCEPT !.at = "ignoring", !.of = "none"]
      <4>1. /\ Idle.at = "idle" /\ [Idle EXCEPT !.at = "ignoring", !.of = "none"].at = "ignoring"
        BY DEF Idle
      <4>2. adapter' = adapter \/ adapter'.at \in {"idle", "ignoring"}
        BY <3>4, <4>1, Zenon
      <4>. QED  BY <1>1, <4>2 DEF HandlerInv
    <3>. QED  BY <2>1, <3>3, <3>4 DEF HandleNotify, RequestNiNotify
  <2>2. CASE HandleRespond
    BY <2>2 DEF HandleRespond, HandlerInv, Idle, Sessions
  <2>7. CASE ShowNotification
    BY <2>7 DEF ShowNotification, HandlerInv, Idle
  <2>3. CASE HandleInform
    BY <1>1, <2>3 DEF HandleInform, HandlerInv
  <2>4. CASE AfterAccepted
    <3>1. adapter \in Handler
      BY DEF TypeInv, TypeOK
    <3>2. adapter'.of = adapter.of
      BY <2>4, <3>1 DEF AfterAccepted, Handler
    <3>3. adapter'.at # "saved"
      BY <2>4, <3>1 DEF AfterAccepted, Handler
    <3>. QED  BY <1>1, <2>4, <3>2, <3>3 DEF AfterAccepted, HandlerInv
  <2>5. CASE IgnoreOther
    <3>1. adapter \in Handler
      BY DEF TypeInv, TypeOK
    <3>. QED  BY <2>5, <3>1 DEF IgnoreOther, HandlerInv, Idle, Handler
  <2>6. CASE SendUserResponse
    BY <2>6 DEF SendUserResponse, HandlerInv, Idle
  <2>. QED  BY <1>2, <2>1, <2>2, <2>3, <2>4, <2>5, <2>6, <2>7 DEF Adapter
<1>3. ASSUME UNCHANGED adapter PROVE HandlerInv'
  BY <1>1, <1>3 DEF HandlerInv
<1>4. ASSUME NEW id \in Requests, NiThread(id)
      PROVE  UNCHANGED adapter
  BY <1>4 DEF NiThread, NiThreadStarts, NiThreadWakes, NiThreadTimesOut, NiThreadClearsReqID,
     NiThreadPosts, Conclude
<1>. QED  BY <1>2, <1>3, <1>4 DEF Next, Notify, UserResponds, ClientsChange

LEMMA NextType ==
    ASSUME TypeInv, [Next]_vars
    PROVE  TypeInv'
<1>1. CASE UNCHANGED vars
  BY <1>1 DEF vars, TypeInv, TypeOK, CountInv, HandlerInv
<1>2. CASE Next
  BY <1>2, OutsideType, ThreadType, AdapterType, NextCount, NextHandler DEF TypeInv, Next
<1>. QED  BY <1>1, <1>2

(* In every state the sessions, the threads, the handler and the messages   *)
(* are what their types say: a session's number never exceeds the requests. *)
THEOREM TypeCorrect == Spec => []TypeOK
<1>1. Init => TypeInv
  BY InitType
<1>2. TypeInv /\ [Next]_vars => TypeInv'
  BY NextType
<1>3. TypeInv => TypeOK
  BY DEF TypeInv
<1>. QED  BY <1>1, <1>2, <1>3, PTL DEF Spec

-----------------------------------------------------------------------------
(* A request in one place *)

(* What a step may do to the places: the request r, if there is one, leaves *)
(* every place it was in and turns up in one place, or is over; k messages  *)
(* leave the head of the queue; a place may lose its request, and all other *)
(* requests stay where they are.                                            *)
Move(r, k, to, s, id) ==
    /\ requested <= requested' /\ r <= requested' /\ (r # None => ends[r] = <<>>)
    /\ \A i \in 1..Len(msgQ') : Carries(i)' =>
           \/ i + k \in 1..Len(msgQ) /\ msgQ'[i] = msgQ[i + k] /\ msgQ'[i].data # r
           \/ to = "message" /\ i = Len(msgQ') /\ msgQ'[i].data = r
    /\ \A t \in Sessions : ni'[t].rawRequest # None =>
           \/ ni'[t].rawRequest = ni[t].rawRequest /\ ni'[t].rawRequest # r
           \/ to = "session" /\ t = s /\ ni'[t].rawRequest = r
    /\ \A t \in Requests : thread'[t].rawRequest # None =>
           \/ thread'[t].rawRequest = thread[t].rawRequest /\ thread'[t].rawRequest # r
           \/ to = "thread" /\ t = id /\ thread'[t].rawRequest = r
    /\ \A x \in Requests : x # r => ends'[x] = ends[x]
    /\ r # None => IF to = "over" THEN Len(ends'[r]) = 1 ELSE ends'[r] = ends[r]

LEMMA Types1 ==
    ASSUME TypeOK
    PROVE  /\ requested \in Nat /\ Len(msgQ) \in Nat
           /\ \A i \in 1..Len(msgQ) : msgQ[i] \in Message
           /\ \A i \in 1..Len(msgQ) : Carries(i) => msgQ[i].data \in Requests
           /\ \A s \in Sessions : ni[s].rawRequest \in {None} \union Requests
           /\ \A id \in Requests : thread[id].rawRequest \in {None} \union Requests
           /\ \A id \in Requests : thread[id].of \in Sessions /\ thread[id].resp \in Response
           /\ \A s \in Sessions : ni[s].resp \in Response /\ ni[s].respRecvd \in BOOLEAN
           /\ \A r \in Requests : ends[r] \in Seq(Response \union {"freed"})
<1>1. \A i \in 1..Len(msgQ) : msgQ[i] \in Message
  BY DEF TypeOK
<1>2. \A i \in 1..Len(msgQ) : Carries(i) => msgQ[i].data \in Requests
  BY <1>1, MessageFields DEF Carries
<1>. QED  BY <1>1, <1>2 DEF TypeOK, NiSession, NiThreadState

LEMMA MoveOnce ==
    ASSUME TypeOK, TypeOK', OnceInv, NEW r \in {None} \union Requests, NEW k \in {0, 1},
           NEW to \in {"message", "session", "thread", "over"}, NEW s, NEW id,
           Move(r, k, to, s, id)
    PROVE  OnceInv'
<1>1. /\ requested \in Nat /\ requested' \in Nat /\ Len(msgQ) \in Nat /\ Len(msgQ') \in Nat
      /\ \A i \in 1..Len(msgQ') : Carries(i)' => msgQ'[i].data \in Requests
      /\ \A t \in Sessions : ni'[t].rawRequest \in {None} \union Requests
      /\ \A t \in Requests : thread'[t].rawRequest \in {None} \union Requests
      /\ requested <= requested' /\ r <= requested'
  <2>1. \A i \in 1..Len(msgQ') : msgQ'[i] \in Message
    BY DEF TypeOK
  <2>2. \A i \in 1..Len(msgQ') : Carries(i)' => msgQ'[i].data \in Requests
    BY <2>1, MessageFields DEF Carries
  <2>. QED  BY <2>2 DEF TypeOK, NiSession, NiThreadState, Move
<1>2. None \notin Requests /\ Requests \subseteq Nat /\ None = 0
  BY DEF Requests, None
<1>3. \A x \in Requests : Len(ends'[x]) <= 1 /\ (requested' < x => ends'[x] = <<>>)
  <2>1. ASSUME NEW x \in Requests PROVE Len(ends'[x]) <= 1 /\ (requested' < x => ends'[x] = <<>>)
    <3>1. CASE x = r
      <4>1. x # None /\ ~(requested' < x)
        BY <1>1, <1>2, <3>1
      <4>2. Len(ends'[x]) = 1 \/ ends'[x] = <<>>
        BY <3>1, <4>1 DEF Move
      <4>3. ends'[x] = <<>> => Len(ends'[x]) = 0
        OBVIOUS
      <4>4. Len(ends'[x]) <= 1
        <5>1. CASE Len(ends'[x]) = 1
          BY <5>1
        <5>2. CASE ends'[x] = <<>>
          BY <4>3, <5>2
        <5>. QED  BY <4>2, <5>1, <5>2
      <4>. QED  BY <4>1, <4>4, Zenon
    <3>2. CASE x # r
      <4>1. ends'[x] = ends[x]
        BY <3>2 DEF Move
      <4>2. Len(ends[x]) <= 1 /\ (requested < x => ends[x] = <<>>)
        BY DEF OnceInv, EndInv
      <4>. QED  BY <1>1, <4>1, <4>2 DEF Requests
    <3>. QED  BY <3>1, <3>2
  <2>. QED  BY <2>1
<1>4. EndInv'
  BY <1>3 DEF EndInv
<1>5. MsgInv'
  <2>1. ASSUME NEW i \in 1..Len(msgQ'), Carries(i)'
        PROVE  /\ \A j \in 1..Len(msgQ') : Carries(j)' /\ msgQ'[j].data = msgQ'[i].data => i = j
               /\ \A t \in Sessions : ni'[t].rawRequest # msgQ'[i].data
               /\ \A t \in Requests : thread'[t].rawRequest # msgQ'[i].data
               /\ msgQ'[i].data <= requested' /\ ends'[msgQ'[i].data] = <<>>
    <3>1. CASE i + k \in 1..Len(msgQ) /\ msgQ'[i] = msgQ[i + k] /\ msgQ'[i].data # r
      <4>1. Carries(i + k) /\ msgQ[i + k].data = msgQ'[i].data
        BY <2>1, <3>1 DEF Carries
      <4>2. \A j \in 1..Len(msgQ') : Carries(j)' /\ msgQ'[j].data = msgQ'[i].data => i = j
        <5>1. ASSUME NEW j \in 1..Len(msgQ'), Carries(j)', msgQ'[j].data = msgQ'[i].data
              PROVE  i = j
          <6>1. j + k \in 1..Len(msgQ) /\ msgQ'[j] = msgQ[j + k]
            BY <3>1, <5>1 DEF Move
          <6>2. Carries(j + k)
            BY <5>1, <6>1 DEF Carries
          <6>3. i + k = j + k
            BY <3>1, <4>1, <5>1, <6>1, <6>2 DEF OnceInv, MsgInv
          <6>. QED  BY <6>3
        <5>. QED  BY <5>1
      <4>3. \A t \in Sessions : ni'[t].rawRequest # msgQ'[i].data
        BY <1>1, <1>2, <2>1, <3>1, <4>1 DEF Move, OnceInv, MsgInv
      <4>4. \A t \in Requests : thread'[t].rawRequest # msgQ'[i].data
        BY <1>1, <1>2, <2>1, <3>1, <4>1 DEF Move, OnceInv, MsgInv
      <4>5. msgQ'[i].data <= requested' /\ ends'[msgQ'[i].data] = <<>>
        <5>1. /\ msgQ'[i].data \in Requests /\ msgQ'[i].data <= requested
              /\ ends[msgQ'[i].data] = <<>>
          BY <1>1, <2>1, <3>1, <4>1 DEF OnceInv, MsgInv
        <5>2. ends'[msgQ'[i].data] = ends[msgQ'[i].data]
          BY <3>1, <5>1 DEF Move
        <5>. QED  BY <1>1, <5>1, <5>2 DEF Requests
      <4>. QED  BY <4>2, <4>3, <4>4, <4>5
    <3>2. CASE to = "message" /\ i = Len(msgQ') /\ msgQ'[i].data = r
      <4>1. \A j \in 1..Len(msgQ') : Carries(j)' /\ msgQ'[j].data = msgQ'[i].data => i = j
        BY <3>2 DEF Move
      <4>2. \A t \in Sessions : ni'[t].rawRequest # msgQ'[i].data
        BY <1>1, <1>2, <2>1, <3>2 DEF Move
      <4>3. \A t \in Requests : thread'[t].rawRequest # msgQ'[i].data
        BY <1>1, <1>2, <2>1, <3>2 DEF Move
      <4>4. msgQ'[i].data <= requested' /\ ends'[msgQ'[i].data] = <<>>
        BY <1>1, <1>2, <2>1, <3>2 DEF Move
      <4>. QED  BY <4>1, <4>2, <4>3, <4>4
    <3>. QED  BY <2>1, <3>1, <3>2 DEF Move
  <2>. QED  BY <2>1 DEF MsgInv
<1>6. SessionInv'
  <2>1. ASSUME NEW t \in Sessions, ni'[t].rawRequest # None
        PROVE  /\ ni'[t].rawRequest <= requested'
               /\ \A t2 \in Sessions : ni'[t2].rawRequest = ni'[t].rawRequest => t = t2
               /\ \A t2 \in Requests : thread'[t2].rawRequest # ni'[t].rawRequest
               /\ ends'[ni'[t].rawRequest] = <<>>
    <3>1. CASE ni'[t].rawRequest = ni[t].rawRequest /\ ni'[t].rawRequest # r
      <4>1. \A t2 \in Sessions : ni'[t2].rawRequest = ni'[t].rawRequest => t = t2
        BY <2>1, <3>1 DEF Move, OnceInv, SessionInv
      <4>2. \A t2 \in Requests : thread'[t2].rawRequest # ni'[t].rawRequest
        BY <2>1, <3>1 DEF Move, OnceInv, SessionInv
      <4>3. ni'[t].rawRequest <= requested' /\ ends'[ni'[t].rawRequest] = <<>>
        <5>1. /\ ni'[t].rawRequest \in Requests /\ ni'[t].rawRequest <= requested
              /\ ends[ni'[t].rawRequest] = <<>>
          BY <1>1, <2>1, <3>1 DEF OnceInv, SessionInv
        <5>2. ends'[ni'[t].rawRequest] = ends[ni'[t].rawRequest]
          BY <3>1, <5>1 DEF Move
        <5>. QED  BY <1>1, <5>1, <5>2 DEF Requests
      <4>. QED  BY <4>1, <4>2, <4>3
    <3>2. CASE to = "session" /\ t = s /\ ni'[t].rawRequest = r
      <4>1. \A t2 \in Sessions : ni'[t2].rawRequest = ni'[t].rawRequest => t = t2
        BY <2>1, <3>2 DEF Move
      <4>2. \A t2 \in Requests : thread'[t2].rawRequest # ni'[t].rawRequest
        BY <2>1, <3>2 DEF Move
      <4>3. ni'[t].rawRequest <= requested' /\ ends'[ni'[t].rawRequest] = <<>>
        BY <2>1, <3>2 DEF Move
      <4>. QED  BY <4>1, <4>2, <4>3
    <3>. QED  BY <2>1, <3>1, <3>2 DEF Move
  <2>. QED  BY <2>1 DEF SessionInv
<1>7. ThreadInv'
  <2>1. ASSUME NEW t \in Requests, thread'[t].rawRequest # None
        PROVE  /\ thread'[t].rawRequest <= requested'
               /\ \A t2 \in Requests : thread'[t2].rawRequest = thread'[t].rawRequest => t = t2
               /\ ends'[thread'[t].rawRequest] = <<>>
    <3>1. CASE thread'[t].rawRequest = thread[t].rawRequest /\ thread'[t].rawRequest # r
      <4>1. \A t2 \in Requests : thread'[t2].rawRequest = thread'[t].rawRequest => t = t2
        BY <2>1, <3>1 DEF Move, OnceInv, ThreadInv
      <4>2. thread'[t].rawRequest <= requested' /\ ends'[thread'[t].rawRequest] = <<>>
        <5>1. /\ thread'[t].rawRequest \in Requests /\ thread'[t].rawRequest <= requested
              /\ ends[thread'[t].rawRequest] = <<>>
          BY <1>1, <2>1, <3>1 DEF OnceInv, ThreadInv
        <5>2. ends'[thread'[t].rawRequest] = ends[thread'[t].rawRequest]
          BY <3>1, <5>1 DEF Move
        <5>. QED  BY <1>1, <5>1, <5>2 DEF Requests
      <4>. QED  BY <4>1, <4>2
    <3>2. CASE to = "thread" /\ t = id /\ thread'[t].rawRequest = r
      <4>1. \A t2 \in Requests : thread'[t2].rawRequest = thread'[t].rawRequest => t = t2
        BY <2>1, <3>2 DEF Move
      <4>2. thread'[t].rawRequest <= requested' /\ ends'[thread'[t].rawRequest] = <<>>
        BY <2>1, <3>2 DEF Move
      <4>. QED  BY <4>1, <4>2
    <3>. QED  BY <2>1, <3>1, <3>2 DEF Move
  <2>. QED  BY <2>1 DEF ThreadInv
<1>. QED  BY <1>4, <1>5, <1>6, <1>7 DEF OnceInv

(* What the steps do to the places.                                         *)
LEMMA QueueGrows ==
    ASSUME TypeOK, NEW m \in Message, msgQ' = Append(msgQ, m)
    PROVE  /\ Len(msgQ') = Len(msgQ) + 1 /\ Len(msgQ) \in Nat
           /\ msgQ'[Len(msgQ')] = m
           /\ \A i \in 1..Len(msgQ') :
                  i = Len(msgQ') \/ (i + 0 \in 1..Len(msgQ) /\ msgQ'[i] = msgQ[i + 0])
<1>1. /\ Len(msgQ') = Len(msgQ) + 1 /\ Len(msgQ) \in Nat
      /\ msgQ'[Len(msgQ) + 1] = m /\ \A i \in 1..Len(msgQ) : msgQ'[i] = msgQ[i]
  BY AppendMessage DEF TypeOK
<1>. QED  BY <1>1

LEMMA QueueShrinks ==
    ASSUME TypeOK, msgQ # <<>>, msgQ' = Tail(msgQ)
    PROVE  /\ Len(msgQ') = Len(msgQ) - 1 /\ Len(msgQ) \in Nat \ {0}
           /\ Head(msgQ) = msgQ[1] /\ Head(msgQ) \in Message /\ 1 \in 1..Len(msgQ)
           /\ \A i \in 1..Len(msgQ') :
                  i + 1 \in 1..Len(msgQ) /\ i + 1 # 1 /\ msgQ'[i] = msgQ[i + 1]
BY TailMessages DEF TypeOK

LEMMA ConcludedFields ==
    ASSUME NEW s \in Sessions, NEW resp \in Response, ni \in [Sessions -> NiSession],
           ni' = [ni EXCEPT ![s].respRecvd = FALSE, ![s].resp = resp, ![s].rawRequest = None]
    PROVE  ni'[s].rawRequest = None /\ ni'[s].reqID = ni[s].reqID /\ ni'[s].respRecvd = FALSE
<1>1. ni[s] \in NiSession
  OBVIOUS
<1>2. ni'[s].rawRequest = None
  BY <1>1 DEF NiSession
<1>3. ni'[s].reqID = ni[s].reqID
  BY <1>1 DEF NiSession
<1>4. ni'[s].respRecvd = FALSE
  BY <1>1 DEF NiSession
<1>. QED  BY <1>2, <1>3, <1>4

LEMMA ConcludeEffect ==
    ASSUME TypeOK, NEW id \in Requests, NEW resp \in Response, Conclude(id, resp)
    PROVE  LET s == thread[id].of
               raw == ni[s].rawRequest
           IN  /\ s \in Sessions /\ raw \in {None} \union Requests
               /\ \A t \in Sessions : t # s => ni'[t] = ni[t]
               /\ ni'[s].rawRequest = None /\ ni'[s].reqID = ni[s].reqID /\ ni'[s].respRecvd = FALSE
               /\ \A t \in Requests : t # id => thread'[t] = thread[t]
               /\ thread'[id].rawRequest = IF resp = "IGNORE" THEN None ELSE raw
               /\ thread'[id].resp = resp
               /\ raw # None /\ resp = "IGNORE" => ends' = [ends EXCEPT ![raw] = Append(@, "freed")]
               /\ raw = None \/ resp # "IGNORE" => ends' = ends
               /\ UNCHANGED <<outside, reqIDCounter, adapter, msgQ, saved, stray>>
<1> DEFINE s == thread[id].of
           raw == ni[s].rawRequest
           state == [at |-> "reqID", of |-> s, resp |-> resp,
                     rawRequest |-> IF resp = "IGNORE" THEN None ELSE raw]
<1>1. s \in Sessions /\ raw \in {None} \union Requests
  BY Types1
<1>2. thread' = [thread EXCEPT ![id] = state] /\ thread \in [Requests -> NiThreadState]
  BY DEF Conclude, TypeOK
<1>3. /\ \A t \in Requests : t # id => thread'[t] = thread[t]
      /\ thread'[id].rawRequest = IF resp = "IGNORE" THEN None ELSE raw
      /\ thread'[id].resp = resp
  <2>1. thread'[id] = state /\ \A t \in Requests : t # id => thread'[t] = thread[t]
    BY <1>2
  <2>. QED  BY <2>1
<1>4. ni' = [ni EXCEPT ![s].respRecvd = FALSE, ![s].resp = resp, ![s].rawRequest = None]
  BY DEF Conclude
<1>5. /\ \A t \in Sessions : t # s => ni'[t] = ni[t]
      /\ ni'[s].rawRequest = None /\ ni'[s].reqID = ni[s].reqID /\ ni'[s].respRecvd = FALSE
  <2>1. ni \in [Sessions -> NiSession]
    BY DEF TypeOK
  <2> HIDE DEF s
  <2>2. \A t \in Sessions : t # s => ni'[t] = ni[t]
    BY <1>1, <1>4, <2>1
  <2>3. ni'[s].rawRequest = None /\ ni'[s].reqID = ni[s].reqID /\ ni'[s].respRecvd = FALSE
    BY <1>1, <1>4, <2>1, ConcludedFields
  <2>. QED  BY <2>2, <2>3
<1>6. /\ raw # None /\ resp = "IGNORE" => ends' = [ends EXCEPT ![raw] = Append(@, "freed")]
      /\ raw = None \/ resp # "IGNORE" => ends' = ends
      /\ UNCHANGED <<outside, reqIDCounter, adapter, msgQ, saved, stray>>
  BY DEF Conclude
<1>. QED  BY <1>1, <1>3, <1>5, <1>6

LEMMA OtherThreadEffect ==
    ASSUME TypeOK, NEW id \in Requests,
           \/ NiThreadStarts(id) /\ ~ni[thread[id].of].respRecvd
           \/ NiThreadClearsReqID(id)
    PROVE  /\ \A t \in Sessions : /\ ni'[t].rawRequest = ni[t].rawRequest
                                  /\ ni'[t].reqID \in {0, ni[t].reqID}
                                  /\ ni'[t].resp = ni[t].resp /\ ni'[t].respRecvd = ni[t].respRecvd
           /\ \A t \in Requests : /\ thread'[t].rawRequest = thread[t].rawRequest
                                  /\ thread'[t].resp = thread[t].resp
           /\ UNCHANGED <<outside, reqIDCounter, adapter, msgQ, saved, ends, stray>>
<1> DEFINE s == thread[id].of
<1>1. s \in Sessions /\ ni \in [Sessions -> NiSession] /\ thread \in [Requests -> NiThreadState]
  BY Types1 DEF TypeOK
<1>2. CASE NiThreadStarts(id) /\ ~ni[s].respRecvd
  <2>1. /\ thread' = [thread EXCEPT ![id].at = "waiting"]
        /\ UNCHANGED <<outside, ni, reqIDCounter, adapter, msgQ, saved, ends, stray>>
    BY <1>2 DEF NiThreadStarts
  <2>2. \A t \in Requests : thread'[t].rawRequest = thread[t].rawRequest /\ thread'[t].resp = thread[t].resp
    BY <1>1, <2>1, ThreadMoves
  <2>. QED  BY <2>1, <2>2
<1>3. CASE NiThreadClearsReqID(id)
  <2>1. /\ thread' = [thread EXCEPT ![id].at = "post"] /\ ni' = [ni EXCEPT ![s].reqID = 0]
        /\ UNCHANGED <<outside, reqIDCounter, adapter, msgQ, saved, ends, stray>>
    BY <1>3 DEF NiThreadClearsReqID
  <2>2. \A t \in Requests : thread'[t].rawRequest = thread[t].rawRequest /\ thread'[t].resp = thread[t].resp
    BY <1>1, <2>1, ThreadMoves
  <2>3. \A t \in Sessions : t # s => ni'[t] = ni[t]
    BY <1>1, <2>1, SessionForgets
  <2>4. /\ ni'[s].rawRequest = ni[s].rawRequest /\ ni'[s].reqID = 0
        /\ ni'[s].resp = ni[s].resp /\ ni'[s].respRecvd = ni[s].respRecvd
    BY <1>1, <2>1, SessionForgets
  <2>. QED  BY <2>1, <2>2, <2>3, <2>4
<1>. QED  BY <1>2, <1>3

LEMMA PostEffect ==
    ASSUME TypeOK, NEW id \in Requests, NiThreadPosts(id)
    PROVE  /\ \A t \in Requests : t # id => thread'[t] = thread[t]
           /\ thread'[id].rawRequest = None
           /\ UNCHANGED <<outside, ni, reqIDCounter, adapter, saved, ends, stray>>
           /\ thread[id].rawRequest = None => msgQ' = msgQ
           /\ thread[id].rawRequest # None =>
                  \E m \in Message : /\ m.type = "inform" /\ m.response = thread[id].resp
                                     /\ m.data = thread[id].rawRequest /\ msgQ' = Append(msgQ, m)
<1>1. thread' = [thread EXCEPT ![id] = NoThread] /\ thread \in [Requests -> NiThreadState]
  BY DEF NiThreadPosts, TypeOK
<1>2. (\A t \in Requests : t # id => thread'[t] = thread[t]) /\ thread'[id].rawRequest = None
  <2>1. thread'[id] = NoThread /\ \A t \in Requests : t # id => thread'[t] = thread[t]
    BY <1>1
  <2>. QED  BY <2>1 DEF NoThread
<1>3. ASSUME thread[id].rawRequest # None
      PROVE  \E m \in Message : /\ m.type = "inform" /\ m.response = thread[id].resp
                                /\ m.data = thread[id].rawRequest /\ msgQ' = Append(msgQ, m)
  <2> DEFINE m == [type |-> "inform", response |-> thread[id].resp, data |-> thread[id].rawRequest]
  <2>1. m \in Message
    BY <1>3, Types1 DEF Message
  <2>2. msgQ' = Append(msgQ, m)
    BY <1>3 DEF NiThreadPosts
  <2>. QED  BY <2>1, <2>2
<1>. QED  BY <1>2, <1>3 DEF NiThreadPosts

LEMMA SaveEffect ==
    ASSUME TypeOK, NEW s \in Sessions, NEW r \in Requests, reqIDCounter + 1 \in Requests, Save(s, r)
    PROVE  /\ \A t \in Sessions : t # s => ni'[t] = ni[t]
           /\ ni'[s].rawRequest = r /\ ni'[s].reqID = reqIDCounter + 1
           /\ ni'[s].resp = ni[s].resp /\ ni'[s].respRecvd = ni[s].respRecvd
           /\ reqIDCounter' = reqIDCounter + 1 /\ saved' = saved \union {r}
           /\ adapter'.at = "saved" /\ adapter'.of = s /\ adapter'.data = r /\ adapter'.resp = "DENY"
           /\ UNCHANGED <<thread, notified, unnamed, ends>>
<1>1. reqIDCounter' = reqIDCounter + 1 /\ reqIDCounter' \in Requests /\ reqIDCounter' \in 0..MaxRequests
  BY DEF Save, Requests
<1>2. /\ \A t \in Sessions : t # s => ni'[t] = ni[t]
      /\ ni'[s].rawRequest = r /\ ni'[s].reqID = reqIDCounter'
      /\ ni'[s].resp = ni[s].resp /\ ni'[s].respRecvd = ni[s].respRecvd
  <2>1. ni' = [ni EXCEPT ![s].rawRequest = r, ![s].reqID = reqIDCounter']
    BY DEF Save
  <2>. QED  BY <1>1, <2>1, SessionSaves DEF TypeOK
<1>3. adapter' = [at |-> "saved", of |-> s, resp |-> "DENY", data |-> r]
  BY DEF Save, Idle
<1>4. /\ adapter'.at = "saved" /\ adapter'.of = s /\ adapter'.data = r /\ adapter'.resp = "DENY"
  BY <1>3
<1>5. saved' = saved \union {r} /\ UNCHANGED <<thread, notified, unnamed, ends>>
  BY Zenon DEF Save, shown
<1>. QED  BY <1>1, <1>2, <1>4, <1>5

LEMMA ShowEffect ==
    ASSUME TypeInv, ShowNotification
    PROVE  /\ adapter.of \in Sessions /\ adapter.data \in Requests
           /\ \A t \in Requests : thread'[t] = thread[t] \/ thread'[t].rawRequest = None
           /\ notified' = notified \union {[id |-> ni[adapter.of].reqID, request |-> adapter.data]}
           /\ unnamed' = (unnamed \/ ni[adapter.of].reqID = 0)
           /\ adapter.at = "saved" /\ adapter'.at = "idle"
           /\ UNCHANGED <<ni, reqIDCounter, msgQ, requested, saved, user, ends, stray>>
<1>1. adapter.of \in Sessions /\ adapter.data \in Requests
  BY DEF ShowNotification, TypeInv, HandlerInv
<1>2. \A t \in Requests : thread'[t] = thread[t] \/ thread'[t].rawRequest = None
  <2> DEFINE g == [thread EXCEPT ![reqIDCounter] =
                      [NoThread EXCEPT !.at = "starting", !.of = adapter.of]]
  <2>1. thread' = thread \/ thread' = g
    BY DEF ShowNotification
  <2>2. thread \in [Requests -> NiThreadState]
    BY DEF TypeInv, TypeOK
  <2>3. \A t \in Requests : g[t] = thread[t] \/ g[t].rawRequest = None
    BY <1>1, <2>2, ThreadBegins
  <2> HIDE DEF g
  <2>. QED  BY <2>1, <2>3
<1>3. /\ notified' = notified \union {[id |-> ni[adapter.of].reqID, request |-> adapter.data]}
      /\ unnamed' = (unnamed \/ ni[adapter.of].reqID = 0)
      /\ adapter.at = "saved" /\ adapter' = Idle
      /\ UNCHANGED <<ni, reqIDCounter, msgQ, requested, saved, user, ends, stray>>
  BY Zenon DEF ShowNotification
<1>4. Idle.at = "idle"
  BY DEF Idle
<1>. QED  BY <1>1, <1>2, <1>3, <1>4, Zenon

LEMMA AnswerEffect ==
    ASSUME TypeOK, NEW s \in Sessions, NEW resp \in Response, SetResponse(s, resp)
    PROVE  /\ \A t \in Sessions : t # s => ni'[t] = ni[t]
           /\ ni'[s].rawRequest = ni[s].rawRequest /\ ni'[s].reqID = ni[s].reqID
           /\ ni'[s].resp = resp /\ ni'[s].respRecvd = TRUE
           /\ stray' = (stray \/ ~Busy(s))
           /\ UNCHANGED <<outside, reqIDCounter, thread, msgQ, saved, ends>>
<1>1. ni' = [ni EXCEPT ![s].resp = resp, ![s].respRecvd = TRUE]
  BY DEF SetResponse
<1>2. /\ \A t \in Sessions : t # s => ni'[t] = ni[t]
      /\ ni'[s].rawRequest = ni[s].rawRequest /\ ni'[s].reqID = ni[s].reqID
      /\ ni'[s].resp = resp /\ ni'[s].respRecvd = TRUE
  BY <1>1, SessionAnswered DEF TypeOK
<1>. QED  BY <1>2 DEF SetResponse

LEMMA StaysOnce ==
    ASSUME TypeOK, TypeOK', OnceInv, NEW k \in {0, 1}, UNCHANGED <<requested, ends>>,
           \A i \in 1..Len(msgQ') : Carries(i)' => i + k \in 1..Len(msgQ) /\ msgQ'[i] = msgQ[i + k],
           \A t \in Sessions : ni'[t].rawRequest = ni[t].rawRequest,
           \A t \in Requests : thread'[t].rawRequest \in {None, thread[t].rawRequest}
    PROVE  OnceInv'
<1>1. \A i \in 1..Len(msgQ) : Carries(i) => msgQ[i].data # None
  BY Types1 DEF Requests, None
<1>2. \A i \in 1..Len(msgQ') : Carries(i)' => msgQ'[i].data # None
  BY <1>1 DEF Carries
<1>3. None <= requested /\ requested <= requested
  BY Types1 DEF None
<1>4. Move(None, k, "over", None, None)
  BY <1>2, <1>3 DEF Move
<1>. QED  BY <1>4, MoveOnce

(* The message at the head of the queue leaves it, and its request is over. *)
LEMMA HeadEndsOnce ==
    ASSUME TypeOK, TypeOK', OnceInv, msgQ # <<>>, msgQ' = Tail(msgQ), Carries(1),
           NEW response \in Response \union {"freed"},
           ends' = [ends EXCEPT ![msgQ[1].data] = Append(@, response)],
           UNCHANGED <<requested, ni, thread>>
    PROVE  OnceInv'
<1> DEFINE r == msgQ[1].data
<1>1. /\ 1 \in 1..Len(msgQ) /\ r \in Requests
      /\ \A i \in 1..Len(msgQ') : i + 1 \in 1..Len(msgQ) /\ i + 1 # 1 /\ msgQ'[i] = msgQ[i + 1]
  BY QueueShrinks, Types1
<1>2. ends[r] = <<>> /\ r <= requested
  BY <1>1 DEF OnceInv, MsgInv
<1>3. \A i \in 1..Len(msgQ') : Carries(i)' => msgQ'[i].data # r
  <2>1. \A i \in 1..Len(msgQ) : Carries(i) /\ msgQ[i].data = r => i = 1
    BY <1>1 DEF OnceInv, MsgInv
  <2>. QED  BY <1>1, <2>1 DEF Carries
<1>4. /\ \A t \in Sessions : ni[t].rawRequest # r
      /\ \A t \in Requests : thread[t].rawRequest # r
  BY <1>1 DEF OnceInv, MsgInv
<1>5. Len(ends'[r]) = 1 /\ \A x \in Requests : x # r => ends'[x] = ends[x]
  <2>1. ends \in [Requests -> Seq(Response \union {"freed"})]
    BY DEF TypeOK
  <2> HIDE DEF r
  <2>2. ends' = [ends EXCEPT ![r] = Append(@, response)]
    BY DEF r
  <2>3. ends'[r] = Append(<<>>, response)
    BY <1>1, <1>2, <2>1, <2>2
  <2>4. Len(Append(<<>>, response)) = 1
    OBVIOUS
  <2>. QED  BY <2>1, <2>2, <2>3, <2>4
<1>6. r <= requested' /\ requested <= requested'
  BY <1>2, Types1
<1> HIDE DEF r
<1>7. Move(r, 1, "over", None, None)
  BY <1>1, <1>2, <1>3, <1>4, <1>5, <1>6 DEF Move
<1>. QED  BY <1>1, <1>7, MoveOnce

LEMMA ConcludeOnce ==
    ASSUME TypeOK, TypeOK', OnceInv, NEW id \in Requests, NEW resp \in Response, Conclude(id, resp)
    PROVE  OnceInv'
<1> DEFINE s == thread[id].of
           raw == ni[s].rawRequest
           to == IF resp = "IGNORE" THEN "over" ELSE "thread"
<1>1. /\ s \in Sessions /\ raw \in {None} \union Requests
      /\ \A t \in Sessions : t # s => ni'[t] = ni[t]
      /\ ni'[s].rawRequest = None
      /\ \A t \in Requests : t # id => thread'[t] = thread[t]
      /\ thread'[id].rawRequest = IF resp = "IGNORE" THEN None ELSE raw
      /\ UNCHANGED <<requested, msgQ>>
  BY ConcludeEffect DEF outside, shown
<1>2. /\ raw # None /\ resp = "IGNORE" => ends' = [ends EXCEPT ![raw] = Append(@, "freed")]
      /\ raw = None \/ resp # "IGNORE" => ends' = ends
  BY ConcludeEffect
<1>3. \A i \in 1..Len(msgQ) : Carries(i) => msgQ[i].data # raw /\ msgQ[i].data # None
  BY <1>1, Types1 DEF OnceInv, MsgInv, Requests, None
<1>4. raw # None => /\ \A t \in Sessions : t # s => ni[t].rawRequest # raw
                    /\ \A t \in Requests : thread[t].rawRequest # raw
                    /\ raw <= requested /\ ends[raw] = <<>>
  BY <1>1 DEF OnceInv, SessionInv
<1>5. raw <= requested /\ requested <= requested /\ requested \in Nat
  BY <1>1, <1>4, Types1 DEF None
<1>6. \A x \in Requests : x # raw => ends'[x] = ends[x]
  <2>1. ends \in [Requests -> Seq(Response \union {"freed"})]
    BY DEF TypeOK
  <2> HIDE DEF raw
  <2>. QED  BY <1>1, <1>2, <2>1
<1>7. raw # None /\ resp = "IGNORE" => Len(ends'[raw]) = 1
  <2>1. ends \in [Requests -> Seq(Response \union {"freed"})]
    BY DEF TypeOK
  <2>2. Len(Append(<<>>, "freed")) = 1
    OBVIOUS
  <2> HIDE DEF raw
  <2>. QED  BY <1>1, <1>2, <1>4, <2>1, <2>2
<1>8. \A i \in 1..Len(msgQ') : i + 0 \in 1..Len(msgQ) /\ msgQ'[i] = msgQ[i + 0]
  BY <1>1, Types1
<1> HIDE DEF s, raw
<1>9. Move(raw, 0, to, s, id)
  <2>1. \A t \in Sessions : ni'[t].rawRequest # None =>
            ni'[t].rawRequest = ni[t].rawRequest /\ ni'[t].rawRequest # raw
    BY <1>1, <1>4
  <2>2. \A t \in Requests : thread'[t].rawRequest # None =>
            \/ thread'[t].rawRequest = thread[t].rawRequest /\ thread'[t].rawRequest # raw
            \/ to = "thread" /\ t = id /\ thread'[t].rawRequest = raw
    BY <1>1, <1>4
  <2>3. \A i \in 1..Len(msgQ') : Carries(i)' =>
            i + 0 \in 1..Len(msgQ) /\ msgQ'[i] = msgQ[i + 0] /\ msgQ'[i].data # raw
    BY <1>3, <1>8 DEF Carries
  <2>4. raw # None => IF to = "over" THEN Len(ends'[raw]) = 1 ELSE ends'[raw] = ends[raw]
    BY <1>2, <1>7
  <2>. QED  BY <1>1, <1>4, <1>5, <1>6, <2>1, <2>2, <2>3, <2>4 DEF Move
<1>. QED  BY <1>1, <1>9, MoveOnce

LEMMA PostOnce ==
    ASSUME TypeOK, TypeOK', OnceInv, NEW id \in Requests, NiThreadPosts(id)
    PROVE  OnceInv'
<1> DEFINE raw == thread[id].rawRequest
<1>1. /\ \A t \in Requests : t # id => thread'[t] = thread[t]
      /\ thread'[id].rawRequest = None
      /\ UNCHANGED <<requested, ni, ends>>
  BY PostEffect DEF outside, shown
<1>2. CASE raw = None
  <2>1. msgQ' = msgQ
    BY <1>2, PostEffect
  <2>2. \A i \in 1..Len(msgQ') : Carries(i)' => i + 0 \in 1..Len(msgQ) /\ msgQ'[i] = msgQ[i + 0]
    BY <2>1, Types1
  <2>. QED  BY <1>1, <2>2, StaysOnce
<1>3. CASE raw # None
  <2>1. PICK m \in Message : m.type = "inform" /\ m.data = raw /\ msgQ' = Append(msgQ, m)
    BY <1>3, PostEffect
  <2>2. /\ raw \in Requests /\ raw <= requested /\ requested <= requested /\ ends[raw] = <<>>
        /\ \A t \in Requests : thread[t].rawRequest = raw => t = id
    BY <1>3, Types1 DEF OnceInv, ThreadInv
  <2>3. \A t \in Sessions : ni[t].rawRequest # raw
    BY <1>3, <2>2 DEF OnceInv, SessionInv
  <2>4. \A i \in 1..Len(msgQ) : Carries(i) => msgQ[i].data # raw
    BY <1>3, <2>2 DEF OnceInv, MsgInv
  <2>5. \A i \in 1..Len(msgQ') : Carries(i)' =>
            \/ i + 0 \in 1..Len(msgQ) /\ msgQ'[i] = msgQ[i + 0] /\ msgQ'[i].data # raw
            \/ i = Len(msgQ') /\ msgQ'[i].data = raw
    BY <2>1, <2>4, QueueGrows DEF Carries
  <2> HIDE DEF raw
  <2>6. Move(raw, 0, "message", None, None)
    BY <1>1, <2>2, <2>3, <2>5 DEF Move
  <2>. QED  BY <2>2, <2>6, MoveOnce
<1>. QED  BY <1>2, <1>3

LEMMA ThreadOnce ==
    ASSUME TypeOK, TypeOK', OnceInv, NEW id \in Requests, NiThread(id)
    PROVE  OnceInv'
<1>1. ni[thread[id].of].resp \in Response
  BY Types1
<1>2. CASE \E resp \in Response : Conclude(id, resp)
  BY <1>2, ConcludeOnce
<1>3. CASE (NiThreadStarts(id) /\ ~ni[thread[id].of].respRecvd) \/ NiThreadClearsReqID(id)
  <2>1. /\ \A t \in Sessions : ni'[t].rawRequest = ni[t].rawRequest
        /\ \A t \in Requests : thread'[t].rawRequest = thread[t].rawRequest
        /\ UNCHANGED <<requested, msgQ, ends>>
    BY <1>3, OtherThreadEffect DEF outside, shown
  <2>2. \A i \in 1..Len(msgQ') : Carries(i)' => i + 0 \in 1..Len(msgQ) /\ msgQ'[i] = msgQ[i + 0]
    BY <2>1, Types1
  <2>. QED  BY <2>1, <2>2, StaysOnce
<1>4. NiThreadStarts(id) /\ ni[thread[id].of].respRecvd => \E resp \in Response : Conclude(id, resp)
  BY <1>1 DEF NiThreadStarts
<1>5. NiThreadWakes(id) \/ NiThreadTimesOut(id) => \E resp \in Response : Conclude(id, resp)
  BY <1>1 DEF NiThreadWakes, NiThreadTimesOut, Response
<1>. QED  BY <1>2, <1>3, <1>4, <1>5, PostOnce DEF NiThread

LEMMA HandleNotifyOnce ==
    ASSUME TypeInv, TypeOK', OnceInv, HandleNotify
    PROVE  OnceInv'
<1> DEFINE m == Head(msgQ)
           s == IF m.ni = "emergency" THEN "sessionEs" ELSE "session"
<1>1. /\ Taking /\ m.type = "notify" /\ UNCHANGED requested
      /\ \/ RequestNiNotify(m)
         \/ /\ \/ Inform(m.data, "DENY") \/ Inform(m.data, "ACCEPT")
            /\ UNCHANGED <<ni, thread>>
  BY DEF HandleNotify
<1>2. /\ TypeOK /\ msgQ # <<>> /\ msgQ' = Tail(msgQ) /\ m = msgQ[1] /\ 1 \in 1..Len(msgQ)
      /\ \A i \in 1..Len(msgQ') : i + 1 \in 1..Len(msgQ) /\ i + 1 # 1 /\ msgQ'[i] = msgQ[i + 1]
  BY <1>1, QueueShrinks DEF Taking, TypeInv
<1>3. s \in Sessions /\ m.data \in Requests /\ reqIDCounter + 1 \in Requests /\ Carries(1)
  BY <1>1, <1>2, NextID DEF Sessions, Carries
<1>4. CASE Save(s, m.data)
  <2> DEFINE r == m.data
  <2>1. /\ \A t \in Sessions : t # s => ni'[t] = ni[t]
        /\ ni'[s].rawRequest = r /\ ends' = ends /\ thread' = thread
    BY <1>2, <1>3, <1>4, SaveEffect
  <2>2. /\ r <= requested /\ requested <= requested /\ ends[r] = <<>>
        /\ \A t \in Sessions : ni[t].rawRequest # r
        /\ \A t \in Requests : thread[t].rawRequest # r
    BY <1>2, <1>3, Types1 DEF OnceInv, MsgInv
  <2>3. \A i \in 1..Len(msgQ') : Carries(i)' => msgQ'[i].data # r
    <3>1. \A i \in 1..Len(msgQ) : Carries(i) /\ msgQ[i].data = r => i = 1
      BY <1>2, <1>3 DEF OnceInv, MsgInv
    <3>. QED  BY <1>2, <3>1 DEF Carries
  <2>4. r \in Requests
    BY <1>3
  <2> HIDE DEF r, s
  <2>5. Move(r, 1, "session", s, None)
    BY <1>1, <1>2, <2>1, <2>2, <2>3 DEF Move
  <2>. QED  BY <1>2, <2>4, <2>5, MoveOnce
<1>5. CASE /\ \E response \in Response \union {"freed"} :
                  ends' = [ends EXCEPT ![m.data] = Append(@, response)]
           /\ UNCHANGED <<ni, thread>>
  BY <1>1, <1>2, <1>3, <1>5, HeadEndsOnce
<1>6. CASE UNCHANGED <<ni, thread, ends>>
  <2>1. /\ \A i \in 1..Len(msgQ') : Carries(i)' => i + 1 \in 1..Len(msgQ) /\ msgQ'[i] = msgQ[i + 1]
        /\ \A t \in Sessions : ni'[t].rawRequest = ni[t].rawRequest
        /\ \A t \in Requests : thread'[t].rawRequest \in {None, thread[t].rawRequest}
    BY <1>2, <1>6
  <2>. QED  BY <1>1, <1>2, <1>6, <2>1, StaysOnce
<1>7. {"DENY", "ACCEPT", "freed"} \subseteq Response \union {"freed"}
  BY DEF Response
<1>8. ASSUME RequestNiNotify(m) PROVE OnceInv'
  BY <1>4, <1>5, <1>6, <1>7, <1>8 DEF RequestNiNotify, Inform
<1>9. ASSUME Inform(m.data, "DENY") \/ Inform(m.data, "ACCEPT"), UNCHANGED <<ni, thread>>
      PROVE  OnceInv'
  BY <1>5, <1>7, <1>9 DEF Inform
<1>. QED  BY <1>1, <1>8, <1>9

LEMMA AdapterOnce ==
    ASSUME TypeInv, TypeOK', OnceInv, Adapter
    PROVE  OnceInv'
<1>1. TypeOK /\ adapter \in Handler /\ HandlerInv
  BY DEF TypeInv, TypeOK
<1>2. CASE HandleRespond
  <2>1. /\ msgQ # <<>> /\ msgQ' = Tail(msgQ) /\ UNCHANGED <<requested, ni, thread, ends>>
    BY <1>2 DEF HandleRespond, Taking, outside, shown
  <2>2. /\ \A i \in 1..Len(msgQ') : Carries(i)' => i + 1 \in 1..Len(msgQ) /\ msgQ'[i] = msgQ[i + 1]
        /\ \A t \in Sessions : ni'[t].rawRequest = ni[t].rawRequest
        /\ \A t \in Requests : thread'[t].rawRequest \in {None, thread[t].rawRequest}
    BY <1>1, <2>1, QueueShrinks
  <2>. QED  BY <1>1, <2>1, <2>2, StaysOnce
<1>3. CASE HandleInform
  <2>1. /\ msgQ # <<>> /\ msgQ' = Tail(msgQ) /\ UNCHANGED <<requested, ni, thread>>
        /\ Head(msgQ).type = "inform" /\ Inform(Head(msgQ).data, Head(msgQ).response)
    BY <1>3 DEF HandleInform, Taking, outside, shown
  <2>2. Head(msgQ) = msgQ[1] /\ Carries(1) /\ Head(msgQ).response \in Response
    BY <1>1, <2>1, QueueShrinks, MessageFields DEF Carries
  <2>. QED  BY <1>1, <2>1, <2>2, HeadEndsOnce DEF Inform
<1>4. CASE AfterAccepted \/ (\E s \in Sessions, resp \in Response : SetResponse(s, resp))
  <2>1. /\ UNCHANGED <<requested, ends, msgQ, thread>>
        /\ \A t \in Sessions : ni'[t].rawRequest = ni[t].rawRequest
    BY <1>1, <1>4, AnswerEffect DEF AfterAccepted, outside, shown
  <2>2. /\ \A i \in 1..Len(msgQ') : Carries(i)' => i + 0 \in 1..Len(msgQ) /\ msgQ'[i] = msgQ[i + 0]
        /\ \A t \in Requests : thread'[t].rawRequest \in {None, thread[t].rawRequest}
    BY <1>1, <2>1, Types1
  <2>. QED  BY <1>1, <2>1, <2>2, StaysOnce
<1>5. IgnoreOther => \E s \in Sessions, resp \in Response : SetResponse(s, resp)
  BY DEF IgnoreOther, Sessions, Response
<1>6. SendUserResponse => \E s \in Sessions, resp \in Response : SetResponse(s, resp)
  BY <1>1 DEF SendUserResponse, HandlerInv, Handler
<1>7. CASE ShowNotification
  <2>1. /\ UNCHANGED <<requested, ends, msgQ, ni>>
        /\ \A t \in Requests : thread'[t].rawRequest \in {None, thread[t].rawRequest}
    BY <1>7, ShowEffect
  <2>2. /\ \A i \in 1..Len(msgQ') : Carries(i)' => i + 0 \in 1..Len(msgQ) /\ msgQ'[i] = msgQ[i + 0]
        /\ \A t \in Sessions : ni'[t].rawRequest = ni[t].rawRequest
    BY <1>1, <2>1, Types1
  <2>. QED  BY <1>1, <2>1, <2>2, StaysOnce
<1>. QED  BY <1>2, <1>3, <1>4, <1>5, <1>6, <1>7, HandleNotifyOnce DEF Adapter

LEMMA OutsideOnce ==
    ASSUME TypeInv, TypeOK', OnceInv,
           \/ \E type \in Types, inEmergency \in BOOLEAN : Notify(type, inEmergency)
           \/ \E n \in notified, response \in {"ACCEPT", "DENY"} : UserResponds(n, response)
           \/ ClientsChange
    PROVE  OnceInv'
<1>1. TypeOK
  BY DEF TypeInv
<1>2. ASSUME NEW type \in Types, NEW inEmergency \in BOOLEAN, Notify(type, inEmergency)
      PROVE  OnceInv'
  <2> DEFINE r == requested + 1
             m == [type |-> "notify", ni |-> type, data |-> requested', inEmergency |-> inEmergency]
  <2>1. /\ requested' = r /\ r \in Requests /\ requested \in Nat /\ UNCHANGED <<ni, thread, ends>>
    BY <1>1, <1>2 DEF Notify, TypeOK, Requests
  <2>2. m \in Message /\ m.data = r /\ msgQ' = Append(msgQ, m)
    BY <1>2, <2>1 DEF Notify, Message
  <2>3. ~(r <= requested) /\ requested < r
    BY <2>1
  <2>4. /\ ends[r] = <<>>
        /\ \A t \in Sessions : ni[t].rawRequest # None => ni[t].rawRequest # r
        /\ \A t \in Requests : thread[t].rawRequest # None => thread[t].rawRequest # r
        /\ \A i \in 1..Len(msgQ) : Carries(i) => msgQ[i].data # r
    BY <2>1, <2>3 DEF OnceInv, EndInv, MsgInv, SessionInv, ThreadInv
  <2>5. \A i \in 1..Len(msgQ') : Carries(i)' =>
            \/ i + 0 \in 1..Len(msgQ) /\ msgQ'[i] = msgQ[i + 0] /\ msgQ'[i].data # r
            \/ i = Len(msgQ') /\ msgQ'[i].data = r
    <3> HIDE DEF m
    <3>. QED  BY <1>1, <2>2, <2>4, QueueGrows DEF Carries
  <2>6. requested <= requested' /\ r <= requested'
    BY <2>1
  <2> HIDE DEF r
  <2>7. Move(r, 0, "message", None, None)
    BY <2>1, <2>4, <2>5, <2>6 DEF Move
  <2>. QED  BY <1>1, <2>1, <2>7, MoveOnce
<1>3. ASSUME NEW n \in notified, NEW response \in {"ACCEPT", "DENY"}, UserResponds(n, response)
      PROVE  OnceInv'
  <2> DEFINE m == [type |-> "respond", id |-> n.id, response |-> response]
  <2>1. m \in Message /\ m.type = "respond" /\ msgQ' = Append(msgQ, m)
    BY <1>1, <1>3 DEF TypeOK, Message, UserResponds
  <2>2. UNCHANGED <<requested, ends, ni, thread>>
    BY <1>3 DEF UserResponds
  <2> HIDE DEF m
  <2>3. \A i \in 1..Len(msgQ') : Carries(i)' => i + 0 \in 1..Len(msgQ) /\ msgQ'[i] = msgQ[i + 0]
    BY <1>1, <2>1, QueueGrows DEF Carries
  <2>4. /\ \A t \in Sessions : ni'[t].rawRequest = ni[t].rawRequest
        /\ \A t \in Requests : thread'[t].rawRequest \in {None, thread[t].rawRequest}
    BY <2>2
  <2>. QED  BY <1>1, <2>2, <2>3, <2>4, StaysOnce
<1>4. CASE ClientsChange
  <2>1. UNCHANGED <<requested, ends, ni, thread, msgQ>>
    BY <1>4 DEF ClientsChange
  <2>. QED  BY <2>1 DEF OnceInv, MsgInv, SessionInv, ThreadInv, EndInv, Carries
<1>. QED  BY <1>2, <1>3, <1>4

LEMMA InitOnce == ASSUME Init PROVE OnceInv
<1>1. /\ Len(msgQ) = 0 /\ \A r \in Requests : ends[r] = <<>> /\ Len(ends[r]) = 0
  BY DEF Init
<1>2. /\ \A s \in Sessions : ni[s].rawRequest = None
      /\ \A id \in Requests : thread[id].rawRequest = None
  BY DEF Init, NoThread
<1>. QED  BY <1>1, <1>2 DEF OnceInv, MsgInv, SessionInv, ThreadInv, EndInv

LEMMA NextOnce ==
    ASSUME TypeInv, OnceInv, [Next]_vars
    PROVE  OnceInv'
<1>1. TypeOK /\ TypeOK'
  BY NextType DEF TypeInv
<1>2. CASE UNCHANGED vars
  BY <1>2 DEF vars, OnceInv, MsgInv, SessionInv, ThreadInv, EndInv, Carries
<1>3. CASE Next
  BY <1>1, <1>3, OutsideOnce, ThreadOnce, AdapterOnce DEF Next
<1>. QED  BY <1>2, <1>3

(* No request is answered, or its memory freed, twice, however many         *)
(* requests there are and however their threads, the handler and the user   *)
(* meet: a request is in one place, and leaves it when it goes to another.  *)
THEOREM AnsweredOnceAlways == Spec => []AnsweredOnce
<1>1. Init => TypeInv /\ OnceInv
  BY InitType, InitOnce
<1>2. TypeInv /\ OnceInv /\ [Next]_vars => (TypeInv /\ OnceInv)'
  BY NextType, NextOnce
<1>3. TypeInv /\ OnceInv => AnsweredOnce
  BY DEF OnceInv, EndInv, AnsweredOnce
<1>. QED  BY <1>1, <1>2, <1>3, PTL DEF Spec

-----------------------------------------------------------------------------
(* The user's decision *)

\* Messages of a type stay in the queue, k places nearer to its head.
Stay(type, k) ==
    \A i \in 1..Len(msgQ') : msgQ'[i].type = type => i + k \in 1..Len(msgQ) /\ msgQ'[i] = msgQ[i + k]

\* No session gets another request or another request ID.
Settled ==
    \A t \in Sessions : /\ ni'[t].rawRequest \in {None, ni[t].rawRequest}
                        /\ ni'[t].reqID \in {0, ni[t].reqID}

LEMMA StayShrinks ==
    ASSUME TypeOK, msgQ # <<>>, msgQ' = Tail(msgQ), NEW type
    PROVE  Stay(type, 1)
BY QueueShrinks DEF Stay

LEMMA StayGrows ==
    ASSUME TypeOK, NEW m \in Message, msgQ' = Append(msgQ, m), NEW type, m.type # type
    PROVE  Stay(type, 0)
BY QueueGrows DEF Stay

LEMMA StaySame ==
    ASSUME TypeOK, msgQ' = msgQ, NEW type
    PROVE  Stay(type, 0)
BY Types1 DEF Stay

LEMMA NotifiedStays ==
    ASSUME TypeOK, NotifiedInv, NEW k \in {0, 1}, Stay("notify", k), Settled,
           UNCHANGED <<notified, saved, user, reqIDCounter, requested>>
    PROVE  NotifiedInv'
<1>1. ASSUME NEW n \in notified
      PROVE  /\ n.request \in saved /\ user[n.request] = "silent"
             /\ n.id # 0 /\ n.id <= reqIDCounter
             /\ \A s \in Sessions : ni'[s].rawRequest # None /\ ni'[s].reqID = n.id
                                        => ni'[s].rawRequest = n.request
             /\ \A n2 \in notified : n2.request = n.request => n2 = n
  <2>1. n.id # 0
    BY DEF NotifiedInv
  <2>. QED  BY <2>1 DEF NotifiedInv, Settled
<1>2. \A s \in Sessions : ni'[s].reqID <= reqIDCounter
  <2>1. reqIDCounter \in Nat
    BY DEF TypeOK
  <2>2. \A s \in Sessions : ni[s].reqID <= reqIDCounter /\ 0 <= reqIDCounter
    BY <2>1 DEF NotifiedInv
  <2>. QED  BY <2>2 DEF Settled
<1>3. \A i \in 1..Len(msgQ') : msgQ'[i].type = "notify" => msgQ'[i].data \notin saved
  BY DEF NotifiedInv, Stay
<1>4. (\A r \in Requests : user[r] # "silent" => r \in saved) /\ (\A r \in saved : r <= requested)
  BY DEF NotifiedInv
<1>. QED  BY <1>1, <1>2, <1>3, <1>4 DEF NotifiedInv

LEMMA RespondStays ==
    ASSUME TypeOK, RespondInv, NEW k \in {0, 1}, Stay("respond", k), Settled,
           UNCHANGED <<user, reqIDCounter>>,
           adapter'.at # "idle" /\ adapter'.of \in Sessions =>
               adapter.at # "idle" /\ adapter'.of = adapter.of /\ adapter'.resp = adapter.resp
    PROVE  RespondInv'
<1>1. \A s \in Sessions : AcceptedBy(s) => AcceptedBy(s)'
  BY DEF AcceptedBy, Settled
<1>2. ASSUME NEW i \in 1..Len(msgQ'), msgQ'[i].type = "respond"
      PROVE  /\ msgQ'[i].id # 0 /\ msgQ'[i].id <= reqIDCounter
             /\ msgQ'[i].response = "ACCEPT" =>
                    \A s \in Sessions : ni'[s].reqID = msgQ'[i].id => AcceptedBy(s)'
  <2>1. i + k \in 1..Len(msgQ) /\ msgQ'[i] = msgQ[i + k]
    BY <1>2 DEF Stay
  <2>2. msgQ'[i].id # 0
    BY <1>2, <2>1 DEF RespondInv
  <2>3. \A s \in Sessions : ni'[s].reqID = msgQ'[i].id => ni[s].reqID = msgQ[i + k].id
    BY <2>1, <2>2 DEF Settled
  <2>. QED  BY <1>1, <1>2, <2>1, <2>2, <2>3 DEF RespondInv
<1>3. adapter'.at # "idle" /\ adapter'.of \in Sessions /\ adapter'.resp = "ACCEPT"
          => AcceptedBy(adapter.of)'
  <2>1. ASSUME adapter'.at # "idle", adapter'.of \in Sessions, adapter'.resp = "ACCEPT"
        PROVE  AcceptedBy(adapter.of)'
    <3>1. AcceptedBy(adapter.of) /\ adapter'.of = adapter.of
      BY <2>1 DEF RespondInv
    <3>. QED  BY <2>1, <3>1 DEF AcceptedBy, Settled
  <2>. QED  BY <2>1
<1>. QED  BY <1>2, <1>3 DEF RespondInv, AcceptedBy

LEMMA ShowStays ==
    ASSUME HandlerInv, ShowInv, Settled, UNCHANGED <<notified, saved, user>>,
           adapter'.at = "saved" => adapter' = adapter
    PROVE  ShowInv'
<1>1. ASSUME adapter'.at = "saved", NEW t \in Sessions, ni'[t].rawRequest # None,
             ni'[adapter.of].reqID # 0, ni'[t].reqID = ni'[adapter.of].reqID
      PROVE  ni'[t].rawRequest = adapter.data
  <2>1. adapter.of \in Sessions /\ adapter.at = "saved"
    BY <1>1 DEF HandlerInv
  <2>2. /\ ni[t].rawRequest = ni'[t].rawRequest /\ ni[t].reqID = ni'[t].reqID
        /\ ni[adapter.of].reqID = ni'[adapter.of].reqID
    BY <1>1, <2>1 DEF Settled
  <2>. QED  BY <1>1, <2>1, <2>2 DEF ShowInv
<1>. QED  BY <1>1 DEF ShowInv

LEMMA ResponseStays ==
    ASSUME TypeOK, ResponseInv, NEW k \in {0, 1}, Stay("inform", k),
           \A x \in Requests : user[x] = "ACCEPT" => user'[x] = "ACCEPT",
           \A t \in Sessions : /\ ni'[t].rawRequest = ni[t].rawRequest
                               /\ ni'[t].resp = ni[t].resp /\ ni'[t].respRecvd = ni[t].respRecvd,
           \A t \in Requests : thread'[t].rawRequest # None =>
               thread'[t].rawRequest = thread[t].rawRequest /\ thread'[t].resp = thread[t].resp,
           \A r \in saved' : r \in saved /\ ends'[r] = ends[r]
    PROVE  ResponseInv'
<1>1. \A s \in Sessions : AcceptedBy(s) => AcceptedBy(s)'
  BY Types1 DEF AcceptedBy
<1>2. /\ \A s \in Sessions : ni'[s].rawRequest = None => ~ni'[s].respRecvd
      /\ \A s \in Sessions : ni'[s].respRecvd /\ ni'[s].resp = "ACCEPT" => AcceptedBy(s)'
  BY <1>1 DEF ResponseInv
<1>3. \A id \in Requests : thread'[id].rawRequest # None /\ thread'[id].resp = "ACCEPT"
                               => user'[thread'[id].rawRequest] = "ACCEPT"
  BY Types1 DEF ResponseInv
<1>4. ASSUME NEW i \in 1..Len(msgQ'), msgQ'[i].type = "inform", msgQ'[i].response = "ACCEPT"
      PROVE  user'[msgQ'[i].data] = "ACCEPT"
  <2>1. i + k \in 1..Len(msgQ) /\ msgQ'[i] = msgQ[i + k]
    BY <1>4 DEF Stay
  <2>2. msgQ[i + k].data \in Requests
    BY <1>4, <2>1, Types1 DEF Carries
  <2>. QED  BY <1>4, <2>1, <2>2 DEF ResponseInv
<1>5. UserDecides'
  <2>1. ASSUME NEW r \in saved', ends'[r] = <<"ACCEPT">>
        PROVE  user'[r] = "ACCEPT"
    <3>1. r \in saved /\ r \in Requests /\ ends[r] = <<"ACCEPT">>
      BY <2>1 DEF TypeOK
    <3>2. user[r] = "ACCEPT"
      BY <3>1 DEF ResponseInv, UserDecides, Decided
    <3>. QED  BY <3>1, <3>2
  <2>. QED  BY <2>1 DEF UserDecides, Decided
<1> HIDE DEF Stay
<1>. QED  BY <1>2, <1>3, <1>4, <1>5, Zenon DEF ResponseInv

\* A thread concludes with a response only if it is the session's, or nobody's.
LEMMA ConcludeDecides ==
    ASSUME TypeOK, HandlerInv, OnceInv, DecideInv, NEW id \in Requests, NEW resp \in Response, Conclude(id, resp),
           resp = "NO_RESPONSE" \/ (ni[thread[id].of].respRecvd /\ resp = ni[thread[id].of].resp)
    PROVE  DecideInv'
<1> DEFINE s == thread[id].of
           raw == ni[s].rawRequest
<1>1. /\ s \in Sessions /\ raw \in {None} \union Requests
      /\ \A t \in Sessions : t # s => ni'[t] = ni[t]
      /\ ni'[s].rawRequest = None /\ ni'[s].reqID = ni[s].reqID /\ ni'[s].respRecvd = FALSE
      /\ \A t \in Requests : t # id => thread'[t] = thread[t]
      /\ thread'[id].rawRequest = IF resp = "IGNORE" THEN None ELSE raw
      /\ thread'[id].resp = resp
  BY ConcludeEffect
<1>2. UNCHANGED <<requested, notified, user, reqIDCounter, adapter, msgQ, saved, stray>>
  BY ConcludeEffect DEF outside, shown
<1>3. /\ raw # None /\ resp = "IGNORE" => ends' = [ends EXCEPT ![raw] = Append(@, "freed")]
      /\ raw = None \/ resp # "IGNORE" => ends' = ends
  BY ConcludeEffect
<1>4. Settled
  BY <1>1 DEF Settled
<1>5. Stay("notify", 0) /\ Stay("respond", 0)
  BY <1>2, StaySame
<1>6. NotifiedInv' /\ RespondInv' /\ ShowInv'
  BY <1>2, <1>4, <1>5, NotifiedStays, RespondStays, ShowStays DEF DecideInv
<1>7. ASSUME ~stray PROVE ResponseInv'
  <2>1. ResponseInv
    BY <1>7 DEF DecideInv
  <2>2. resp = "ACCEPT" => AcceptedBy(s)
    BY <1>1, <2>1 DEF ResponseInv
  <2>3. /\ \A t \in Sessions : ni'[t].rawRequest = None => ~ni'[t].respRecvd
        /\ \A t \in Sessions : ni'[t].respRecvd /\ ni'[t].resp = "ACCEPT" => AcceptedBy(t)'
    BY <1>1, <1>2, <2>1 DEF ResponseInv, AcceptedBy
  <2>4. \A t \in Requests : thread'[t].rawRequest # None /\ thread'[t].resp = "ACCEPT"
                                => user'[thread'[t].rawRequest] = "ACCEPT"
    BY <1>1, <1>2, <2>1, <2>2 DEF ResponseInv, AcceptedBy
  <2>5. \A i \in 1..Len(msgQ') : msgQ'[i].type = "inform" /\ msgQ'[i].response = "ACCEPT"
                                     => user'[msgQ'[i].data] = "ACCEPT"
    BY <1>2, <2>1 DEF ResponseInv
  <2>6. UserDecides'
    <3>1. ASSUME NEW r \in saved, ends'[r] = <<"ACCEPT">> PROVE user[r] = "ACCEPT"
      <4>1. ends[r] = <<"ACCEPT">>
        <5>1. CASE raw # None /\ resp = "IGNORE"
          <6>1. ends[raw] = <<>> /\ ends \in [Requests -> Seq(Response \union {"freed"})] /\ r \in Requests
            BY <1>1, <5>1 DEF OnceInv, SessionInv, TypeOK
          <6>2. Append(<<>>, "freed") # <<"ACCEPT">>
            OBVIOUS
          <6>3. ends' = [ends EXCEPT ![raw] = Append(@, "freed")] /\ raw \in Requests
            BY <1>1, <1>3, <5>1
          <6> HIDE DEF raw
          <6>4. r # raw
            BY <3>1, <6>1, <6>2, <6>3
          <6>. QED  BY <3>1, <6>1, <6>3, <6>4
        <5>2. CASE ~(raw # None /\ resp = "IGNORE")
          BY <1>3, <3>1, <5>2
        <5>. QED  BY <5>1, <5>2
      <4>. QED  BY <2>1, <4>1 DEF ResponseInv, UserDecides, Decided
    <3>. QED  BY <1>2, <3>1 DEF UserDecides, Decided
  <2>. QED  BY <2>3, <2>4, <2>5, <2>6, Zenon DEF ResponseInv
<1>. QED  BY <1>2, <1>6, <1>7 DEF DecideInv

LEMMA PostDecides ==
    ASSUME TypeOK, HandlerInv, DecideInv, NEW id \in Requests, NiThreadPosts(id)
    PROVE  DecideInv'
<1> DEFINE raw == thread[id].rawRequest
<1>1. /\ \A t \in Requests : t # id => thread'[t] = thread[t]
      /\ thread'[id].rawRequest = None
      /\ UNCHANGED <<requested, notified, user, ni, reqIDCounter, adapter, saved, ends, stray>>
  BY PostEffect DEF outside, shown
<1>2. Settled
  BY <1>1 DEF Settled
<1>3. /\ \A x \in Requests : user[x] = "ACCEPT" => user'[x] = "ACCEPT"
      /\ \A t \in Sessions : /\ ni'[t].rawRequest = ni[t].rawRequest
                             /\ ni'[t].resp = ni[t].resp /\ ni'[t].respRecvd = ni[t].respRecvd
      /\ \A t \in Requests : thread'[t].rawRequest # None =>
             thread'[t].rawRequest = thread[t].rawRequest /\ thread'[t].resp = thread[t].resp
      /\ \A r \in saved' : r \in saved /\ ends'[r] = ends[r]
  BY <1>1
<1>4. CASE raw = None
  <2>1. Stay("notify", 0) /\ Stay("respond", 0) /\ Stay("inform", 0)
    BY <1>4, PostEffect, StaySame
  <2>. QED  BY <1>1, <1>2, <1>3, <2>1, NotifiedStays, RespondStays, ShowStays, ResponseStays DEF DecideInv
<1>5. CASE raw # None
  <2>1. PICK m \in Message : /\ m.type = "inform" /\ m.response = thread[id].resp
                             /\ m.data = raw /\ msgQ' = Append(msgQ, m)
    BY <1>5, PostEffect
  <2>2. Stay("notify", 0) /\ Stay("respond", 0)
    BY <2>1, StayGrows
  <2>3. NotifiedInv' /\ RespondInv' /\ ShowInv'
    BY <1>1, <1>2, <2>2, NotifiedStays, RespondStays, ShowStays DEF DecideInv
  <2>4. ASSUME ~stray PROVE ResponseInv'
    <3>1. ResponseInv
      BY <2>4 DEF DecideInv
    <3>2. \A i \in 1..Len(msgQ') : i = Len(msgQ') \/ (i \in 1..Len(msgQ) /\ msgQ'[i] = msgQ[i])
      BY <2>1, QueueGrows
    <3>3. msgQ'[Len(msgQ')] = m
      BY <2>1, QueueGrows
    <3>4. m.response = "ACCEPT" => user[m.data] = "ACCEPT"
      BY <1>5, <2>1, <3>1 DEF ResponseInv
    <3>5. \A i \in 1..Len(msgQ') : msgQ'[i].type = "inform" /\ msgQ'[i].response = "ACCEPT"
                                       => user'[msgQ'[i].data] = "ACCEPT"
      BY <1>1, <3>1, <3>2, <3>3, <3>4 DEF ResponseInv
    <3>6. /\ \A s \in Sessions : ni'[s].rawRequest = None => ~ni'[s].respRecvd
          /\ \A s \in Sessions : ni'[s].respRecvd /\ ni'[s].resp = "ACCEPT" => AcceptedBy(s)'
      BY <1>1, <3>1 DEF ResponseInv, AcceptedBy
    <3>7. \A t \in Requests : thread'[t].rawRequest # None /\ thread'[t].resp = "ACCEPT"
                                  => user'[thread'[t].rawRequest] = "ACCEPT"
      BY <1>1, <3>1 DEF ResponseInv
    <3>8. UserDecides'
      BY <1>1, <3>1 DEF ResponseInv, UserDecides, Decided
    <3>. QED  BY <3>5, <3>6, <3>7, <3>8, Zenon DEF ResponseInv
  <2>. QED  BY <1>1, <2>3, <2>4 DEF DecideInv
<1>. QED  BY <1>4, <1>5

LEMMA ThreadDecides ==
    ASSUME TypeOK, HandlerInv, OnceInv, DecideInv, NEW id \in Requests, NiThread(id)
    PROVE  DecideInv'
<1> DEFINE s == thread[id].of
<1>1. ni[s].resp \in Response /\ "NO_RESPONSE" \in Response
  BY Types1 DEF Response
<1>2. CASE \E resp \in Response :
              Conclude(id, resp) /\ (resp = "NO_RESPONSE" \/ (ni[s].respRecvd /\ resp = ni[s].resp))
  BY <1>2, ConcludeDecides
<1>3. CASE (NiThreadStarts(id) /\ ~ni[s].respRecvd) \/ NiThreadClearsReqID(id)
  <2>1. /\ \A t \in Sessions : /\ ni'[t].rawRequest = ni[t].rawRequest
                               /\ ni'[t].reqID \in {0, ni[t].reqID}
                               /\ ni'[t].resp = ni[t].resp /\ ni'[t].respRecvd = ni[t].respRecvd
        /\ \A t \in Requests : /\ thread'[t].rawRequest = thread[t].rawRequest
                               /\ thread'[t].resp = thread[t].resp
        /\ UNCHANGED <<requested, notified, user, reqIDCounter, adapter, msgQ, saved, ends, stray>>
    BY <1>3, OtherThreadEffect DEF outside, shown
  <2>2. Stay("notify", 0) /\ Stay("respond", 0) /\ Stay("inform", 0)
    BY <2>1, StaySame
  <2>3. Settled
    BY <2>1 DEF Settled
  <2>4. NotifiedInv' /\ RespondInv' /\ ShowInv'
    BY <2>1, <2>2, <2>3, NotifiedStays, RespondStays, ShowStays DEF DecideInv
  <2>5. ~stray => ResponseInv'
    BY <2>1, <2>2, ResponseStays DEF DecideInv
  <2>. QED  BY <2>1, <2>4, <2>5 DEF DecideInv
<1>4. NiThreadStarts(id) /\ ni[s].respRecvd => Conclude(id, ni[s].resp)
  BY DEF NiThreadStarts
<1>5. /\ NiThreadWakes(id) => ni[s].respRecvd /\ Conclude(id, ni[s].resp)
      /\ NiThreadTimesOut(id) => Conclude(id, "NO_RESPONSE")
  BY DEF NiThreadWakes, NiThreadTimesOut
<1>. QED  BY <1>1, <1>2, <1>3, <1>4, <1>5, PostDecides DEF NiThread

LEMMA NotifyDecides ==
    ASSUME TypeOK, HandlerInv, DecideInv,
           NEW type \in Types, NEW inEmergency \in BOOLEAN, Notify(type, inEmergency)
    PROVE  DecideInv'
<1> DEFINE m == [type |-> "notify", ni |-> type, data |-> requested', inEmergency |-> inEmergency]
<1>1. /\ requested' = requested + 1 /\ requested' \in Requests /\ requested \in Nat
      /\ UNCHANGED <<ni, reqIDCounter, thread, adapter, notified, saved, user, ends, stray>>
  BY DEF Notify, TypeOK, Requests, shown
<1>2. m \in Message /\ m.type = "notify" /\ m.data = requested' /\ msgQ' = Append(msgQ, m)
  BY <1>1 DEF Notify, Message
<1> HIDE DEF m
<1>3. Stay("respond", 0) /\ Stay("inform", 0)
  BY <1>2, StayGrows
<1>4. Settled
  BY <1>1 DEF Settled
<1>5. RespondInv' /\ ShowInv' /\ (~stray => ResponseInv')
  BY <1>1, <1>3, <1>4, RespondStays, ShowStays, ResponseStays DEF DecideInv
<1>6. NotifiedInv'
  <2>1. /\ \A i \in 1..Len(msgQ') : i = Len(msgQ') \/ (i \in 1..Len(msgQ) /\ msgQ'[i] = msgQ[i])
        /\ msgQ'[Len(msgQ')] = m
    BY <1>2, QueueGrows
  <2>2. NotifiedInv
    BY DEF DecideInv
  <2>3. (\A r \in saved : r <= requested) /\ saved \subseteq Requests
    BY <2>2 DEF NotifiedInv, TypeOK
  <2>4. requested' \notin saved /\ \A r \in saved : r <= requested'
    BY <1>1, <2>3 DEF Requests
  <2>5. \A i \in 1..Len(msgQ') : msgQ'[i].type = "notify" => msgQ'[i].data \notin saved
    BY <1>2, <2>1, <2>2, <2>4 DEF NotifiedInv
  <2>. QED  BY <1>1, <2>2, <2>4, <2>5 DEF NotifiedInv
<1>. QED  BY <1>1, <1>5, <1>6 DEF DecideInv

LEMMA UserRespondsDecides ==
    ASSUME TypeOK, HandlerInv, DecideInv,
           NEW n \in notified, NEW response \in {"ACCEPT", "DENY"}, UserResponds(n, response)
    PROVE  DecideInv'
<1> DEFINE m == [type |-> "respond", id |-> n.id, response |-> response]
<1>1. /\ notified' = notified \ {n} /\ user' = [user EXCEPT ![n.request] = response]
      /\ UNCHANGED <<ni, reqIDCounter, thread, adapter, requested, saved, ends, stray>>
  BY DEF UserResponds
<1>2. m \in Message /\ m.type = "respond" /\ m.id = n.id /\ m.response = response /\ msgQ' = Append(msgQ, m)
  BY DEF UserResponds, TypeOK, Message
<1> HIDE DEF m
<1>3. Stay("notify", 0) /\ Stay("inform", 0)
  BY <1>2, StayGrows
<1>4. Settled
  BY <1>1 DEF Settled
<1>5. NotifiedInv
  BY DEF DecideInv
<1>6. /\ n.id # 0 /\ n.id <= reqIDCounter /\ n.request \in Requests
      /\ n.request \in saved /\ user[n.request] = "silent"
  BY <1>5 DEF NotifiedInv, TypeOK
<1>7. /\ user'[n.request] = response
      /\ \A x \in Requests : x # n.request => user'[x] = user[x]
  BY <1>1, <1>6 DEF TypeOK
<1>8. \A x \in Requests : user[x] = "ACCEPT" => user'[x] = "ACCEPT"
  BY <1>6, <1>7
<1>9. ~stray => ResponseInv'
  BY <1>1, <1>3, <1>8, ResponseStays DEF DecideInv
<1>10. NotifiedInv'
  <2>1. ASSUME NEW n1 \in notified'
        PROVE  /\ n1.request \in saved /\ user'[n1.request] = "silent"
               /\ n1.id # 0 /\ n1.id <= reqIDCounter
               /\ \A s \in Sessions : ni[s].rawRequest # None /\ ni[s].reqID = n1.id
                                          => ni[s].rawRequest = n1.request
               /\ \A n2 \in notified' : n2.request = n1.request => n2 = n1
    <3>1. n1 \in notified /\ n1 # n /\ n1.request \in Requests
      BY <1>1 DEF TypeOK
    <3>2. n1.request # n.request
      BY <1>5, <3>1 DEF NotifiedInv
    <3>. QED  BY <1>1, <1>5, <1>7, <3>1, <3>2 DEF NotifiedInv
  <2>2. \A r \in Requests : user'[r] # "silent" => r \in saved
    BY <1>5, <1>6, <1>7 DEF NotifiedInv
  <2>3. \A i \in 1..Len(msgQ') : msgQ'[i].type = "notify" => msgQ'[i].data \notin saved
    BY <1>3, <1>5 DEF NotifiedInv, Stay
  <2>4. (\A s \in Sessions : ni[s].reqID <= reqIDCounter) /\ (\A r \in saved : r <= requested)
    BY <1>5 DEF NotifiedInv
  <2>. QED  BY <1>1, <2>1, <2>2, <2>3, <2>4 DEF NotifiedInv
<1>11. RespondInv'
  <2>1. \A s \in Sessions : AcceptedBy(s) => AcceptedBy(s)'
    BY <1>1, <1>8, Types1 DEF AcceptedBy
  <2>2. /\ \A i \in 1..Len(msgQ') : i = Len(msgQ') \/ (i \in 1..Len(msgQ) /\ msgQ'[i] = msgQ[i])
        /\ msgQ'[Len(msgQ')] = m
    BY <1>2, QueueGrows
  <2>3. response = "ACCEPT" => \A s \in Sessions : ni[s].reqID = n.id => AcceptedBy(s)'
    <3>1. \A s \in Sessions : ni[s].rawRequest # None /\ ni[s].reqID = n.id => ni[s].rawRequest = n.request
      BY <1>5 DEF NotifiedInv
    <3>. QED  BY <1>1, <1>7, <3>1 DEF AcceptedBy
  <2>4. ASSUME NEW i \in 1..Len(msgQ'), msgQ'[i].type = "respond"
        PROVE  /\ msgQ'[i].id # 0 /\ msgQ'[i].id <= reqIDCounter
               /\ msgQ'[i].response = "ACCEPT" =>
                      \A s \in Sessions : ni[s].reqID = msgQ'[i].id => AcceptedBy(s)'
    <3>1. CASE i = Len(msgQ')
      BY <1>2, <1>6, <2>2, <2>3, <3>1
    <3>2. CASE i \in 1..Len(msgQ) /\ msgQ'[i] = msgQ[i]
      BY <2>1, <2>4, <3>2 DEF DecideInv, RespondInv
    <3>. QED  BY <2>2, <3>1, <3>2
  <2>5. adapter.at # "idle" /\ adapter.of \in Sessions /\ adapter.resp = "ACCEPT"
            => AcceptedBy(adapter.of)'
    <3>1. ASSUME adapter.at # "idle", adapter.of \in Sessions, adapter.resp = "ACCEPT"
          PROVE  AcceptedBy(adapter.of)'
      <4>1. AcceptedBy(adapter.of)
        BY <3>1 DEF DecideInv, RespondInv
      <4>. QED  BY <1>1, <1>8, <3>1, <4>1, Types1 DEF AcceptedBy
    <3>. QED  BY <3>1
  <2>. QED  BY <1>1, <2>4, <2>5 DEF RespondInv
<1>12. ShowInv'
  <2>1. ASSUME adapter.at = "saved"
        PROVE  /\ user'[adapter.data] = "silent" /\ \A n1 \in notified' : n1.request # adapter.data
    <3>1. adapter.data \in Requests /\ n.request # adapter.data
      BY <2>1 DEF DecideInv, ShowInv, HandlerInv
    <3>. QED  BY <1>1, <1>7, <2>1, <3>1 DEF DecideInv, ShowInv
  <2>. QED  BY <1>1, <2>1 DEF DecideInv, ShowInv
<1>. QED  BY <1>1, <1>9, <1>10, <1>11, <1>12 DEF DecideInv

\* A new request gets a new ID: no message and no notification is about it.
LEMMA SaveDecides ==
    ASSUME TypeInv, DecideInv, msgQ # <<>>, msgQ' = Tail(msgQ), Head(msgQ).type = "notify",
           MsgInv, NEW s \in Sessions, ~Busy(s), Save(s, Head(msgQ).data),
           UNCHANGED <<requested, user, stray>>
    PROVE  DecideInv'
<1> DEFINE r == Head(msgQ).data
<1>1. /\ TypeOK /\ reqIDCounter \in Nat /\ reqIDCounter + 1 \in Requests /\ r \in Requests /\ r <= requested
      /\ r # None
  <2>1. reqIDCounter + 1 \in Requests /\ r \in Requests /\ r <= requested
    BY NextID
  <2>2. TypeOK /\ reqIDCounter \in Nat
    BY DEF TypeInv, TypeOK
  <2>3. None \notin Requests
    BY DEF Requests, None
  <2>. QED  BY <2>1, <2>2, <2>3, Zenon
<1>2. /\ \A t \in Sessions : t # s => ni'[t] = ni[t]
      /\ ni'[s].rawRequest = r /\ ni'[s].reqID = reqIDCounter + 1
      /\ ni'[s].resp = ni[s].resp /\ ni'[s].respRecvd = ni[s].respRecvd
      /\ reqIDCounter' = reqIDCounter + 1 /\ saved' = saved \union {r}
      /\ adapter'.at = "saved" /\ adapter'.of = s /\ adapter'.data = r /\ adapter'.resp = "DENY"
      /\ UNCHANGED <<thread, notified, ends>>
  BY <1>1, SaveEffect
<1>3. /\ Head(msgQ) = msgQ[1] /\ 1 \in 1..Len(msgQ)
      /\ \A i \in 1..Len(msgQ') : i + 1 \in 1..Len(msgQ) /\ i + 1 # 1 /\ msgQ'[i] = msgQ[i + 1]
  BY <1>1, QueueShrinks
<1>4. NotifiedInv /\ RespondInv
  BY DEF DecideInv
<1>5. r \notin saved /\ user[r] = "silent"
  BY <1>1, <1>3, <1>4 DEF NotifiedInv
<1>6. /\ \A t \in Sessions : ni[t].reqID <= reqIDCounter /\ ni[t].reqID # reqIDCounter + 1
      /\ \A n \in notified : n.id <= reqIDCounter + 1 /\ n.id # reqIDCounter + 1
  <2>1. /\ \A t \in Sessions : ni[t].reqID <= reqIDCounter /\ ni[t].reqID \in Nat
        /\ \A n \in notified : n.id <= reqIDCounter /\ n.id \in Nat
    BY <1>1, <1>4 DEF NotifiedInv, TypeOK, NiSession
  <2>. QED  BY <1>1, <2>1
<1>7. \A i \in 1..Len(msgQ') : msgQ'[i].type = "notify" => msgQ'[i].data # r
  <2>1. \A i \in 1..Len(msgQ) : Carries(i) /\ msgQ[i].data = r => i = 1
    BY <1>3 DEF MsgInv, Carries
  <2>. QED  BY <1>3, <2>1 DEF Carries
<1> HIDE DEF r
<1>8. NotifiedInv'
  <2>1. ASSUME NEW n \in notified
        PROVE  /\ n.request \in saved' /\ user[n.request] = "silent"
               /\ n.id # 0 /\ n.id <= reqIDCounter'
               /\ \A t \in Sessions : ni'[t].rawRequest # None /\ ni'[t].reqID = n.id
                                          => ni'[t].rawRequest = n.request
               /\ \A n2 \in notified : n2.request = n.request => n2 = n
    BY <1>2, <1>4, <1>6 DEF NotifiedInv
  <2>2. \A t \in Sessions : ni'[t].reqID <= reqIDCounter'
    <3>1. \A t \in Sessions : ni[t].reqID \in Nat
      BY <1>1 DEF TypeOK, NiSession
    <3>. QED  BY <1>1, <1>2, <1>6, <3>1
  <2>3. \A x \in saved' : x <= requested
    BY <1>1, <1>2, <1>4 DEF NotifiedInv
  <2>4. \A x \in Requests : user[x] # "silent" => x \in saved'
    BY <1>2, <1>4 DEF NotifiedInv
  <2>5. \A i \in 1..Len(msgQ') : msgQ'[i].type = "notify" => msgQ'[i].data \notin saved'
    BY <1>2, <1>3, <1>4, <1>7 DEF NotifiedInv
  <2>. QED  BY <1>2, <2>1, <2>2, <2>3, <2>4, <2>5 DEF NotifiedInv
<1>9. RespondInv'
  <2>1. ASSUME NEW i \in 1..Len(msgQ'), msgQ'[i].type = "respond"
        PROVE  /\ msgQ'[i].id # 0 /\ msgQ'[i].id <= reqIDCounter'
               /\ msgQ'[i].response = "ACCEPT" =>
                      \A t \in Sessions : ni'[t].reqID = msgQ'[i].id => AcceptedBy(t)'
    <3>1. i + 1 \in 1..Len(msgQ) /\ msgQ'[i] = msgQ[i + 1]
      BY <1>3
    <3>2. msgQ'[i].id \in Nat /\ msgQ'[i].id <= reqIDCounter /\ msgQ'[i].id # 0
      <4>1. msgQ[i + 1] \in Message
        BY <1>1, <3>1, Types1
      <4>2. msgQ'[i].id \in 0..MaxRequests
        BY <2>1, <3>1, <4>1, MessageFields
      <4>. QED  BY <1>4, <2>1, <3>1, <4>2 DEF RespondInv
    <3>3. msgQ'[i].id <= reqIDCounter' /\ msgQ'[i].id # ni'[s].reqID
      BY <1>1, <1>2, <3>2
    <3>4. ASSUME msgQ'[i].response = "ACCEPT", NEW t \in Sessions, ni'[t].reqID = msgQ'[i].id
          PROVE  AcceptedBy(t)'
      <4>1. t # s /\ ni'[t] = ni[t]
        BY <1>2, <3>3, <3>4
      <4>2. AcceptedBy(t)
        BY <1>4, <2>1, <3>1, <3>4, <4>1 DEF RespondInv
      <4>. QED  BY <4>1, <4>2 DEF AcceptedBy
    <3>. QED  BY <3>2, <3>3, <3>4
  <2>2. adapter'.resp # "ACCEPT"
    BY <1>2
  <2>. QED  BY <2>1, <2>2 DEF RespondInv
<1>10. ShowInv'
  <2>1. \A n \in notified : n.request # r
    BY <1>4, <1>5 DEF NotifiedInv
  <2>2. \A t \in Sessions : ni'[t].reqID = reqIDCounter + 1 => t = s
    BY <1>2, <1>6
  <2>. QED  BY <1>2, <1>5, <2>1, <2>2 DEF ShowInv
<1>11. ASSUME ~stray PROVE ResponseInv'
  <2>1. ResponseInv /\ ~ni[s].respRecvd
    BY <1>11 DEF DecideInv, ResponseInv, Busy
  <2>2. /\ \A t \in Sessions : ni'[t].rawRequest = None => ~ni'[t].respRecvd
        /\ \A t \in Sessions : ni'[t].respRecvd /\ ni'[t].resp = "ACCEPT" => AcceptedBy(t)'
    BY <1>2, <2>1 DEF ResponseInv, AcceptedBy
  <2>3. \A t \in Requests : thread'[t].rawRequest # None /\ thread'[t].resp = "ACCEPT"
                                => user'[thread'[t].rawRequest] = "ACCEPT"
    BY <1>2, <2>1 DEF ResponseInv
  <2>4. \A i \in 1..Len(msgQ') : msgQ'[i].type = "inform" /\ msgQ'[i].response = "ACCEPT"
                                     => user'[msgQ'[i].data] = "ACCEPT"
    BY <1>3, <2>1 DEF ResponseInv
  <2>5. UserDecides'
    <3>1. ends[r] = <<>> /\ <<>> # <<"ACCEPT">>
      BY <1>3 DEF MsgInv, Carries, r
    <3>. QED  BY <1>2, <2>1, <3>1 DEF ResponseInv, UserDecides, Decided
  <2>. QED  BY <2>2, <2>3, <2>4, <2>5, Zenon DEF ResponseInv
<1>. QED  BY <1>8, <1>9, <1>10, <1>11 DEF DecideInv

\* The request is shown with the ID its session still has.
LEMMA ShowDecides ==
    ASSUME TypeInv, DecideInv, ShowNotification, ~unnamed'
    PROVE  DecideInv'
<1> DEFINE n == [id |-> ni[adapter.of].reqID, request |-> adapter.data]
<1>1. /\ adapter.of \in Sessions /\ adapter.data \in Requests /\ TypeOK
      /\ \A t \in Requests : thread'[t] = thread[t] \/ thread'[t].rawRequest = None
      /\ notified' = notified \union {n} /\ ni[adapter.of].reqID # 0
      /\ adapter.at = "saved" /\ adapter'.at = "idle"
      /\ UNCHANGED <<ni, reqIDCounter, msgQ, requested, saved, user, ends, stray>>
  BY ShowEffect DEF TypeInv
<1>2. NotifiedInv /\ RespondInv /\ ShowInv
  BY DEF DecideInv
<1>3. n.id = ni[adapter.of].reqID /\ n.request = adapter.data
  OBVIOUS
<1>4. /\ n.request \in saved /\ user[n.request] = "silent"
      /\ \A n1 \in notified : n1.request # n.request
      /\ \A t \in Sessions : ni[t].rawRequest # None /\ ni[t].reqID = n.id
                                 => ni[t].rawRequest = n.request
  BY <1>1, <1>2, <1>3 DEF ShowInv
<1>5. n.id # 0 /\ n.id <= reqIDCounter
  BY <1>1, <1>2, <1>3 DEF NotifiedInv
<1> HIDE DEF n
<1>6. NotifiedInv'
  <2>1. ASSUME NEW n1 \in notified'
        PROVE  /\ n1.request \in saved /\ user[n1.request] = "silent"
               /\ n1.id # 0 /\ n1.id <= reqIDCounter
               /\ \A t \in Sessions : ni[t].rawRequest # None /\ ni[t].reqID = n1.id
                                          => ni[t].rawRequest = n1.request
               /\ \A n2 \in notified' : n2.request = n1.request => n2 = n1
    <3>1. CASE n1 \in notified
      BY <1>1, <1>2, <1>4, <3>1 DEF NotifiedInv
    <3>2. CASE n1 = n
      BY <1>1, <1>4, <1>5, <3>2
    <3>. QED  BY <1>1, <3>1, <3>2
  <2>2. /\ \A t \in Sessions : ni[t].reqID <= reqIDCounter
        /\ \A r \in saved : r <= requested
        /\ \A r \in Requests : user[r] # "silent" => r \in saved
        /\ \A i \in 1..Len(msgQ) : msgQ[i].type = "notify" => msgQ[i].data \notin saved
    BY <1>2 DEF NotifiedInv
  <2>. QED  BY <1>1, <2>1, <2>2 DEF NotifiedInv
<1>7. Settled /\ Stay("respond", 0) /\ Stay("inform", 0)
  BY <1>1, StaySame DEF Settled
<1>8. RespondInv' /\ (~stray => ResponseInv')
  BY <1>1, <1>7, RespondStays, ResponseStays DEF DecideInv
<1>9. ShowInv'
  BY <1>1 DEF ShowInv
<1>. QED  BY <1>1, <1>6, <1>8, <1>9 DEF DecideInv

LEMMA HandleNotifyDecides ==
    ASSUME TypeInv, OnceInv, DecideInv, HandleNotify
    PROVE  DecideInv'
<1> DEFINE m == Head(msgQ)
           s == IF m.ni = "emergency" THEN "sessionEs" ELSE "session"
<1>1. /\ adapter = Idle /\ msgQ # <<>> /\ msgQ' = Tail(msgQ) /\ m.type = "notify"
      /\ UNCHANGED <<requested, user, stray>>
      /\ \/ RequestNiNotify(m)
         \/ /\ \/ Inform(m.data, "DENY") \/ Inform(m.data, "ACCEPT")
            /\ UNCHANGED <<ni, reqIDCounter, thread, adapter, notified, saved>>
  BY DEF HandleNotify, Taking, shown
<1>2. TypeOK /\ m = msgQ[1] /\ 1 \in 1..Len(msgQ) /\ m.data \in Requests
  BY <1>1, QueueShrinks, NextID DEF TypeInv
<1>3. m.data \notin saved
  BY <1>1, <1>2 DEF DecideInv, NotifiedInv
<1>4. s \in Sessions
  BY DEF Sessions
<1>5. CASE ~Busy(s) /\ Save(s, m.data)
  BY <1>1, <1>4, <1>5, SaveDecides DEF OnceInv
<1>6. CASE /\ \/ ends' = ends
              \/ \E response \in Response \union {"freed"} :
                     ends' = [ends EXCEPT ![m.data] = Append(@, response)]
           /\ UNCHANGED <<ni, reqIDCounter, thread, notified, saved>>
           /\ adapter' = adapter \/ adapter' = Idle \/ adapter' = [Idle EXCEPT !.at = "ignoring", !.of = "none"]
  <2>1. Stay("notify", 1) /\ Stay("respond", 1) /\ Stay("inform", 1)
    BY <1>1, <1>2, StayShrinks
  <2>2. Settled
    BY <1>6 DEF Settled
  <2>3. NotifiedInv'
    BY <1>1, <1>2, <1>6, <2>1, <2>2, NotifiedStays DEF DecideInv
  <2>4. ~(adapter'.at # "idle" /\ adapter'.of \in Sessions) /\ adapter'.at # "saved"
    <3>1. /\ Idle.at = "idle" /\ [Idle EXCEPT !.at = "ignoring", !.of = "none"].of \notin Sessions
          /\ [Idle EXCEPT !.at = "ignoring", !.of = "none"].at = "ignoring"
      BY DEF Idle, Sessions
    <3>2. adapter' = Idle \/ adapter' = [Idle EXCEPT !.at = "ignoring", !.of = "none"]
      BY <1>1, <1>6
    <3>. QED  BY <3>1, <3>2, Zenon
  <2>5. RespondInv'
    BY <1>1, <1>2, <1>6, <2>1, <2>2, <2>4, RespondStays DEF DecideInv
  <2>8. ShowInv'
    BY <2>4 DEF ShowInv
  <2>6. \A r \in saved' : r \in saved /\ ends'[r] = ends[r]
    BY <1>2, <1>3, <1>6 DEF TypeOK
  <2>7. ~stray => ResponseInv'
    BY <1>1, <1>2, <1>6, <2>1, <2>6, ResponseStays DEF DecideInv
  <2>. QED  BY <1>1, <2>3, <2>5, <2>7, <2>8 DEF DecideInv
<1>7. {"DENY", "ACCEPT", "freed"} \subseteq Response \union {"freed"}
  BY DEF Response
<1>8. ASSUME RequestNiNotify(m) PROVE DecideInv'
  BY <1>5, <1>6, <1>7, <1>8 DEF RequestNiNotify, Inform, shown
<1>9. ASSUME Inform(m.data, "DENY") \/ Inform(m.data, "ACCEPT"),
             UNCHANGED <<ni, reqIDCounter, thread, adapter, notified, saved>>
      PROVE  DecideInv'
  BY <1>6, <1>7, <1>9 DEF Inform
<1>. QED  BY <1>1, <1>8, <1>9

LEMMA HandleRespondDecides ==
    ASSUME TypeOK, HandlerInv, DecideInv, HandleRespond
    PROVE  DecideInv'
<1> DEFINE m == Head(msgQ)
<1>1. /\ msgQ # <<>> /\ msgQ' = Tail(msgQ) /\ m.type = "respond"
      /\ UNCHANGED <<requested, notified, user, ni, reqIDCounter, thread, saved, ends, stray>>
  BY DEF HandleRespond, Taking, outside, shown
<1>2. m = msgQ[1] /\ 1 \in 1..Len(msgQ)
  BY <1>1, QueueShrinks
<1>3. Stay("notify", 1) /\ Stay("respond", 1) /\ Stay("inform", 1)
  BY <1>1, StayShrinks
<1>4. Settled
  BY <1>1 DEF Settled
<1>5. NotifiedInv' /\ (~stray => ResponseInv')
  BY <1>1, <1>3, <1>4, NotifiedStays, ResponseStays DEF DecideInv
<1>7. \/ adapter'.at = "idle"
      \/ /\ adapter'.at # "saved"
         /\ adapter'.resp = m.response /\ ni[adapter'.of].reqID = m.id
  BY DEF HandleRespond, Idle
<1>6. RespondInv'
  <2>1. \/ adapter'.at = "idle"
        \/ adapter'.resp = m.response /\ ni[adapter'.of].reqID = m.id
    BY <1>7
  <2>2. adapter'.at # "idle" /\ adapter'.of \in Sessions /\ adapter'.resp = "ACCEPT"
            => AcceptedBy(adapter.of)'
    <3>1. ASSUME adapter'.at # "idle", adapter'.of \in Sessions, adapter'.resp = "ACCEPT"
          PROVE  AcceptedBy(adapter.of)'
      <4>1. \A s \in Sessions : ni[s].reqID = m.id => AcceptedBy(s)
        BY <1>1, <1>2, <2>1, <3>1 DEF DecideInv, RespondInv
      <4>. QED  BY <1>1, <2>1, <3>1, <4>1 DEF AcceptedBy
    <3>. QED  BY <3>1
  <2>3. ASSUME NEW i \in 1..Len(msgQ'), msgQ'[i].type = "respond"
        PROVE  /\ msgQ'[i].id # 0 /\ msgQ'[i].id <= reqIDCounter
               /\ msgQ'[i].response = "ACCEPT" =>
                      \A s \in Sessions : ni[s].reqID = msgQ'[i].id => AcceptedBy(s)'
    <3>1. i + 1 \in 1..Len(msgQ) /\ msgQ'[i] = msgQ[i + 1]
      BY <1>3, <2>3 DEF Stay
    <3>2. \A s \in Sessions : AcceptedBy(s) => AcceptedBy(s)'
      BY <1>1 DEF AcceptedBy
    <3>. QED  BY <2>3, <3>1, <3>2 DEF DecideInv, RespondInv
  <2>. QED  BY <1>1, <2>2, <2>3 DEF RespondInv
<1>8. ShowInv'
  BY <1>7 DEF ShowInv
<1>. QED  BY <1>1, <1>5, <1>6, <1>8 DEF DecideInv

LEMMA HandleInformDecides ==
    ASSUME TypeOK, HandlerInv, OnceInv, DecideInv, HandleInform
    PROVE  DecideInv'
<1> DEFINE r == Head(msgQ).data
           response == Head(msgQ).response
<1>1. /\ msgQ # <<>> /\ msgQ' = Tail(msgQ) /\ Head(msgQ).type = "inform"
      /\ ends' = [ends EXCEPT ![r] = Append(@, response)]
      /\ UNCHANGED <<requested, notified, user, ni, reqIDCounter, thread, adapter, saved, stray>>
  BY DEF HandleInform, Taking, outside, shown, Inform
<1>2. Head(msgQ) = msgQ[1] /\ 1 \in 1..Len(msgQ) /\ r \in Requests /\ response \in Response
  BY <1>1, QueueShrinks, MessageFields
<1>3. Stay("notify", 1) /\ Stay("respond", 1) /\ Stay("inform", 1)
  BY <1>1, StayShrinks
<1>4. Settled
  BY <1>1 DEF Settled
<1>5. NotifiedInv' /\ RespondInv' /\ ShowInv'
  BY <1>1, <1>3, <1>4, NotifiedStays, RespondStays, ShowStays DEF DecideInv
<1>6. ASSUME ~stray PROVE ResponseInv'
  <2>1. ResponseInv
    BY <1>6 DEF DecideInv
  <2>2. response = "ACCEPT" => user[r] = "ACCEPT"
    BY <1>1, <1>2, <2>1 DEF ResponseInv
  <2>3. ends[r] = <<>>
    BY <1>1, <1>2 DEF OnceInv, MsgInv, Carries
  <2>4. UserDecides'
    <3>1. ends \in [Requests -> Seq(Response \union {"freed"})] /\ saved \subseteq Requests
      BY DEF TypeOK
    <3>2. <<response>> = <<"ACCEPT">> => response = "ACCEPT"
      OBVIOUS
    <3>3. Append(<<>>, response) = <<response>>
      OBVIOUS
    <3> HIDE DEF r, response
    <3>4. ends'[r] = <<response>> /\ \A x \in Requests : x # r => ends'[x] = ends[x]
      BY <1>1, <1>2, <2>3, <3>1, <3>3
    <3>5. ASSUME NEW x \in saved, ends'[x] = <<"ACCEPT">> PROVE user[x] = "ACCEPT"
      <4>1. CASE x = r
        BY <2>2, <3>2, <3>4, <3>5, <4>1
      <4>2. CASE x # r
        BY <2>1, <3>1, <3>4, <3>5, <4>2 DEF ResponseInv, UserDecides, Decided
      <4>. QED  BY <4>1, <4>2
    <3>. QED  BY <1>1, <3>5 DEF UserDecides, Decided
  <2>5. \A i \in 1..Len(msgQ') : msgQ'[i].type = "inform" /\ msgQ'[i].response = "ACCEPT"
                                     => user'[msgQ'[i].data] = "ACCEPT"
    BY <1>1, <1>3, <2>1 DEF ResponseInv, Stay
  <2>6. /\ \A s \in Sessions : ni'[s].rawRequest = None => ~ni'[s].respRecvd
        /\ \A s \in Sessions : ni'[s].respRecvd /\ ni'[s].resp = "ACCEPT" => AcceptedBy(s)'
        /\ \A t \in Requests : thread'[t].rawRequest # None /\ thread'[t].resp = "ACCEPT"
                                   => user'[thread'[t].rawRequest] = "ACCEPT"
    BY <1>1, <2>1 DEF ResponseInv, AcceptedBy
  <2>. QED  BY <2>4, <2>5, <2>6, Zenon DEF ResponseInv
<1>. QED  BY <1>1, <1>5, <1>6 DEF DecideInv

\* What the handler holds is stored in a session that still has its request.
LEMMA AnswerDecides ==
    ASSUME TypeOK, HandlerInv, DecideInv, NEW s \in Sessions, NEW resp \in Response, SetResponse(s, resp),
           resp = "ACCEPT" => AcceptedBy(s), adapter'.at # "saved",
           adapter'.at # "idle" /\ adapter'.of \in Sessions =>
               adapter.at # "idle" /\ adapter'.of = adapter.of /\ adapter'.resp = adapter.resp
    PROVE  DecideInv'
<1>1. /\ \A t \in Sessions : t # s => ni'[t] = ni[t]
      /\ ni'[s].rawRequest = ni[s].rawRequest /\ ni'[s].reqID = ni[s].reqID
      /\ ni'[s].resp = resp /\ ni'[s].respRecvd = TRUE
      /\ stray' = (stray \/ ~Busy(s))
      /\ UNCHANGED <<requested, notified, user, reqIDCounter, thread, msgQ, saved, ends>>
  BY AnswerEffect DEF outside, shown
<1>2. Stay("notify", 0) /\ Stay("respond", 0)
  BY <1>1, StaySame
<1>3. Settled
  BY <1>1 DEF Settled
<1>4. NotifiedInv' /\ RespondInv' /\ ShowInv'
  BY <1>1, <1>2, <1>3, NotifiedStays, RespondStays, ShowStays DEF DecideInv
<1>5. ASSUME ~stray' PROVE ResponseInv'
  <2>1. ResponseInv /\ Busy(s)
    BY <1>1, <1>5 DEF DecideInv
  <2>2. /\ \A t \in Sessions : ni'[t].rawRequest = None => ~ni'[t].respRecvd
        /\ \A t \in Sessions : ni'[t].respRecvd /\ ni'[t].resp = "ACCEPT" => AcceptedBy(t)'
    BY <1>1, <2>1 DEF ResponseInv, AcceptedBy, Busy
  <2>3. /\ \A t \in Requests : thread'[t].rawRequest # None /\ thread'[t].resp = "ACCEPT"
                                   => user'[thread'[t].rawRequest] = "ACCEPT"
        /\ \A i \in 1..Len(msgQ') : msgQ'[i].type = "inform" /\ msgQ'[i].response = "ACCEPT"
                                        => user'[msgQ'[i].data] = "ACCEPT"
    BY <1>1, <2>1 DEF ResponseInv
  <2>4. UserDecides'
    BY <1>1, <2>1 DEF ResponseInv, UserDecides, Decided
  <2>. QED  BY <2>2, <2>3, <2>4, Zenon DEF ResponseInv
<1>. QED  BY <1>4, <1>5 DEF DecideInv

LEMMA AdapterDecides ==
    ASSUME TypeInv, OnceInv, DecideInv, Adapter
    PROVE  DecideInv' \/ unnamed'
<1>1. TypeOK /\ adapter \in Handler /\ HandlerInv
  BY DEF TypeInv, TypeOK
<1>2. CASE AfterAccepted
  <2>1. UNCHANGED <<requested, notified, user, ni, reqIDCounter, thread, msgQ, saved, ends, stray>>
    BY <1>2 DEF AfterAccepted, outside, shown
  <2>2. Stay("notify", 0) /\ Stay("respond", 0) /\ Stay("inform", 0)
    BY <1>1, <2>1, StaySame
  <2>3. Settled
    BY <2>1 DEF Settled
  <2>4. /\ adapter.at # "idle" /\ adapter'.of = adapter.of /\ adapter'.resp = adapter.resp
        /\ adapter'.at # "saved"
    BY <1>1, <1>2 DEF AfterAccepted, Handler
  <2>5. RespondInv'
    BY <1>1, <2>1, <2>2, <2>3, <2>4, RespondStays DEF DecideInv
  <2>6. NotifiedInv' /\ ShowInv' /\ (~stray => ResponseInv')
    BY <1>1, <2>1, <2>2, <2>3, <2>4, NotifiedStays, ShowStays, ResponseStays DEF DecideInv
  <2>. QED  BY <2>1, <2>5, <2>6 DEF DecideInv
<1>3. CASE IgnoreOther
  <2>1. "session" \in Sessions /\ "IGNORE" \in Response
    BY DEF Sessions, Response
  <2>2. /\ SetResponse("session", "IGNORE") /\ adapter.at = "ignoring"
        /\ adapter' = IF adapter.of = "none" THEN Idle ELSE [adapter EXCEPT !.at = "responding"]
    BY <1>3 DEF IgnoreOther
  <2>3. adapter'.at # "idle" /\ adapter'.of \in Sessions =>
            adapter.at # "idle" /\ adapter'.of = adapter.of /\ adapter'.resp = adapter.resp
    BY <1>1, <2>2 DEF Handler, Idle
  <2>4. adapter'.at # "saved"
    BY <1>1, <2>2 DEF Handler, Idle
  <2>. QED  BY <1>1, <2>1, <2>2, <2>3, <2>4, AnswerDecides
<1>4. CASE SendUserResponse
  <2>1. /\ adapter.at = "responding" /\ SetResponse(adapter.of, adapter.resp) /\ adapter' = Idle
        /\ adapter.of \in Sessions /\ adapter.resp \in Response
    BY <1>1, <1>4 DEF SendUserResponse, HandlerInv, Handler
  <2>2. adapter.resp = "ACCEPT" => AcceptedBy(adapter.of)
    BY <2>1 DEF DecideInv, RespondInv
  <2>3. adapter'.at = "idle"
    BY <2>1 DEF Idle
  <2>. QED  BY <1>1, <2>1, <2>2, <2>3, AnswerDecides
<1>. QED  BY <1>1, <1>2, <1>3, <1>4, ShowDecides, HandleNotifyDecides, HandleRespondDecides, HandleInformDecides
          DEF Adapter

LEMMA InitDecides == ASSUME Init PROVE DecideInv
<1>1. /\ Len(msgQ) = 0 /\ notified = {} /\ saved = {} /\ reqIDCounter = 0 /\ adapter.at = "idle"
      /\ \A r \in Requests : user[r] = "silent"
  BY DEF Init, Idle
<1>2. /\ \A s \in Sessions : ni[s].rawRequest = None /\ ni[s].reqID = 0 /\ ~ni[s].respRecvd
      /\ \A id \in Requests : thread[id].rawRequest = None
  BY DEF Init, NoThread
<1>3. NotifiedInv
  BY <1>1, <1>2 DEF NotifiedInv
<1>4. RespondInv /\ ShowInv /\ ResponseInv
  BY <1>1, <1>2 DEF RespondInv, ShowInv, ResponseInv, UserDecides
<1>. QED  BY <1>3, <1>4 DEF DecideInv

LEMMA NextDecides ==
    ASSUME TypeInv, OnceInv, DecideInv, [Next]_vars
    PROVE  DecideInv' \/ unnamed'
<1>1. TypeOK /\ HandlerInv
  BY DEF TypeInv
<1>2. CASE ClientsChange \/ UNCHANGED vars
  <2>1. UNCHANGED <<ni, reqIDCounter, thread, adapter, msgQ, requested, notified, saved, user,
                    ends, stray>>
    BY <1>2 DEF ClientsChange, vars, shown
  <2>. QED  BY <2>1 DEF DecideInv, NotifiedInv, RespondInv, ShowInv, ResponseInv, AcceptedBy,
            UserDecides, Decided
<1>. QED  BY <1>1, <1>2, NotifyDecides, UserRespondsDecides, ThreadDecides, AdapterDecides DEF Next

\* A notification without an ID, once shown, has been shown.
LEMMA UnnamedStays == ASSUME [Next]_vars, unnamed PROVE unnamed'
<1>1. UNCHANGED unnamed \/ ShowNotification
  <2>1. ASSUME NEW id \in Requests, NiThread(id) PROVE UNCHANGED unnamed
    BY <2>1, Zenon DEF NiThread, NiThreadStarts, NiThreadWakes, NiThreadTimesOut, NiThreadClearsReqID,
       NiThreadPosts, Conclude, outside, shown
  <2>2. Adapter => UNCHANGED unnamed \/ ShowNotification
    BY Zenon DEF Adapter, HandleNotify, RequestNiNotify, Save, HandleRespond, HandleInform,
       AfterAccepted, IgnoreOther, SendUserResponse, SetResponse, outside, shown
  <2>3. (\E type \in Types, inEmergency \in BOOLEAN : Notify(type, inEmergency)) => UNCHANGED unnamed
    BY Zenon DEF Notify, shown
  <2>4. ClientsChange \/ UNCHANGED vars => UNCHANGED unnamed
    BY Zenon DEF ClientsChange, vars, shown
  <2>5. (\E n \in notified, response \in {"ACCEPT", "DENY"} : UserResponds(n, response))
            => UNCHANGED unnamed
    BY Zenon DEF UserResponds
  <2>. QED  BY <2>1, <2>2, <2>3, <2>4, <2>5, Zenon DEF Next
<1>. QED  BY <1>1, Zenon DEF ShowNotification

(* A request that went through a session is accepted only if the user       *)
(* accepted this request, as long as no response is stored in a session     *)
(* whose request had ended and no notification is shown whose ID the thread *)
(* of an earlier request had cleared: for any number of requests and any    *)
(* interleaving of the user, the threads and the handler.                   *)
THEOREM UserDecidesAlways == Spec => []UserDecidesInTime
<1>1. Init => TypeInv /\ OnceInv /\ (unnamed \/ DecideInv)
  BY InitType, InitOnce, InitDecides
<1>2. TypeInv /\ OnceInv /\ (unnamed \/ DecideInv) /\ [Next]_vars
          => (TypeInv /\ OnceInv /\ (unnamed \/ DecideInv))'
  BY NextType, NextOnce, NextDecides, UnnamedStays
<1>3. (unnamed \/ DecideInv) => UserDecidesInTime
  BY DEF DecideInv, ResponseInv, UserDecidesInTime, UserDecidesUnlessLate
<1>. QED  BY <1>1, <1>2, <1>3, PTL DEF Spec

=============================================================================

--------------------------- MODULE GeofencesProofs ---------------------------
(***************************************************************************)
(* Proofs about Geofences, for any ids, masks and numbers of requests.     *)
(*                                                                         *)
(* Responses.  A geofence of a request travels: it is in the command that  *)
(* names it, in a turn, in a call, in an answer (At).  OrderInv says that  *)
(* what was asked for first is never behind, so the last outcome of a      *)
(* request comes after all its others and after those of older requests    *)
(* (Settled).  Most steps are a Flow: the head of a queue may go, and      *)
(* elements may come at the end.                                           *)
(*                                                                         *)
(* Tables.  The adapter learns what the modem did when it handles the      *)
(* answer.  Mirror says that there is a table for each message that waits: *)
(* the first is the adapter's, each message makes the next of the one      *)
(* before, and the last is the modem's.  A breach names a geofence of the  *)
(* table it comes to.  A session is added once only, or once more after a  *)
(* restart (Due, DueAgain), hence is not twice in a table nor in two that  *)
(* a restart parts.                                                        *)
(***************************************************************************)
EXTENDS Geofences, FiniteSetTheorems, TLAPS

LEMMA Constants ==
    /\ MaxRequests \in Nat /\ Mask # {} /\ None \notin Id
    /\ None \notin Mask /\ None \notin Geofence /\ None \notin Batch
    /\ Session \subseteq Nat \ {0} /\ HwId \subseteq Nat \ {0}
    /\ IsFiniteSet(Session) /\ IsFiniteSet(HwId)
<1>1. MaxRequests \in Nat
  BY GeofenceAssumption
<1>2. IsFiniteSet(1..(2 * MaxRequests))
  BY <1>1, FS_Interval
<1>. QED  BY <1>1, <1>2, GeofenceAssumption DEF Session, HwId

-----------------------------------------------------------------------------
(* Sequences and enumerations *)

LEMMA Taking ==
    ASSUME NEW S, NEW q \in Seq(S), q # <<>>
    PROVE  /\ Len(q) \in Nat /\ Len(q) >= 1 /\ DOMAIN q = 1..Len(q)
           /\ Head(q) = q[1] /\ q[1] \in S
           /\ Tail(q) \in Seq(S) /\ Len(Tail(q)) = Len(q) - 1
           /\ DOMAIN Tail(q) = 1..(Len(q) - 1)
           /\ \A n \in DOMAIN Tail(q) : n + 1 \in DOMAIN q /\ Tail(q)[n] = q[n + 1]
  OBVIOUS

LEMMA Putting ==
    ASSUME NEW S, NEW q \in Seq(S), NEW x \in S
    PROVE  /\ Append(q, x) \in Seq(S) /\ Len(Append(q, x)) = Len(q) + 1
           /\ DOMAIN q = 1..Len(q) /\ DOMAIN Append(q, x) = 1..(Len(q) + 1) /\ Len(q) \in Nat
           /\ \A n \in DOMAIN q : Append(q, x)[n] = q[n]
           /\ Append(q, x)[Len(q) + 1] = x
  OBVIOUS

LEMMA Joining ==
    ASSUME NEW S, NEW q \in Seq(S), NEW p \in Seq(S)
    PROVE  /\ q \o p \in Seq(S) /\ Len(q \o p) = Len(q) + Len(p)
           /\ Len(q) \in Nat /\ Len(p) \in Nat
           /\ DOMAIN q = 1..Len(q) /\ DOMAIN p = 1..Len(p)
           /\ DOMAIN (q \o p) = 1..(Len(q) + Len(p))
           /\ \A n \in DOMAIN q : (q \o p)[n] = q[n]
           /\ \A n \in DOMAIN p : Len(q) + n \in DOMAIN (q \o p) /\ (q \o p)[Len(q) + n] = p[n]
  OBVIOUS

\* InOrder enumerates a finite set: every place has a member, every member
\* one place.
LEMMA Enumerates ==
    ASSUME NEW S, S \subseteq Nat, IsFiniteSet(S)
    PROVE  /\ Cardinality(S) \in Nat
           /\ InOrder(S) \in [1..Cardinality(S) -> S]
           /\ \A s \in S : \E i \in 1..Cardinality(S) : InOrder(S)[i] = s
           /\ \A i, j \in 1..Cardinality(S) : InOrder(S)[i] = InOrder(S)[j] => i = j
<1>. DEFINE Below(s) == {t \in S : t <= s}
            place == [s \in S |-> Cardinality(Below(s))]
            n == Cardinality(S)
<1>1. n \in Nat
  BY FS_CardinalityType
<1>2. \A s \in S : IsFiniteSet(Below(s)) /\ Cardinality(Below(s)) \in 1..n
  <2>. SUFFICES ASSUME NEW s \in S
                PROVE  IsFiniteSet(Below(s)) /\ Cardinality(Below(s)) \in 1..n
    OBVIOUS
  <2>1. IsFiniteSet(Below(s)) /\ Cardinality(Below(s)) <= n
    BY FS_Subset
  <2>2. Below(s) # {}
    OBVIOUS
  <2>3. Cardinality(Below(s)) \in Nat /\ Cardinality(Below(s)) # 0
    BY <2>1, <2>2, FS_CardinalityType, FS_EmptySet
  <2>. QED  BY <1>1, <2>1, <2>3
<1>3. ASSUME NEW s \in S, NEW t \in S, s < t PROVE place[s] # place[t]
  <2>1. t \in Below(t) /\ t \notin Below(s) /\ Below(s) \in SUBSET Below(t)
    <3>1. \A x \in S : x <= s => x <= t
      BY <1>3
    <3>2. s \in Nat /\ t \in Nat /\ t <= t /\ ~(t <= s)
      BY <1>3
    <3>3. t \in Below(t) /\ t \notin Below(s)
      BY <3>2
    <3>. QED  BY <3>1, <3>3
  <2>2. Below(s) # Below(t)
    BY <2>1
  <2>. QED  BY <1>2, <2>1, <2>2, FS_Subset
<1>4. \A s, t \in S : place[s] = place[t] => s = t
  BY <1>3
<1>5. place \in Injection(S, 1..n)
  BY <1>2, <1>4 DEF Injection, IsInjective
<1>6. place \in Surjection(S, 1..n)
  BY <1>1, <1>5, FS_Interval, FS_Injection
<1>7. \A i \in 1..n : \E s \in S : place[s] = i
  BY <1>6 DEF Surjection
<1>8. \A i \in 1..n : InOrder(S)[i] \in S /\ place[InOrder(S)[i]] = i
  BY <1>7 DEF InOrder
<1>9. InOrder(S) \in [1..n -> S]
  BY <1>8 DEF InOrder
<1>10. \A s \in S : InOrder(S)[place[s]] = s
  <2>. SUFFICES ASSUME NEW s \in S PROVE InOrder(S)[place[s]] = s
    OBVIOUS
  <2>1. place[s] \in 1..n
    BY <1>2
  <2>2. InOrder(S)[place[s]] \in S /\ place[InOrder(S)[place[s]]] = place[s]
    BY <1>8, <2>1
  <2>. QED  BY <1>4, <2>2
<1>. QED  BY <1>1, <1>2, <1>8, <1>9, <1>10

-----------------------------------------------------------------------------
(* Types *)

Stage == 1..2

Back ==
    [type : {"answer"}, r : Nat, i : Stage] \union [type : {"restarted"}, g : Geofence]
        \union [type : {"ignored", "stopped"}]

Turns == [type : {"turn"}, r : Nat, i : Stage]

\* What a call says of a geofence: a removal gives no mask.
Asked == [key : Session, mask : Mask \union {None}, paused : BOOLEAN]

ApiItem ==
    Turns \union [type : {"reopen"}]
        \union [type : {"call"}, op : {"add", "remove", "modify", "pause", "resume"},
                hw : {0} \union HwId,
                g : Asked, back : Back]

Message ==
    Turns \union [type : {"command"}, r : Nat] \union [type : {"engineUp", "removeClient"}]
        \union [type : {"breach"}, hw : HwId, key : Session]
        \union [type : {"answer", "restarted", "stopped"}, back : Back, hw : {0} \union HwId,
                ok : BOOLEAN]

\* b may be the request of number r.
BatchItem(r, b) ==
    /\ b \in Batch
    /\ Len(b.keys) \in Stage
    /\ DOMAIN b.errs = DOMAIN b.keys /\ DOMAIN b.did = DOMAIN b.keys
    /\ b.kind \in {"add", "modify"} => b.mask \in Mask
    /\ b.kind = "add" => \A i \in DOMAIN b.keys : b.keys[i] = SessionOf(r, i)

BatchOK ==
    /\ batch \in Seq(Batch \union {None}) /\ Len(batch) <= MaxRequests
    /\ \A r \in DOMAIN batch : batch[r] # None => BatchItem(r, batch[r])

ItemOK(x) ==
    x.type = "call" =>
        /\ x.op # "add" => x.hw \in HwId
        /\ x.op \in {"add", "modify"} => x.g.mask \in Mask
        /\ x.back.type = "restarted" =>
               x.op = "add" /\ x.g = [x.back.g EXCEPT !.paused = FALSE]
        /\ x.back.type = "ignored" => x.op = "pause"
        /\ x.back.type = "stopped" => x.op = "remove"

MessageOK(x) ==
    x.type \in {"answer", "restarted", "stopped"} =>
        x.type = x.back.type /\ (x.ok => x.hw \in HwId)

Messages(q) == q \in Seq(Message) /\ \A n \in DOMAIN q : MessageOK(q[n])

Items(q) == q \in Seq(ApiItem) /\ \A n \in DOMAIN q : ItemOK(q[n])

Typed == TypeOK /\ BatchOK /\ Messages(msgQ) /\ Items(apiQ)

-----------------------------------------------------------------------------
(* Tokens *)

\* x carries the i-th geofence of request r on its way.
Holds(x, r, i) ==
    \/ x.type = "command" /\ x.r = r
    \/ x.type = "turn" /\ x.r = r /\ x.i = i
    \/ x.type \in {"call", "answer"} /\ x.back.type = "answer" /\ x.back.r = r /\ x.back.i = i

\* How far x has come: asked for, given a turn, its turn come, called for, answered
InMsg(x, k) ==
    (k = 0 /\ x.type = "command") \/ (k = 2 /\ x.type = "turn") \/ (k = 4 /\ x.type = "answer")

InApi(x, k) == (k = 1 /\ x.type = "turn") \/ (k = 3 /\ x.type = "call")

\* The i-th geofence of r has come to k, n places from the head of a queue.
At(k, n, r, i) ==
    \/ n \in DOMAIN msgQ /\ InMsg(msgQ[n], k) /\ Holds(msgQ[n], r, i)
    \/ n \in DOMAIN apiQ /\ InApi(apiQ[n], k) /\ Holds(apiQ[n], r, i)

Upto(r, i, q, j) == r < q \/ (r = q /\ i <= j)

\* What was asked for first is never behind.
OrderInv ==
    \A r, q \in Nat, i, j \in Stage, k, l \in 0..4, m, n \in Nat :
        Upto(r, i, q, j) /\ At(k, m, r, i) /\ At(l, n, q, j) => k > l \/ (k = l /\ m <= n)

\* The i-th geofence of r still has its outcome to come.
Open(r, i) ==
    /\ r \in DOMAIN batch /\ batch[r] # None
    /\ i \in DOMAIN batch[r].keys /\ batch[r].did[i] = "nothing"

\* What is on its way for a request is as the request has it.
CarriedOK(x) ==
    /\ x.type = "command" => /\ x.r \in DOMAIN batch /\ batch[x.r] # None
                             /\ \A i \in DOMAIN batch[x.r].keys : Open(x.r, i)
    /\ x.type = "turn" => Open(x.r, x.i)
    /\ x.type \in {"call", "answer"} /\ x.back.type = "answer" => Open(x.back.r, x.back.i)
    /\ x.type = "call" /\ x.back.type = "answer" =>
         /\ x.op = batch[x.back.r].kind
         /\ x.g = [key |-> batch[x.back.r].keys[x.back.i], mask |-> batch[x.back.r].mask,
                   paused |-> FALSE]
    /\ x.type = "answer" /\ x.back.type = "answer" /\ ~x.ok =>
         (batch[x.back.r].kind \in {"modify", "resume"} => "refused" \in wrong)

CarriedInv ==
    /\ \A n \in DOMAIN msgQ : CarriedOK(msgQ[n])
    /\ \A n \in DOMAIN apiQ : CarriedOK(apiQ[n])

Base == Typed /\ OrderInv /\ CarriedInv

-----------------------------------------------------------------------------
(* Responses *)

OnItsWay(r, i) == \E k \in 0..4, n \in Nat : At(k, n, r, i)

LiveOpen(r, i) == Open(r, i) /\ batch[r].state = "live"

LiveInv == \A r, i : LiveOpen(r, i) => OnItsWay(r, i)

Fair == wrong \intersect {"unknown", "refused"} = {}

ResponseInv ==
    /\ ~client => requests = <<>>
    /\ Fair =>
         /\ wrong \intersect {"request", "error", "freed"} = {}
         /\ \A r \in DOMAIN batch : batch[r] # None =>
              /\ batch[r].state = "live"
              /\ \A i \in DOMAIN batch[r].keys :
                    batch[r].did[i] # "nothing" => batch[r].errs[i] = batch[r].did[i]
              /\ batch[r].did[LastOf(r)] = "nothing"
         /\ \A m, n \in DOMAIN requests : m < n => requests[m] < requests[n]
         /\ \A n \in DOMAIN requests : requests[n] \in DOMAIN batch /\ batch[requests[n]] # None
         /\ client => \A r \in DOMAIN batch : batch[r] # None => \E n \in DOMAIN requests : requests[n] = r

-----------------------------------------------------------------------------
(* The modem and the tables *)

EngineInv ==
    /\ \A n \in DOMAIN apiQ : apiQ[n].type = "reopen" => engine = "down"
    /\ \A m, n \in DOMAIN apiQ : apiQ[m].type = "reopen" /\ apiQ[n].type = "reopen" => m = n
    /\ engine = "down" => modem = [hw \in HwId |-> None]
    /\ \A n \in DOMAIN apiQ :
            (\/ apiQ[n].type = "reopen"
             \/ (apiQ[n].type = "call" /\ apiQ[n].back.type \in {"restarted", "ignored"}))
            => "restart" \in used
    /\ \A n \in DOMAIN msgQ : msgQ[n].type \in {"engineUp", "restarted"} => "restart" \in used

\* Nothing of a client that leaves is under way.
Staying ==
    /\ \A n \in DOMAIN msgQ : msgQ[n].type \notin {"removeClient", "stopped"}
    /\ \A n \in DOMAIN apiQ : apiQ[n].type = "call" => apiQ[n].back.type # "stopped"

\* The two maps lead to each other, both ways.
Resolves ==
    /\ \A s \in Session : mGeofenceIds[s] > 0 =>
         (mGeofences[mGeofenceIds[s]] # None /\ mGeofences[mGeofenceIds[s]].key = s)
    /\ \A hw \in HwId : mGeofences[hw] # None => mGeofenceIds[mGeofences[hw].key] = hw

Table == [HwId -> Geofence \union {None}]

Keys(t) == {t[hw].key : hw \in Geofences(t)}

Unique(t) == \A hw, h \in Geofences(t) : t[hw].key = t[h].key => hw = h

Apart(t, u) == Keys(t) \intersect Keys(u) = {}

\* Session s may still be added for the first time, or again after a restart.
Due(s) == \E k \in 0..3, n, r \in Nat, i \in Stage : At(k, n, r, i) /\ s = SessionOf(r, i)

Readds(x, s) == x.type = "call" /\ x.back.type = "restarted" /\ x.g.key = s

DueAgain(s) == \E n \in DOMAIN apiQ : Readds(apiQ[n], s)

AgainInv ==
    \A s : \A n \in DOMAIN apiQ : Readds(apiQ[n], s) =>
        /\ s \in 1..(2 * Len(batch)) /\ ~Due(s)
        /\ \A m \in DOMAIN apiQ : Readds(apiQ[m], s) => m = n

\* A table of geofences none of which is still to be added
Bounded(t) == \A s \in Keys(t) : s \in 1..(2 * Len(batch)) /\ ~Due(s) /\ ~DueAgain(s)

\* What a request makes of geofence h
Altered(op, g, h) ==
    CASE op = "modify" -> [h EXCEPT !.mask = g.mask]
      [] op = "pause" -> [h EXCEPT !.paused = TRUE]
      [] op = "resume" -> [h EXCEPT !.paused = FALSE]

\* Request op for geofence g makes u of table t.
Change(op, g, hw, t, u) ==
    /\ op = "add" => t[hw] = None /\ g.key \notin Keys(t) /\ u = [t EXCEPT ![hw] = g]
    /\ op = "remove" => u = [t EXCEPT ![hw] = None]
    /\ op \notin {"add", "remove"} => t[hw] # None /\ u = [t EXCEPT ![hw] = Altered(op, g, t[hw])]

\* What message x, an answer, was asked for
OpOf(x) == IF x.type = "restarted" THEN "add" ELSE batch[x.back.r].kind

GeofenceOf(x) ==
    IF x.type = "restarted" THEN [x.back.g EXCEPT !.paused = FALSE]
    ELSE [key |-> batch[x.back.r].keys[x.back.i], mask |-> batch[x.back.r].mask,
          paused |-> FALSE]

Succeeds(x) == x.type \in {"answer", "restarted"} /\ x.ok

\* Message x makes u of table t when it is handled.
Step(x, t, u) ==
    /\ x.type = "engineUp" => u = [hw \in HwId |-> None]
    /\ Succeeds(x) => Change(OpOf(x), GeofenceOf(x), x.hw, t, u)
    /\ x.type # "engineUp" /\ ~Succeeds(x) => u = t

\* After a restart the adapter's copy of a geofence may have forgotten a pause.
Same(x, y) ==
    \/ x = y
    \/ /\ "restart" \in used /\ x # None /\ y # None
       /\ x = [y EXCEPT !.paused = FALSE]

\* The modem watches what table t says.
Obeyed(t) == engine = "up" => \A hw \in HwId : Same(t[hw], modem[hw])

RightOwner(x, t) == x.type = "breach" /\ t[x.hw] # None => t[x.hw].key = x.key

\* V[n] is what the adapter's table will be once the first n messages are handled.
\* The modem is where all of them lead to.
Mirror(V) ==
    /\ V[0] = mGeofences
    /\ \A n \in 0..Len(msgQ) : V[n] \in Table /\ Unique(V[n]) /\ Bounded(V[n])
    /\ \A n \in DOMAIN msgQ : Step(msgQ[n], V[n - 1], V[n]) /\ RightOwner(msgQ[n], V[n])
    /\ \A p \in DOMAIN msgQ, n, m \in 0..Len(msgQ) :
         msgQ[p].type = "engineUp" /\ n < p /\ p <= m => Apart(V[n], V[m])
    /\ Obeyed(V[Len(msgQ)])

ClientInv == client => Staying /\ Resolves /\ AgainInv /\ \E V : Mirror(V)
-----------------------------------------------------------------------------
(* Types *)

LEMMA BackFields ==
    ASSUME NEW b \in Back
    PROVE  /\ b.type \in {"answer", "restarted", "ignored", "stopped"}
           /\ b.type = "answer" => b.r \in Nat /\ b.i \in Stage
           /\ b.type = "restarted" => b.g \in Geofence
  BY DEF Back

LEMMA ItemFields ==
    ASSUME NEW x \in ApiItem
    PROVE  /\ x.type \in {"turn", "reopen", "call"}
           /\ x.type = "turn" => x.r \in Nat /\ x.i \in Stage /\ x \in Turns
           /\ x.type = "call" =>
                /\ x.op \in {"add", "remove", "modify", "pause", "resume"}
                /\ x.hw \in {0} \union HwId /\ x.g \in Asked /\ x.back \in Back
  BY DEF ApiItem, Turns

LEMMA MessageFields ==
    ASSUME NEW x \in Message
    PROVE  /\ x.type \in {"turn", "command", "engineUp", "removeClient", "breach",
                          "answer", "restarted", "stopped"}
           /\ x.type = "turn" => x.r \in Nat /\ x.i \in Stage
           /\ x.type = "command" => x.r \in Nat
           /\ x.type = "breach" => x.hw \in HwId /\ x.key \in Session
           /\ x.type \in {"answer", "restarted", "stopped"} =>
                x.back \in Back /\ x.hw \in {0} \union HwId /\ x.ok \in BOOLEAN
  BY DEF Message, Turns

LEMMA TurnTypes ==
    ASSUME NEW r \in Nat, NEW i \in Stage
    PROVE  /\ Turn(r, i) \in Turns /\ Turn(r, i) \in ApiItem /\ Turn(r, i) \in Message
           /\ ItemOK(Turn(r, i)) /\ MessageOK(Turn(r, i))
           /\ Turn(r, i).type = "turn" /\ Turn(r, i).r = r /\ Turn(r, i).i = i
  BY DEF Turn, Turns, ApiItem, Message, ItemOK, MessageOK

LEMMA CallTypes ==
    ASSUME NEW op \in {"add", "remove", "modify", "pause", "resume"},
           NEW hw \in {0} \union HwId, NEW g \in Asked, NEW back \in Back
    PROVE  /\ Call(op, hw, g, back) \in ApiItem
           /\ Call(op, hw, g, back).type = "call" /\ Call(op, hw, g, back).op = op
           /\ Call(op, hw, g, back).hw = hw /\ Call(op, hw, g, back).g = g
           /\ Call(op, hw, g, back).back = back
  BY DEF Call, ApiItem

LEMMA GeofenceFields ==
    ASSUME NEW g \in Geofence
    PROVE  /\ g.key \in Session /\ g.mask \in Mask /\ g.paused \in BOOLEAN
           /\ g \in Asked /\ g # None
           /\ \A p \in BOOLEAN : [g EXCEPT !.paused = p] \in Geofence
           /\ \A m \in Mask : [g EXCEPT !.mask = m] \in Geofence
  BY Constants DEF Geofence, Asked

LEMMA AskedFields ==
    ASSUME NEW g \in Asked
    PROVE  /\ g.key \in Session /\ g.paused \in BOOLEAN /\ g.mask \in Mask \union {None}
           /\ g.mask \in Mask => g \in Geofence
  BY DEF Geofence, Asked

LEMMA MessagesPut ==
    ASSUME NEW q, Messages(q), NEW x \in Message, MessageOK(x)
    PROVE  Messages(Append(q, x))
<1>1. q \in Seq(Message) /\ \A n \in DOMAIN q : MessageOK(q[n])
  BY DEF Messages
<1>2. Append(q, x) \in Seq(Message)
  BY <1>1, Putting
<1>3. ASSUME NEW n \in DOMAIN Append(q, x) PROVE MessageOK(Append(q, x)[n])
  <2>1. n \in DOMAIN q \/ n = Len(q) + 1
    BY <1>1, Putting
  <2>2. CASE n \in DOMAIN q
    <3>1. Append(q, x)[n] = q[n]
      BY <1>1, <2>2, Putting
    <3>. QED  BY <1>1, <2>2, <3>1
  <2>3. CASE n = Len(q) + 1
    <3>1. Append(q, x)[n] = x
      BY <1>1, <2>3, Putting
    <3>. QED  BY <3>1
  <2>. QED  BY <2>1, <2>2, <2>3
<1>. QED  BY <1>2, <1>3 DEF Messages

LEMMA MessagesTaken ==
    ASSUME NEW q, Messages(q), q # <<>> PROVE Messages(Tail(q))
<1>1. q \in Seq(Message)
  BY DEF Messages
<1>2. Tail(q) \in Seq(Message) /\ \A n \in DOMAIN Tail(q) : n + 1 \in DOMAIN q /\ Tail(q)[n] = q[n + 1]
  BY <1>1, Taking
<1>. QED  BY <1>1, <1>2 DEF Messages

LEMMA ItemsTaken ==
    ASSUME NEW q, Items(q), q # <<>> PROVE Items(Tail(q))
<1>1. q \in Seq(ApiItem)
  BY DEF Items
<1>2. Tail(q) \in Seq(ApiItem) /\ \A n \in DOMAIN Tail(q) : n + 1 \in DOMAIN q /\ Tail(q)[n] = q[n + 1]
  BY <1>1, Taking
<1>. QED  BY <1>1, <1>2 DEF Items

LEMMA ItemsJoined ==
    ASSUME NEW q, Items(q), NEW p, Items(p) PROVE Items(q \o p)
<1>1. q \in Seq(ApiItem) /\ p \in Seq(ApiItem)
  BY DEF Items
<1>2. q \o p \in Seq(ApiItem)
  BY <1>1, Joining
<1>3. ASSUME NEW n \in DOMAIN (q \o p) PROVE ItemOK((q \o p)[n])
  <2>1. CASE n \in DOMAIN q
    <3>1. (q \o p)[n] = q[n]
      BY <1>1, <2>1, Joining
    <3>. QED  BY <2>1, <3>1 DEF Items
  <2>2. CASE n \notin DOMAIN q
    <3>1. n - Len(q) \in DOMAIN p /\ Len(q) + (n - Len(q)) = n
      BY <1>1, <1>3, <2>2, Joining
    <3>2. (q \o p)[n] = p[n - Len(q)]
      BY <1>1, <3>1, Joining
    <3>. QED  BY <3>1, <3>2 DEF Items
  <2>. QED  BY <2>1, <2>2
<1>. QED  BY <1>2, <1>3 DEF Items

LEMMA ItemsPut ==
    ASSUME NEW q, Items(q), NEW x \in ApiItem, ItemOK(x) PROVE Items(Append(q, x))
<1>1. <<x>> \in Seq(ApiItem) /\ Items(<<x>>)
  BY DEF Items
<1>2. Append(q, x) = q \o <<x>>
  BY DEF Items
<1>. QED  BY <1>1, <1>2, ItemsJoined

LEMMA BatchPut ==
    ASSUME BatchOK, Len(batch) < MaxRequests, NEW b, BatchItem(Len(batch) + 1, b),
           batch' = Append(batch, b)
    PROVE  /\ BatchOK' /\ Len(batch') = Len(batch) + 1
           /\ DOMAIN batch = 1..Len(batch) /\ DOMAIN batch' = 1..(Len(batch) + 1)
           /\ \A r \in DOMAIN batch : batch'[r] = batch[r]
           /\ batch'[Len(batch) + 1] = b /\ Len(batch) \in Nat /\ b # None
<1>1. batch \in Seq(Batch \union {None}) /\ b \in Batch \union {None} /\ b # None
  BY Constants DEF BatchOK, BatchItem
<1>2. /\ batch' \in Seq(Batch \union {None}) /\ Len(batch') = Len(batch) + 1
      /\ DOMAIN batch = 1..Len(batch) /\ DOMAIN batch' = 1..(Len(batch) + 1)
      /\ \A r \in DOMAIN batch : batch'[r] = batch[r]
      /\ batch'[Len(batch) + 1] = b /\ Len(batch) \in Nat
  BY <1>1, Putting
<1>3. Len(batch') <= MaxRequests
  BY <1>2, Constants
<1>4. \A r \in DOMAIN batch' : batch'[r] # None => BatchItem(r, batch'[r])
  <2>1. \A r \in DOMAIN batch' : r \in DOMAIN batch \/ r = Len(batch) + 1
    BY <1>2
  <2>. QED  BY <1>2, <2>1 DEF BatchOK
<1>. QED  BY <1>1, <1>2, <1>3, <1>4 DEF BatchOK, BatchItem

LEMMA BatchSet ==
    ASSUME BatchOK, NEW r \in DOMAIN batch, NEW b, b = None \/ BatchItem(r, b),
           batch' = [batch EXCEPT ![r] = b]
    PROVE  /\ BatchOK' /\ DOMAIN batch' = DOMAIN batch /\ Len(batch') = Len(batch)
           /\ batch'[r] = b
           /\ \A q \in DOMAIN batch : q # r => batch'[q] = batch[q]
<1>1. batch \in Seq(Batch \union {None}) /\ b \in Batch \union {None}
  BY DEF BatchOK, BatchItem
<1>2. /\ batch' \in Seq(Batch \union {None}) /\ Len(batch') = Len(batch)
      /\ DOMAIN batch' = DOMAIN batch /\ batch'[r] = b
      /\ \A q \in DOMAIN batch : q # r => batch'[q] = batch[q]
  BY <1>1
<1>3. \A q \in DOMAIN batch' : batch'[q] # None => BatchItem(q, batch'[q])
  BY <1>2 DEF BatchOK
<1>. QED  BY <1>2, <1>3 DEF BatchOK, BatchItem

LEMMA BatchFields ==
    ASSUME NEW r, NEW b, BatchItem(r, b)
    PROVE  /\ b # None /\ b \in Batch
           /\ b.kind \in {"add", "remove", "modify", "pause", "resume"}
           /\ b.keys \in Seq(Session) /\ b.mask \in Mask \union {None}
           /\ b.errs \in Seq(Outcome) /\ b.did \in Seq(Outcome)
           /\ b.state \in {"live", "freed"}
           /\ DOMAIN b.keys = 1..Len(b.keys) /\ DOMAIN b.keys \subseteq Stage
           /\ Len(b.keys) \in DOMAIN b.keys /\ Len(b.keys) \in Nat
           /\ \A i \in DOMAIN b.keys : b.keys[i] \in Session
           /\ \A i \in DOMAIN b.keys : b.errs[i] \in Outcome /\ b.did[i] \in Outcome
<1>1. b \in Batch /\ Len(b.keys) \in Stage /\ DOMAIN b.errs = DOMAIN b.keys
                  /\ DOMAIN b.did = DOMAIN b.keys
  BY DEF BatchItem
<1>2. /\ b.kind \in {"add", "remove", "modify", "pause", "resume"}
      /\ b.keys \in Seq(Session) /\ b.mask \in Mask \union {None}
      /\ b.errs \in Seq(Outcome) /\ b.did \in Seq(Outcome)
      /\ b.state \in {"live", "freed"}
  BY <1>1 DEF Batch
<1>3. DOMAIN b.keys = 1..Len(b.keys) /\ Len(b.keys) \in {1, 2}
  BY <1>1, <1>2 DEF Stage
<1>4. \A n \in {1, 2} : 1..n \subseteq Stage /\ n \in 1..n /\ n \in Nat
  BY DEF Stage
<1>5. DOMAIN b.keys \subseteq Stage /\ Len(b.keys) \in DOMAIN b.keys /\ Len(b.keys) \in Nat
  BY <1>3, <1>4
<1>. QED  BY <1>1, <1>2, <1>3, <1>5, Constants

\* What became of the i-th geofence is noted, and what is reported for it.
Noted(b, i, d, e) == [b EXCEPT !.did[i] = d, !.errs[i] = e]

LEMMA BatchMarked ==
    ASSUME NEW r, NEW b, BatchItem(r, b), NEW i \in DOMAIN b.keys,
           NEW d \in Outcome, NEW e \in Outcome
    PROVE  LET c == Noted(b, i, d, e) IN
           /\ BatchItem(r, c) /\ c.kind = b.kind /\ c.keys = b.keys /\ c.mask = b.mask
           /\ c.state = b.state /\ c.did[i] = d /\ c.errs[i] = e
           /\ \A j \in DOMAIN b.keys : j # i => c.did[j] = b.did[j] /\ c.errs[j] = b.errs[j]
<1>. DEFINE c == Noted(b, i, d, e)
<1>1. b \in Batch /\ DOMAIN b.errs = DOMAIN b.keys /\ DOMAIN b.did = DOMAIN b.keys
  BY DEF BatchItem
<1>2. /\ c = [b EXCEPT !.did = [b.did EXCEPT ![i] = d], !.errs = [b.errs EXCEPT ![i] = e]]
      /\ b.did \in Seq(Outcome) /\ b.errs \in Seq(Outcome)
  BY <1>1 DEF Batch, Noted
<1>3. /\ [b.did EXCEPT ![i] = d] \in Seq(Outcome) /\ [b.errs EXCEPT ![i] = e] \in Seq(Outcome)
      /\ DOMAIN [b.did EXCEPT ![i] = d] = DOMAIN b.did
      /\ DOMAIN [b.errs EXCEPT ![i] = e] = DOMAIN b.errs
  BY <1>1, <1>2
<1>. HIDE DEF c
<1>4. /\ c \in Batch /\ c.kind = b.kind /\ c.keys = b.keys /\ c.mask = b.mask
      /\ c.state = b.state /\ c.did = [b.did EXCEPT ![i] = d] /\ c.errs = [b.errs EXCEPT ![i] = e]
  BY <1>1, <1>2, <1>3 DEF Batch
<1>5. BatchItem(r, c) /\ c.did[i] = d /\ c.errs[i] = e
  BY <1>1, <1>3, <1>4 DEF BatchItem
<1>. QED  BY <1>1, <1>4, <1>5 DEF c

LEMMA BatchFreed ==
    ASSUME NEW r, NEW b, BatchItem(r, b), NEW c, c = [b EXCEPT !.state = "freed"]
    PROVE  /\ BatchItem(r, c) /\ c.kind = b.kind /\ c.keys = b.keys /\ c.mask = b.mask
           /\ c.did = b.did /\ c.errs = b.errs /\ c.state = "freed"
<1>1. b \in Batch
  BY DEF BatchItem
<1>2. /\ c \in Batch /\ c.kind = b.kind /\ c.keys = b.keys /\ c.mask = b.mask
      /\ c.did = b.did /\ c.errs = b.errs /\ c.state = "freed"
  BY <1>1 DEF Batch
<1>. QED  BY <1>2 DEF BatchItem

\* The three kinds of request post the same way.
Command(r) == [type |-> "command", r |-> r]

Fresh(b) ==
    /\ BatchItem(Len(batch) + 1, b) /\ b.state = "live"
    /\ \A i \in DOMAIN b.keys : b.did[i] = "nothing"

Posted ==
    /\ client /\ Len(batch) < MaxRequests
    /\ \E b : Fresh(b) /\ batch' = Append(batch, b)
    /\ requests' = Append(requests, Len(batch) + 1)
    /\ msgQ' = Append(msgQ, Command(Len(batch) + 1))
    /\ UNCHANGED <<client, tableVars, apiQ, modemVars, wrong, used>>

LEMMA PostFresh ==
    ASSUME Typed, NEW kind \in {"add", "remove", "modify", "pause", "resume"},
           NEW keys \in Seq(Session), Len(keys) \in Stage, NEW mask \in Mask \union {None},
           kind \in {"add", "modify"} => mask \in Mask,
           kind = "add" => \A i \in DOMAIN keys : keys[i] = SessionOf(Len(batch) + 1, i),
           MayRequest(kind), Post(kind, keys, mask),
           UNCHANGED <<client, tableVars, apiQ, modemVars, wrong, used>>
    PROVE  Posted
<1>. DEFINE b == [kind |-> kind, keys |-> keys, mask |-> mask,
                  errs |-> [i \in DOMAIN keys |-> "garbage"],
                  did |-> [i \in DOMAIN keys |-> "nothing"], state |-> "live"]
<1>1. /\ [i \in DOMAIN keys |-> "garbage"] \in Seq(Outcome)
      /\ [i \in DOMAIN keys |-> "nothing"] \in Seq(Outcome)
  BY DEF Outcome
<1>2. b \in Batch
  BY <1>1 DEF Batch
<1>3. BatchItem(Len(batch) + 1, b)
  BY <1>2 DEF BatchItem
<1>4. Fresh(b)
  BY <1>3 DEF Fresh
<1>. QED  BY <1>4 DEF Posted, MayRequest, Post, Command

LEMMA KnownTypes ==
    ASSUME Typed, NEW ids \in Batches
    PROVE  Known(ids) \in Seq(Session) /\ Len(Known(ids)) \in 0..2
<1>. DEFINE S == {i \in DOMAIN ids : forward[ids[i]] > 0}
<1>1. DOMAIN ids \subseteq 1..2 /\ \A i \in DOMAIN ids : ids[i] \in Id
  BY DEF Batches
<1>2. IsFiniteSet(1..2) /\ Cardinality(1..2) = 2
  <2>1. 1 \in Int /\ 2 \in Int /\ ~(1 > 2) /\ (2 - 1) + 1 = 2
    OBVIOUS
  <2>. QED  BY <2>1, FS_Interval
<1>3. IsFiniteSet(S) /\ Cardinality(S) <= 2 /\ S \subseteq Nat
  BY <1>1, <1>2, FS_Subset
<1>4. Cardinality(S) \in Nat /\ InOrder(S) \in [1..Cardinality(S) -> S]
  BY <1>3, Enumerates
<1>5. \A n \in 1..Cardinality(S) : forward[ids[InOrder(S)[n]]] \in Session
  BY <1>1, <1>4 DEF Typed, TypeOK
<1>6. Known(ids) = [n \in 1..Cardinality(S) |-> forward[ids[InOrder(S)[n]]]]
  BY <1>4 DEF Known
<1>7. Known(ids) \in [1..Cardinality(S) -> Session]
  BY <1>5, <1>6
<1>8. \A n \in 0..2 : \A f \in [1..n -> Session] : f \in Seq(Session) /\ Len(f) = n
  OBVIOUS
<1>9. Cardinality(S) \in 0..2
  BY <1>3, <1>4
<1>. QED  BY <1>7, <1>8, <1>9

LEMMA RequestPosts ==
    ASSUME Typed, Request
    PROVE  /\ Posted
           /\ forward' \in [Id -> {0} \union Session] /\ backward' \in [Session -> Id \union {None}]
<1>1. PICK ids \in Batches :
         \/ AddGeofences(ids, CHOOSE mask \in Mask : TRUE)
         \/ RemoveGeofences(ids)
         \/ \E mask \in Mask : ChangeGeofences("modify", ids, mask)
         \/ \E kind \in {"pause", "resume"} : ChangeGeofences(kind, ids, None)
  BY DEF Request
<1>2. /\ DOMAIN ids \in {1..1, 1..2} /\ \A i \in DOMAIN ids : ids[i] \in Id
      /\ DOMAIN ids \subseteq 1..2
  BY DEF Batches
<1>3. forward \in [Id -> {0} \union Session] /\ backward \in [Session -> Id \union {None}]
  BY DEF Typed, TypeOK
<1>4. Len(batch) \in Nat /\ MaxRequests \in Nat
  BY Constants DEF Typed, BatchOK
<1>5. CASE AddGeofences(ids, CHOOSE mask \in Mask : TRUE)
  <2>. DEFINE mask == CHOOSE m \in Mask : TRUE
              sessions == [i \in DOMAIN ids |-> SessionOf(Len(batch) + 1, i)]
  <2>1. /\ MayRequest("add") /\ Post("add", sessions, mask) /\ mask \in Mask
        /\ UNCHANGED <<client, tableVars, apiQ, modemVars, wrong, used>>
    BY <1>5, Constants DEF AddGeofences
  <2>2. Len(batch) < MaxRequests
    BY <2>1 DEF MayRequest
  <2>3. \A i \in 1..2 : SessionOf(Len(batch) + 1, i) \in Session
    BY <1>4, <2>2 DEF SessionOf, Session
  <2>4. sessions \in Seq(Session) /\ Len(sessions) \in Stage
    <3>1. CASE DOMAIN ids = 1..1
      BY <3>1, <2>3 DEF Stage
    <3>2. CASE DOMAIN ids = 1..2
      BY <3>2, <2>3 DEF Stage
    <3>. QED  BY <1>2, <3>1, <3>2
  <2>5. Posted
    BY <2>1, <2>4, PostFresh
  <2>6. forward' \in [Id -> {0} \union Session]
    <3>1. \A id \in Id : (\E i \in DOMAIN ids : ids[i] = id) =>
              sessions[CHOOSE i \in DOMAIN ids : ids[i] = id] \in Session
      BY <1>2, <2>3
    <3>. QED  BY <1>3, <1>5, <3>1 DEF AddGeofences
  <2>7. backward' \in [Session -> Id \union {None}]
    <3>1. \A s \in Session : (\E i \in DOMAIN ids : sessions[i] = s) =>
              ids[CHOOSE i \in DOMAIN ids : sessions[i] = s] \in Id
      BY <1>2
    <3>. QED  BY <1>3, <1>5, <3>1 DEF AddGeofences
  <2>. QED  BY <2>5, <2>6, <2>7
<1>6. CASE RemoveGeofences(ids)
  <2>1. /\ MayRequest("remove") /\ Post("remove", Known(ids), None)
        /\ UNCHANGED <<client, tableVars, apiQ, modemVars, wrong, used>>
        /\ DOMAIN Known(ids) # {}
    BY <1>6 DEF RemoveGeofences
  <2>2. Known(ids) \in Seq(Session) /\ Len(Known(ids)) \in Stage
    BY <2>1, KnownTypes DEF Stage
  <2>3. Posted
    BY <2>1, <2>2, PostFresh
  <2>4. forward' \in [Id -> {0} \union Session] /\ backward' \in [Session -> Id \union {None}]
    BY <1>3, <1>6 DEF RemoveGeofences
  <2>. QED  BY <2>3, <2>4
<1>7. ASSUME NEW kind \in {"modify", "pause", "resume"}, NEW mask \in Mask \union {None},
             ChangeGeofences(kind, ids, mask), kind = "modify" => mask \in Mask
      PROVE  /\ Posted
             /\ UNCHANGED <<forward, backward>>
  <2>1. /\ MayRequest(kind) /\ Post(kind, Known(ids), mask)
        /\ UNCHANGED <<client, tableVars, apiQ, modemVars, wrong, used>>
        /\ Known(ids) # <<>> /\ UNCHANGED <<forward, backward>>
    BY <1>7 DEF ChangeGeofences
  <2>2. Known(ids) \in Seq(Session) /\ Len(Known(ids)) \in Stage
    BY <2>1, KnownTypes DEF Stage
  <2>3. kind \in {"add", "remove", "modify", "pause", "resume"} /\ kind # "add"
    OBVIOUS
  <2>4. kind \in {"add", "modify"} => mask \in Mask
    BY <1>7
  <2>5. Posted
    BY <2>1, <2>2, <2>3, <2>4, PostFresh
  <2>. QED  BY <2>1, <2>5
<1>. QED  BY <1>1, <1>3, <1>5, <1>6, <1>7

LEMMA PostedTypes ==
    ASSUME Typed, Posted PROVE BatchOK' /\ Messages(msgQ') /\ requests' \in Seq(1..MaxRequests)
<1>1. PICK b : Fresh(b) /\ batch' = Append(batch, b)
  BY DEF Posted
<1>2. BatchOK' /\ Len(batch) \in Nat
  BY <1>1, BatchPut DEF Typed, Posted, Fresh
<1>3. Command(Len(batch) + 1) \in Message /\ MessageOK(Command(Len(batch) + 1))
  BY <1>2 DEF Command, Message, MessageOK
<1>4. Messages(msgQ')
  BY <1>3, MessagesPut DEF Posted, Typed
<1>5. Len(batch) + 1 \in 1..MaxRequests
  BY <1>2, Constants DEF Posted
<1>6. requests' \in Seq(1..MaxRequests)
  BY <1>5 DEF Posted, Typed, TypeOK
<1>. QED  BY <1>2, <1>4, <1>6

\* The i-th geofence of r has its outcome: noted, forgotten with the whole
\* request, or lost on arrays already deleted.
Becomes(r, i, b) ==
    /\ batch' = [batch EXCEPT ![r] = b]
    /\ b = None => \A j \in DOMAIN batch[r].keys : j # i => batch[r].did[j] # "nothing"
    /\ b # None =>
         /\ BatchItem(r, b)
         /\ b.kind = batch[r].kind /\ b.keys = batch[r].keys /\ b.mask = batch[r].mask
         /\ \A j \in DOMAIN b.keys : j # i => b.did[j] = batch[r].did[j]
         /\ b.state = "live" => b.did[i] # "nothing" /\ batch[r].state = "live"

Concludes(r, i) == \E b : Becomes(r, i, b)

Wrongs == {"request", "error", "freed", "breach", "unknown", "refused"}

LEMMA FinishConcludes ==
    ASSUME Typed, NEW r \in DOMAIN batch, batch[r] # None, NEW i \in DOMAIN batch[r].keys,
           NEW b, BatchItem(r, b), b.state = batch[r].state,
           b.kind = batch[r].kind, b.keys = batch[r].keys, b.mask = batch[r].mask,
           \A j \in DOMAIN b.keys : j # i => b.did[j] = batch[r].did[j],
           b.did[i] # "nothing", Finish(r, i, b)
    PROVE  Concludes(r, i) /\ requests' \in Seq(1..MaxRequests) /\ wrong' \subseteq Wrongs
<1>1. BatchItem(r, batch[r]) /\ wrong \subseteq Wrongs /\ requests \in Seq(1..MaxRequests)
  BY DEF Typed, BatchOK, TypeOK, Wrongs
<1>2. b # None /\ DOMAIN b.did = DOMAIN b.keys
  BY BatchFields DEF BatchItem
<1>3. CASE i = LastOf(r)
  <2>1. Respond(r, b)
    BY <1>3 DEF Finish
  <2>2. requests' \in Seq(1..MaxRequests)
    <3>1. requests # <<>> => Tail(requests) \in Seq(1..MaxRequests)
      BY <1>1, Taking
    <3>. QED  BY <1>1, <2>1, <3>1 DEF Respond
  <2>3. wrong' \subseteq Wrongs
    BY <1>1, <2>1 DEF Respond, Flag, Wrongs
  <2>4. CASE \E j \in DOMAIN b.did : b.did[j] = "nothing"
    <3>. DEFINE c == [b EXCEPT !.state = "freed"]
    <3>1. batch' = [batch EXCEPT ![r] = c]
      BY <2>1, <2>4 DEF Respond
    <3>2. /\ BatchItem(r, c) /\ c.kind = b.kind /\ c.keys = b.keys /\ c.mask = b.mask
          /\ c.did = b.did /\ c.state = "freed"
      BY BatchFreed
    <3>3. c # None
      BY <3>2, BatchFields
    <3>. HIDE DEF c
    <3>4. Becomes(r, i, c)
      BY <3>1, <3>2, <3>3 DEF Becomes
    <3>. QED  BY <2>2, <2>3, <3>4 DEF Concludes
  <2>5. CASE ~ \E j \in DOMAIN b.did : b.did[j] = "nothing"
    <3>1. batch' = [batch EXCEPT ![r] = None]
      BY <2>1, <2>5 DEF Respond
    <3>2. \A j \in DOMAIN batch[r].keys : j # i => batch[r].did[j] # "nothing"
      BY <1>2, <2>5
    <3>3. Concludes(r, i)
      BY <3>1, <3>2 DEF Concludes, Becomes
    <3>. QED  BY <2>2, <2>3, <3>3
  <2>. QED  BY <2>4, <2>5
<1>4. CASE i # LastOf(r)
  <2>1. /\ batch' = [batch EXCEPT ![r] = IF @.state = "freed" THEN @ ELSE b]
        /\ wrong' = wrong \union Flag(batch[r].state = "freed", "freed")
        /\ UNCHANGED requests
    BY <1>4 DEF Finish
  <2>2. wrong' \subseteq Wrongs
    BY <1>1, <2>1 DEF Flag, Wrongs
  <2>3. CASE batch[r].state = "freed"
    <3>1. batch' = [batch EXCEPT ![r] = batch[r]]
      BY <2>1, <2>3
    <3>2. Concludes(r, i)
      BY <1>1, <2>3, <3>1 DEF Concludes, Becomes
    <3>. QED  BY <1>1, <2>1, <2>2, <3>2
  <2>4. CASE batch[r].state # "freed"
    <3>1. batch' = [batch EXCEPT ![r] = b]
      BY <2>1, <2>4
    <3>2. Concludes(r, i)
      BY <1>2, <3>1 DEF Concludes, Becomes
    <3>. QED  BY <1>1, <2>1, <2>2, <3>2
  <2>. QED  BY <2>3, <2>4
<1>. QED  BY <1>3, <1>4

LEMMA ConcludesTypes ==
    ASSUME BatchOK, NEW r \in DOMAIN batch, batch[r] # None, NEW i, Concludes(r, i)
    PROVE  BatchOK' /\ Len(batch') = Len(batch) /\ DOMAIN batch' = DOMAIN batch
           /\ \A q \in DOMAIN batch : q # r => batch'[q] = batch[q]
  BY BatchSet DEF Concludes, Becomes

LEMMA OutcomeTypes ==
    ASSUME Typed, NEW r, NEW b, BatchItem(r, b), NEW hw \in HwId, NEW i \in DOMAIN b.keys,
           SaveOutcome(b.kind, hw, b, i)
    PROVE  /\ mGeofenceIds' \in [Session -> {0} \union HwId]
           /\ mGeofences' \in [HwId -> Geofence \union {None}]
<1>1. /\ mGeofenceIds \in [Session -> {0} \union HwId]
      /\ mGeofences \in [HwId -> Geofence \union {None}]
  BY DEF Typed, TypeOK
<1>2. /\ b.kind \in {"add", "remove", "modify", "pause", "resume"} /\ b.keys[i] \in Session
      /\ b.kind \in {"add", "modify"} => b.mask \in Mask
  BY BatchFields DEF BatchItem
<1>3. CASE b.kind = "add"
  <2>. DEFINE g == [key |-> b.keys[i], mask |-> b.mask, paused |-> FALSE]
  <2>1. SaveGeofenceItem(hw, g) /\ g \in Geofence
    BY <1>2, <1>3 DEF SaveOutcome, Geofence
  <2>2. g.key \in Session
    BY <1>2
  <2>. QED  BY <1>1, <2>1, <2>2 DEF SaveGeofenceItem
<1>4. CASE b.kind = "remove"
  <2>1. RemoveGeofenceItem(hw)
    BY <1>4 DEF SaveOutcome
  <2>2. CASE mGeofences[hw] # None
    <3>1. mGeofences[hw].key \in Session
      BY <1>1, <2>2, GeofenceFields
    <3>. QED  BY <1>1, <2>1, <3>1 DEF RemoveGeofenceItem, tableVars
  <2>3. CASE mGeofences[hw] = None
    BY <1>1, <2>1, <2>3 DEF RemoveGeofenceItem, tableVars
  <2>. QED  BY <2>2, <2>3
<1>5. ASSUME NEW g, ChangeGeofenceItem(hw, g), mGeofences[hw] # None => g \in Geofence
      PROVE  /\ mGeofenceIds' \in [Session -> {0} \union HwId]
             /\ mGeofences' \in [HwId -> Geofence \union {None}]
  BY <1>1, <1>5 DEF ChangeGeofenceItem
<1>6. mGeofences[hw] # None =>
         /\ mGeofences[hw] \in Geofence
         /\ [mGeofences[hw] EXCEPT !.paused = TRUE] \in Geofence
         /\ [mGeofences[hw] EXCEPT !.paused = FALSE] \in Geofence
         /\ b.kind = "modify" => [mGeofences[hw] EXCEPT !.mask = b.mask] \in Geofence
  BY <1>1, <1>2, GeofenceFields
<1>7. CASE b.kind = "modify"
  BY <1>5, <1>6, <1>7 DEF SaveOutcome
<1>8. CASE b.kind = "pause"
  BY <1>5, <1>6, <1>8 DEF SaveOutcome
<1>9. CASE b.kind = "resume"
  BY <1>5, <1>6, <1>9 DEF SaveOutcome
<1>. QED  BY <1>2, <1>3, <1>4, <1>7, <1>8, <1>9

LEMMA HeadMessage ==
    ASSUME Typed, NEW type, Arrives(type)
    PROVE  /\ msgQ # <<>> /\ Head(msgQ) = msgQ[1] /\ Head(msgQ).type = type
           /\ 1 \in DOMAIN msgQ /\ Head(msgQ) \in Message /\ MessageOK(Head(msgQ))
           /\ Messages(Tail(msgQ))
<1>1. msgQ \in Seq(Message) /\ msgQ # <<>> /\ Head(msgQ).type = type
  BY DEF Typed, Messages, Arrives
<1>2. Head(msgQ) = msgQ[1] /\ 1 \in DOMAIN msgQ /\ msgQ[1] \in Message
  BY <1>1, Taking
<1>. QED  BY <1>1, <1>2, MessagesTaken DEF Typed, Messages

LEMMA HeadItem ==
    ASSUME Typed, NEW type, LocApiTakes(type)
    PROVE  /\ apiQ # <<>> /\ Head(apiQ) = apiQ[1] /\ Head(apiQ).type = type
           /\ 1 \in DOMAIN apiQ /\ Head(apiQ) \in ApiItem /\ ItemOK(Head(apiQ))
           /\ apiQ' = Tail(apiQ) /\ Items(apiQ')
<1>1. apiQ \in Seq(ApiItem) /\ apiQ # <<>> /\ Head(apiQ).type = type /\ apiQ' = Tail(apiQ)
  BY DEF Typed, Items, LocApiTakes
<1>2. Head(apiQ) = apiQ[1] /\ 1 \in DOMAIN apiQ /\ apiQ[1] \in ApiItem
  BY <1>1, Taking
<1>. QED  BY <1>1, <1>2, ItemsTaken DEF Typed, Items

-----------------------------------------------------------------------------
(* How the queues change *)

\* p is q without its first d elements, d being 0 or 1, and with c more from N.
Shifted(q, p, d, c, N) ==
    /\ d \in {0, 1} /\ Len(q) \in Nat /\ Len(p) \in Nat /\ c \in Nat
    /\ Len(q) >= d /\ Len(p) = (Len(q) - d) + c
    /\ DOMAIN q = 1..Len(q) /\ DOMAIN p = 1..Len(p)
    /\ \A n \in DOMAIN p : \/ n + d \in DOMAIN q /\ p[n] = q[n + d]
                           \/ n + d > Len(q) /\ p[n] \in N
    /\ \A n \in DOMAIN q : n > d => n - d \in DOMAIN p /\ p[n - d] = q[n]

LEMMA Unshifted ==
    ASSUME NEW S, NEW q \in Seq(S) PROVE Shifted(q, q, 0, 0, {})
  BY DEF Shifted

LEMMA TailShifted ==
    ASSUME NEW S, NEW q \in Seq(S), q # <<>> PROVE Shifted(q, Tail(q), 1, 0, {})
<1>1. /\ Len(q) \in Nat /\ Len(q) >= 1 /\ DOMAIN q = 1..Len(q)
      /\ Len(Tail(q)) = Len(q) - 1 /\ DOMAIN Tail(q) = 1..(Len(q) - 1)
      /\ \A n \in DOMAIN Tail(q) : n + 1 \in DOMAIN q /\ Tail(q)[n] = q[n + 1]
  BY Taking
<1>2. \A n \in DOMAIN q : n > 1 => n - 1 \in DOMAIN Tail(q) /\ Tail(q)[n - 1] = q[n]
  BY <1>1
<1>3. Len(Tail(q)) = (Len(q) - 1) + 0 /\ Len(Tail(q)) \in Nat
  BY <1>1
<1>. QED  BY <1>1, <1>2, <1>3 DEF Shifted

LEMMA AppendShifted ==
    ASSUME NEW S, NEW q \in Seq(S), NEW x \in S
    PROVE  Shifted(q, Append(q, x), 0, 1, {x}) /\ Append(q, x)[Len(q) + 1] = x
<1>1. /\ Len(Append(q, x)) = Len(q) + 1 /\ Len(q) \in Nat
      /\ DOMAIN q = 1..Len(q) /\ DOMAIN Append(q, x) = 1..(Len(q) + 1)
      /\ \A n \in DOMAIN q : Append(q, x)[n] = q[n]
      /\ Append(q, x)[Len(q) + 1] = x
  BY Putting
<1>2. \A n \in DOMAIN Append(q, x) : n \in DOMAIN q \/ n = Len(q) + 1
  BY <1>1
<1>. QED  BY <1>1, <1>2 DEF Shifted

LEMMA JoinShifted ==
    ASSUME NEW S, NEW q \in Seq(S), NEW p \in Seq(S), NEW N, \A n \in DOMAIN p : p[n] \in N
    PROVE  /\ Shifted(q, q \o p, 0, Len(p), N) /\ Len(p) \in Nat
           /\ DOMAIN p = 1..Len(p) /\ \A n \in DOMAIN p : (q \o p)[Len(q) + n] = p[n]
<1>1. /\ Len(q \o p) = Len(q) + Len(p) /\ Len(q) \in Nat /\ Len(p) \in Nat
      /\ DOMAIN q = 1..Len(q) /\ DOMAIN p = 1..Len(p) /\ DOMAIN (q \o p) = 1..(Len(q) + Len(p))
      /\ \A n \in DOMAIN q : (q \o p)[n] = q[n]
      /\ \A n \in DOMAIN p : Len(q) + n \in DOMAIN (q \o p) /\ (q \o p)[Len(q) + n] = p[n]
  BY Joining
<1>2. ASSUME NEW n \in DOMAIN (q \o p), n \notin DOMAIN q
      PROVE  n > Len(q) /\ (q \o p)[n] \in N
  <2>1. n > Len(q) /\ n - Len(q) \in DOMAIN p /\ Len(q) + (n - Len(q)) = n
    BY <1>1, <1>2
  <2>2. (q \o p)[n] = p[n - Len(q)]
    BY <1>1, <2>1
  <2>. QED  BY <2>1, <2>2
<1>. QED  BY <1>1, <1>2 DEF Shifted

\* The two queues together
Flow(dm, cm, M, da, ca, A) ==
    Shifted(msgQ, msgQ', dm, cm, M) /\ Shifted(apiQ, apiQ', da, ca, A)

Even == {0, 2, 4}

\* Whatever holds a place held one before, or has just come.
LEMMA AtBefore ==
    ASSUME NEW dm, NEW cm, NEW M, NEW da, NEW ca, NEW A, Flow(dm, cm, M, da, ca, A),
           NEW k, NEW n, NEW r, NEW i, At(k, n, r, i)'
    PROVE  \/ At(k, n + (IF k \in Even THEN dm ELSE da), r, i)
           \/ /\ k \in Even /\ n \in DOMAIN msgQ' /\ n + dm > Len(msgQ)
              /\ msgQ'[n] \in M /\ InMsg(msgQ'[n], k) /\ Holds(msgQ'[n], r, i)
           \/ /\ k \in {1, 3} /\ n \in DOMAIN apiQ' /\ n + da > Len(apiQ)
              /\ apiQ'[n] \in A /\ InApi(apiQ'[n], k) /\ Holds(apiQ'[n], r, i)
<1>1. CASE n \in DOMAIN msgQ' /\ InMsg(msgQ'[n], k) /\ Holds(msgQ'[n], r, i)
  <2>1. k \in Even
    BY <1>1 DEF InMsg, Even
  <2>2. \/ n + dm \in DOMAIN msgQ /\ msgQ'[n] = msgQ[n + dm]
        \/ n + dm > Len(msgQ) /\ msgQ'[n] \in M
    BY <1>1 DEF Flow, Shifted
  <2>. QED  BY <1>1, <2>1, <2>2 DEF At
<1>2. CASE n \in DOMAIN apiQ' /\ InApi(apiQ'[n], k) /\ Holds(apiQ'[n], r, i)
  <2>1. k \in {1, 3} /\ k \notin Even
    BY <1>2 DEF InApi, Even
  <2>2. \/ n + da \in DOMAIN apiQ /\ apiQ'[n] = apiQ[n + da]
        \/ n + da > Len(apiQ) /\ apiQ'[n] \in A
    BY <1>2 DEF Flow, Shifted
  <2>. QED  BY <1>2, <2>1, <2>2 DEF At
<1>3. At(k, n, r, i)' <=>
         \/ n \in DOMAIN msgQ' /\ InMsg(msgQ'[n], k) /\ Holds(msgQ'[n], r, i)
         \/ n \in DOMAIN apiQ' /\ InApi(apiQ'[n], k) /\ Holds(apiQ'[n], r, i)
  BY DEF At, InMsg, InApi, Holds
<1>. QED  BY <1>1, <1>2, <1>3

\* A place is kept unless it was at the head of a queue that moved.
LEMMA AtAfter ==
    ASSUME NEW dm, NEW cm, NEW M, NEW da, NEW ca, NEW A, Flow(dm, cm, M, da, ca, A),
           NEW k, NEW n, NEW r, NEW i, At(k, n, r, i),
           n > (IF k \in Even THEN dm ELSE da)
    PROVE  At(k, n - (IF k \in Even THEN dm ELSE da), r, i)'
<1>1. CASE n \in DOMAIN msgQ /\ InMsg(msgQ[n], k) /\ Holds(msgQ[n], r, i)
  <2>1. k \in Even
    BY <1>1 DEF InMsg, Even
  <2>2. n - dm \in DOMAIN msgQ' /\ msgQ'[n - dm] = msgQ[n]
    BY <1>1, <2>1 DEF Flow, Shifted
  <2>. QED  BY <1>1, <2>1, <2>2 DEF At, InMsg, Holds
<1>2. CASE n \in DOMAIN apiQ /\ InApi(apiQ[n], k) /\ Holds(apiQ[n], r, i)
  <2>1. k \notin Even
    BY <1>2 DEF InApi, Even
  <2>2. n - da \in DOMAIN apiQ' /\ apiQ'[n - da] = apiQ[n]
    BY <1>2, <2>1 DEF Flow, Shifted
  <2>. QED  BY <1>2, <2>1, <2>2 DEF At, InApi, Holds
<1>. QED  BY <1>1, <1>2 DEF At

LEMMA AtPlaces ==
    ASSUME Typed, NEW k, NEW n, NEW r, NEW i, At(k, n, r, i)
    PROVE  n \in Nat /\ n >= 1 /\ k \in 0..4
<1>1. DOMAIN msgQ = 1..Len(msgQ) /\ Len(msgQ) \in Nat
      /\ DOMAIN apiQ = 1..Len(apiQ) /\ Len(apiQ) \in Nat
  BY DEF Typed, Messages, Items
<1>. QED  BY <1>1 DEF At, InMsg, InApi

\* A token is in one place only.
LEMMA OnePlace ==
    ASSUME Typed, OrderInv, NEW r \in Nat, NEW i \in Stage, NEW k, NEW n, NEW l, NEW m,
           At(k, n, r, i), At(l, m, r, i)
    PROVE  k = l /\ n = m
<1>1. k \in 0..4 /\ l \in 0..4 /\ m \in Nat /\ n \in Nat
  BY AtPlaces
<1>2. Upto(r, i, r, i)
  BY DEF Upto, Stage
<1>. QED  BY <1>1, <1>2 DEF OrderInv
-----------------------------------------------------------------------------
(* The order of requests *)

LEMMA OrderOf ==
    ASSUME OrderInv, NEW r \in Nat, NEW q \in Nat, NEW i \in Stage, NEW j \in Stage,
           NEW k \in 0..4, NEW l \in 0..4, NEW m \in Nat, NEW n \in Nat,
           Upto(r, i, q, j), At(k, m, r, i), At(l, n, q, j)
    PROVE  k > l \/ (k = l /\ m <= n)
  BY Zenon DEF OrderInv

LEMMA OrderNext ==
    ASSUME \A r, q \in Nat, i, j \in Stage, k, l \in 0..4, m, n \in Nat :
               Upto(r, i, q, j) /\ At(k, m, r, i)' /\ At(l, n, q, j)' =>
                   k > l \/ (k = l /\ m <= n)
    PROVE  OrderInv'
  BY Zenon DEF OrderInv, Upto

\* Places are as before but for that of the head, which is now k0 + 1, beyond L.
Moved(dm, da, k0, L) ==
    \A k \in 0..4, n \in Nat, r \in Nat, i \in Stage : At(k, n, r, i)' =>
        \/ /\ At(k, n + (IF k \in Even THEN dm ELSE da), r, i)
           /\ n >= 1 /\ (k = k0 + 1 => n <= L)
        \/ k = k0 + 1 /\ n > L /\ At(k0, 1, r, i)

InLine(k, L) ==
    \A m, n \in Nat, r, q \in Nat, i, j \in Stage :
        Upto(r, i, q, j) /\ m > L /\ n > L /\ At(k, m, r, i)' /\ At(k, n, q, j)' => m <= n

LEMMA OrderWhenMoved ==
    ASSUME Typed, OrderInv, NEW dm \in {0, 1}, NEW da \in {0, 1},
           NEW k0 \in 0..3, (IF k0 \in Even THEN dm ELSE da) = 1, NEW L \in Nat,
           Moved(dm, da, k0, L), InLine(k0 + 1, L)
    PROVE  OrderInv'
<1>. SUFFICES ASSUME NEW r \in Nat, NEW q \in Nat, NEW i \in Stage, NEW j \in Stage,
                     NEW k \in 0..4, NEW l \in 0..4, NEW m \in Nat, NEW n \in Nat,
                     Upto(r, i, q, j), At(k, m, r, i)', At(l, n, q, j)'
              PROVE  k > l \/ (k = l /\ m <= n)
  BY OrderNext
<1>. DEFINE d(x) == IF x \in Even THEN dm ELSE da
            K == k0 + 1
            p == m + d(k)
            s == n + d(l)
<1>1. /\ d(k) \in {0, 1} /\ d(l) \in {0, 1} /\ d(k0) = 1 /\ K \in 1..4
      /\ p \in Nat /\ s \in Nat /\ 1 \in Nat /\ k0 \in 0..4
  OBVIOUS
<1>2. \/ At(k, p, r, i) /\ m >= 1 /\ (k = K => m <= L)
      \/ k = K /\ m > L /\ At(k0, 1, r, i)
  BY DEF Moved
<1>3. \/ At(l, s, q, j) /\ n >= 1 /\ (l = K => n <= L)
      \/ l = K /\ n > L /\ At(k0, 1, q, j)
  BY DEF Moved
<1>4. (k = l => (p <= s => m <= n)) /\ (k = k0 => p = m + 1)
  BY <1>1
<1>. HIDE DEF p, s
<1>5. CASE At(k, p, r, i) /\ At(l, s, q, j)
  <2>1. k > l \/ (k = l /\ p <= s)
    BY <1>1, <1>5, OrderOf
  <2>. QED  BY <1>4, <2>1
<1>6. CASE /\ At(k, p, r, i) /\ m >= 1 /\ (k = K => m <= L)
           /\ l = K /\ n > L /\ At(k0, 1, q, j)
  <2>1. k > k0 \/ (k = k0 /\ p <= 1)
    BY <1>1, <1>6, OrderOf
  <2>2. k > k0
    BY <1>1, <1>4, <1>6, <2>1
  <2>. QED  BY <2>2, <1>1, <1>6
<1>7. CASE k = K /\ At(k0, 1, r, i) /\ At(l, s, q, j)
  <2>1. k0 > l \/ k0 = l
    BY <1>1, <1>7, OrderOf
  <2>. QED  BY <1>1, <1>7, <2>1
<1>8. CASE k = K /\ m > L /\ l = K /\ n > L
  BY <1>8 DEF InLine
<1>. QED  BY <1>2, <1>3, <1>5, <1>6, <1>7, <1>8

\* Steps that bring no token along
LEMMA OrderWhenPlain ==
    ASSUME Typed, OrderInv, NEW dm, NEW cm, NEW M, NEW da, NEW ca, NEW A,
           Flow(dm, cm, M, da, ca, A), \A x \in M \union A : \A r, i : ~Holds(x, r, i)
    PROVE  OrderInv'
<1>. SUFFICES ASSUME NEW r \in Nat, NEW q \in Nat, NEW i \in Stage, NEW j \in Stage,
                     NEW k \in 0..4, NEW l \in 0..4, NEW m \in Nat, NEW n \in Nat,
                     Upto(r, i, q, j), At(k, m, r, i)', At(l, n, q, j)'
              PROVE  k > l \/ (k = l /\ m <= n)
  BY OrderNext
<1>. DEFINE d(x) == IF x \in Even THEN dm ELSE da
<1>1. d(k) \in {0, 1} /\ d(l) \in {0, 1} /\ (k = l => d(k) = d(l))
  BY DEF Flow, Shifted
<1>2. At(k, m + d(k), r, i) /\ At(l, n + d(l), q, j)
  BY AtBefore
<1>3. m + d(k) \in Nat /\ n + d(l) \in Nat
  BY <1>1
<1>4. k > l \/ (k = l /\ m + d(k) <= n + d(l))
  BY <1>2, <1>3, OrderOf
<1>. QED  BY <1>1, <1>4

LEMMA PlacesNext ==
    ASSUME NEW dm, NEW cm, NEW M, NEW da, NEW ca, NEW A, Flow(dm, cm, M, da, ca, A),
           NEW k, NEW n, NEW r, NEW i, At(k, n, r, i)'
    PROVE  n \in Nat /\ n >= 1
<1>1. n \in DOMAIN msgQ' \/ n \in DOMAIN apiQ'
  BY DEF At
<1>2. DOMAIN msgQ' = 1..Len(msgQ') /\ DOMAIN apiQ' = 1..Len(apiQ')
      /\ Len(msgQ') \in Nat /\ Len(apiQ') \in Nat
  BY DEF Flow, Shifted
<1>. QED  BY <1>1, <1>2

\* The head of LocApi's queue is handed to the adapter.
LEMMA OrderWhenHanded ==
    ASSUME Typed, OrderInv, NEW k0 \in {1, 3}, NEW x, Flow(0, 1, {x}, 1, 0, {}),
           \A k : InMsg(x, k) => k = k0 + 1, \A r, i : Holds(x, r, i) => At(k0, 1, r, i)
    PROVE  OrderInv'
<1>1. /\ Len(msgQ) \in Nat /\ k0 \in 0..3 /\ k0 \notin Even /\ k0 + 1 \in Even
      /\ DOMAIN msgQ = 1..Len(msgQ) /\ DOMAIN msgQ' = 1..(Len(msgQ) + 1)
      /\ DOMAIN apiQ = 1..Len(apiQ) /\ Len(apiQ) \in Nat
  BY DEF Flow, Shifted, Even
<1>2. ASSUME NEW k \in 0..4, NEW n \in Nat, NEW r \in Nat, NEW i \in Stage, At(k, n, r, i)'
      PROVE  \/ /\ At(k, n + (IF k \in Even THEN 0 ELSE 1), r, i)
                /\ n >= 1 /\ (k = k0 + 1 => n <= Len(msgQ))
             \/ k = k0 + 1 /\ n > Len(msgQ) /\ At(k0, 1, r, i)
  <2>1. n >= 1
    BY <1>2, PlacesNext
  <2>2. CASE At(k, n + (IF k \in Even THEN 0 ELSE 1), r, i)
    <3>1. k = k0 + 1 => n + 0 \in DOMAIN msgQ
      BY <1>1, <2>2 DEF At, InApi
    <3>. QED  BY <2>1, <2>2, <3>1, <1>1
  <2>3. CASE n + 0 > Len(msgQ) /\ msgQ'[n] \in {x} /\ InMsg(msgQ'[n], k) /\ Holds(msgQ'[n], r, i)
    BY <2>3
  <2>. QED  BY <1>2, <2>2, <2>3, AtBefore
<1>3. ASSUME NEW m \in Nat, NEW n \in Nat, NEW r \in Nat, NEW q \in Nat,
             NEW i \in Stage, NEW j \in Stage, m > Len(msgQ), n > Len(msgQ),
             At(k0 + 1, m, r, i)', At(k0 + 1, n, q, j)'
      PROVE  m <= n
  <2>1. m \in DOMAIN msgQ' /\ n \in DOMAIN msgQ'
    BY <1>1, <1>3 DEF At, InApi
  <2>. QED  BY <1>1, <1>3, <2>1
<1>4. (IF k0 \in Even THEN 0 ELSE 1) = 1
  BY <1>1
<1>5. Moved(0, 1, k0, Len(msgQ)) /\ InLine(k0 + 1, Len(msgQ))
  BY <1>2, <1>3 DEF Moved, InLine
<1>. QED  BY <1>1, <1>4, <1>5, OrderWhenMoved

\* The head of the adapter's queue makes LocApi's grow.
LEMMA OrderWhenPassed ==
    ASSUME Typed, OrderInv, NEW k0 \in {0, 2}, NEW c, NEW A, Flow(1, 0, {}, 0, c, A),
           \A x \in A : \A k : InApi(x, k) => k = k0 + 1,
           \A x \in A : \A r, i : Holds(x, r, i) => At(k0, 1, r, i),
           \A m, n \in DOMAIN apiQ' : \A r, q, i, j :
               m > Len(apiQ) /\ n > Len(apiQ) /\ Holds(apiQ'[m], r, i) /\ Holds(apiQ'[n], q, j)
                   => (Upto(r, i, q, j) => m <= n)
    PROVE  OrderInv'
<1>1. /\ Len(apiQ) \in Nat /\ k0 \in 0..3 /\ k0 \in Even /\ k0 + 1 \notin Even
      /\ DOMAIN apiQ = 1..Len(apiQ)
      /\ DOMAIN msgQ = 1..Len(msgQ) /\ Len(msgQ) \in Nat
  BY DEF Flow, Shifted, Even
<1>2. ASSUME NEW k \in 0..4, NEW n \in Nat, NEW r \in Nat, NEW i \in Stage, At(k, n, r, i)'
      PROVE  \/ /\ At(k, n + (IF k \in Even THEN 1 ELSE 0), r, i)
                /\ n >= 1 /\ (k = k0 + 1 => n <= Len(apiQ))
             \/ k = k0 + 1 /\ n > Len(apiQ) /\ At(k0, 1, r, i)
  <2>1. n >= 1
    BY <1>2, PlacesNext
  <2>2. CASE At(k, n + (IF k \in Even THEN 1 ELSE 0), r, i)
    <3>1. k = k0 + 1 => n + 0 \in DOMAIN apiQ
      BY <1>1, <2>2 DEF At, InMsg
    <3>. QED  BY <2>1, <2>2, <3>1, <1>1
  <2>3. CASE n + 0 > Len(apiQ) /\ apiQ'[n] \in A /\ InApi(apiQ'[n], k) /\ Holds(apiQ'[n], r, i)
    BY <2>3
  <2>. QED  BY <1>2, <2>2, <2>3, AtBefore
<1>3. ASSUME NEW m \in Nat, NEW n \in Nat, NEW r \in Nat, NEW q \in Nat,
             NEW i \in Stage, NEW j \in Stage, Upto(r, i, q, j), m > Len(apiQ), n > Len(apiQ),
             At(k0 + 1, m, r, i)', At(k0 + 1, n, q, j)'
      PROVE  m <= n
  <2>1. /\ m \in DOMAIN apiQ' /\ n \in DOMAIN apiQ'
        /\ Holds(apiQ'[m], r, i) /\ Holds(apiQ'[n], q, j)
    BY <1>1, <1>3 DEF At, InMsg
  <2>. QED  BY <1>3, <2>1
<1>4. (IF k0 \in Even THEN 1 ELSE 0) = 1
  BY <1>1
<1>5. Moved(1, 0, k0, Len(apiQ)) /\ InLine(k0 + 1, Len(apiQ))
  BY <1>2, <1>3 DEF Moved, InLine
<1>. QED  BY <1>1, <1>4, <1>5, OrderWhenMoved

\* A new request joins behind all others.
LEMMA OrderWhenPosted ==
    ASSUME Typed, OrderInv, CarriedInv, Flow(0, 1, {Command(Len(batch) + 1)}, 0, 0, {})
    PROVE  OrderInv'
<1>. DEFINE R == Len(batch) + 1
            x == Command(R)
<1>1. /\ Len(msgQ) \in Nat /\ DOMAIN msgQ = 1..Len(msgQ) /\ DOMAIN msgQ' = 1..(Len(msgQ) + 1)
      /\ R \in Nat /\ DOMAIN batch = 1..Len(batch)
  BY DEF Flow, Shifted, Typed, BatchOK
<1>2. ASSUME NEW k, NEW n, NEW r, NEW i, At(k, n, r, i) PROVE r < R
  <2>1. r \in DOMAIN batch
    BY <1>2 DEF At, CarriedInv, CarriedOK, Open, Holds, InMsg, InApi
  <2>. QED  BY <1>1, <2>1
<1>3. ASSUME NEW k, NEW n, NEW r, NEW i, At(k, n, r, i)'
      PROVE  \/ At(k, n, r, i) \/ (k = 0 /\ n = Len(msgQ) + 1 /\ r = R)
  <2>1. CASE At(k, n + (IF k \in Even THEN 0 ELSE 0), r, i)
    BY <1>3, <2>1, PlacesNext
  <2>2. CASE /\ n \in DOMAIN msgQ' /\ n + 0 > Len(msgQ) /\ msgQ'[n] \in {x}
             /\ InMsg(msgQ'[n], k) /\ Holds(msgQ'[n], r, i)
    BY <1>1, <2>2 DEF InMsg, Holds, Command
  <2>. QED  BY <1>3, <2>1, <2>2, AtBefore
<1>. SUFFICES ASSUME NEW r \in Nat, NEW q \in Nat, NEW i \in Stage, NEW j \in Stage,
                     NEW k \in 0..4, NEW l \in 0..4, NEW m \in Nat, NEW n \in Nat,
                     Upto(r, i, q, j), At(k, m, r, i)', At(l, n, q, j)'
              PROVE  k > l \/ (k = l /\ m <= n)
  BY OrderNext
<1>4. CASE At(k, m, r, i) /\ At(l, n, q, j)
  BY <1>4, OrderOf
<1>5. CASE At(k, m, r, i) /\ l = 0 /\ n = Len(msgQ) + 1
  <2>1. k = 0 => m \in DOMAIN msgQ
    BY <1>5 DEF At, InApi
  <2>. QED  BY <1>1, <1>5, <2>1
<1>6. CASE k = 0 /\ m = Len(msgQ) + 1 /\ r = R
  <2>1. ~(q < R)
    BY <1>1, <1>6 DEF Upto
  <2>2. l = 0 /\ n = Len(msgQ) + 1
    BY <1>2, <1>3, <2>1
  <2>. QED  BY <1>6, <2>2
<1>. QED  BY <1>3, <1>4, <1>5, <1>6
-----------------------------------------------------------------------------
(* What each operation does to the queues, and that the types are kept *)

LEMMA MsgTail ==
    ASSUME Typed, msgQ # <<>>, msgQ' = Tail(msgQ)
    PROVE  Shifted(msgQ, msgQ', 1, 0, {}) /\ Messages(msgQ')
  BY TailShifted, MessagesTaken DEF Typed, Messages

LEMMA MsgAppend ==
    ASSUME Typed, NEW x \in Message, MessageOK(x), msgQ' = Append(msgQ, x)
    PROVE  /\ Shifted(msgQ, msgQ', 0, 1, {x}) /\ Messages(msgQ')
           /\ msgQ'[Len(msgQ) + 1] = x
<1>1. msgQ \in Seq(Message)
  BY DEF Typed, Messages
<1>. QED  BY <1>1, AppendShifted, MessagesPut DEF Typed

LEMMA MsgSame ==
    ASSUME Typed, UNCHANGED msgQ PROVE Shifted(msgQ, msgQ', 0, 0, {}) /\ Messages(msgQ')
<1>1. msgQ \in Seq(Message)
  BY DEF Typed, Messages
<1>. QED  BY <1>1, Unshifted DEF Typed

LEMMA ApiTail ==
    ASSUME Typed, apiQ # <<>>, apiQ' = Tail(apiQ)
    PROVE  Shifted(apiQ, apiQ', 1, 0, {}) /\ Items(apiQ')
  BY TailShifted, ItemsTaken DEF Typed, Items

LEMMA ApiAppend ==
    ASSUME Typed, NEW x \in ApiItem, ItemOK(x), apiQ' = Append(apiQ, x)
    PROVE  /\ Shifted(apiQ, apiQ', 0, 1, {x}) /\ Items(apiQ')
           /\ apiQ'[Len(apiQ) + 1] = x
<1>1. apiQ \in Seq(ApiItem)
  BY DEF Typed, Items
<1>. QED  BY <1>1, AppendShifted, ItemsPut DEF Typed

LEMMA ApiSame ==
    ASSUME Typed, UNCHANGED apiQ PROVE Shifted(apiQ, apiQ', 0, 0, {}) /\ Items(apiQ')
<1>1. apiQ \in Seq(ApiItem)
  BY DEF Typed, Items
<1>. QED  BY <1>1, Unshifted DEF Typed

LEMMA ApiJoin ==
    ASSUME Typed, NEW p, Items(p), NEW A, \A n \in DOMAIN p : p[n] \in A, apiQ' = apiQ \o p
    PROVE  /\ Shifted(apiQ, apiQ', 0, Len(p), A) /\ Items(apiQ')
           /\ Len(apiQ) \in Nat /\ Len(p) \in Nat /\ DOMAIN p = 1..Len(p)
           /\ \A n \in DOMAIN p : apiQ'[Len(apiQ) + n] = p[n]
<1>1. apiQ \in Seq(ApiItem) /\ p \in Seq(ApiItem)
  BY DEF Typed, Items
<1>2. Items(apiQ')
  BY ItemsJoined DEF Typed
<1>3. Len(apiQ) \in Nat
  BY <1>1
<1>. QED  BY <1>1, <1>2, <1>3, JoinShifted

TypesKept == TypeOK' /\ BatchOK' /\ Messages(msgQ') /\ Items(apiQ')

LEMMA TypedNext == ASSUME TypesKept PROVE Typed'
  BY DEF TypesKept, Typed, Messages, Items

\* The tables as TypeOK has them
TablesOK ==
    /\ mGeofenceIds \in [Session -> {0} \union HwId]
    /\ mGeofences \in [HwId -> Geofence \union {None}]

LEMMA PostedFlows ==
    ASSUME Typed, Request
    PROVE  /\ TypesKept /\ Posted /\ Flow(0, 1, {Command(Len(batch) + 1)}, 0, 0, {})
           /\ msgQ'[Len(msgQ) + 1] = Command(Len(batch) + 1)
<1>1. /\ Posted /\ BatchOK' /\ Messages(msgQ') /\ requests' \in Seq(1..MaxRequests)
      /\ forward' \in [Id -> {0} \union Session] /\ backward' \in [Session -> Id \union {None}]
  BY RequestPosts, PostedTypes
<1>2. Len(batch) + 1 \in Nat
  BY DEF Typed, BatchOK
<1>3. Command(Len(batch) + 1) \in Message /\ MessageOK(Command(Len(batch) + 1))
  BY <1>2 DEF Command, Message, MessageOK
<1>4. /\ Shifted(msgQ, msgQ', 0, 1, {Command(Len(batch) + 1)})
      /\ msgQ'[Len(msgQ) + 1] = Command(Len(batch) + 1)
  BY <1>1, <1>3, MsgAppend DEF Posted
<1>5. Shifted(apiQ, apiQ', 0, 0, {}) /\ Items(apiQ')
  BY <1>1, ApiSame DEF Posted
<1>6. TypeOK'
  BY <1>1 DEF Typed, TypeOK, Posted, tableVars, modemVars
<1>. QED  BY <1>1, <1>4, <1>5, <1>6 DEF TypesKept, Flow

LEMMA DestroyFlows ==
    ASSUME Typed, Destroy
    PROVE  TypesKept /\ Flow(0, 1, {[type |-> "removeClient"]}, 0, 0, {})
<1>1. [type |-> "removeClient"] \in Message /\ MessageOK([type |-> "removeClient"])
  BY DEF Message, MessageOK
<1>2. Shifted(msgQ, msgQ', 0, 1, {[type |-> "removeClient"]}) /\ Messages(msgQ')
  BY <1>1, MsgAppend DEF Destroy
<1>3. Shifted(apiQ, apiQ', 0, 0, {}) /\ Items(apiQ')
  BY ApiSame DEF Destroy
<1>4. BatchOK'
  BY DEF Typed, BatchOK, BatchItem, Destroy
<1>5. <<>> \in Seq(1..MaxRequests)
  OBVIOUS
<1>6. TypeOK'
  BY <1>5 DEF Typed, TypeOK, Destroy, tableVars, modemVars
<1>. QED  BY <1>2, <1>3, <1>4, <1>6 DEF TypesKept, Flow

LEMMA CommandHead ==
    ASSUME Typed, CarriedInv, Arrives("command")
    PROVE  LET r == Head(msgQ).r IN
           /\ Head(msgQ) = msgQ[1] /\ 1 \in DOMAIN msgQ /\ r \in Nat /\ r \in DOMAIN batch
           /\ batch[r] # None /\ BatchItem(r, batch[r])
           /\ \A i \in DOMAIN batch[r].keys : Open(r, i)
<1>1. Head(msgQ) = msgQ[1] /\ 1 \in DOMAIN msgQ /\ Head(msgQ).type = "command"
      /\ Head(msgQ) \in Message
  BY HeadMessage
<1>2. CarriedOK(Head(msgQ))
  BY <1>1 DEF CarriedInv
<1>. QED  BY <1>1, <1>2, MessageFields DEF CarriedOK, Typed, BatchOK

LEMMA CommandFlows ==
    ASSUME Typed, CarriedInv, HandleCommand
    PROVE  LET r == Head(msgQ).r
               n == Len(batch[r].keys)
           IN  /\ TypesKept /\ n \in Nat /\ Len(apiQ) \in Nat
               /\ Flow(1, 0, {}, 0, n, {Turn(r, i) : i \in DOMAIN batch[r].keys})
               /\ \A i \in 1..n : apiQ'[Len(apiQ) + i] = Turn(r, i)
<1>. DEFINE r == Head(msgQ).r
            p == [i \in DOMAIN batch[r].keys |-> Turn(r, i)]
            n == Len(batch[r].keys)
<1>1. r \in Nat /\ r \in DOMAIN batch /\ batch[r] # None /\ BatchItem(r, batch[r])
  BY CommandHead DEF HandleCommand
<1>2. /\ batch[r].keys \in Seq(Session) /\ DOMAIN batch[r].keys = 1..n
      /\ DOMAIN batch[r].keys \subseteq Stage /\ n \in Nat
  BY <1>1, BatchFields
<1>3. \A i \in DOMAIN batch[r].keys : Turn(r, i) \in ApiItem /\ ItemOK(Turn(r, i))
  BY <1>1, <1>2, TurnTypes
<1>4. p \in Seq(ApiItem) /\ DOMAIN p = 1..n /\ Len(p) = n
  BY <1>2, <1>3
<1>5. Items(p) /\ \A i \in DOMAIN p : p[i] \in {Turn(r, j) : j \in DOMAIN batch[r].keys}
  BY <1>3, <1>4 DEF Items
<1>6. /\ Shifted(apiQ, apiQ', 0, n, {Turn(r, j) : j \in DOMAIN batch[r].keys}) /\ Items(apiQ')
      /\ Len(apiQ) \in Nat
      /\ \A i \in DOMAIN p : apiQ'[Len(apiQ) + i] = p[i]
  <2>1. apiQ' = apiQ \o p
    BY DEF HandleCommand
  <2>. HIDE DEF p
  <2>. QED  BY <1>4, <1>5, <2>1, ApiJoin
<1>7. Shifted(msgQ, msgQ', 1, 0, {}) /\ Messages(msgQ')
  BY MsgTail, HeadMessage DEF HandleCommand
<1>8. TypeOK' /\ BatchOK'
  BY DEF Typed, TypeOK, BatchOK, BatchItem, HandleCommand, clientVars, tableVars, modemVars
<1>9. \A i \in 1..n : apiQ'[Len(apiQ) + i] = Turn(r, i)
  BY <1>4, <1>6
<1>. QED  BY <1>2, <1>6, <1>7, <1>8, <1>9 DEF TypesKept, Flow

LEMMA PlainFlows ==
    ASSUME Typed, msgQ # <<>>, msgQ' = Tail(msgQ), UNCHANGED apiQ
    PROVE  Flow(1, 0, {}, 0, 0, {}) /\ Messages(msgQ') /\ Items(apiQ')
  BY MsgTail, ApiSame DEF Flow

\* What the turn of a geofence comes to: a call for it, or an outcome.
Reporting(b, i, e) == [b EXCEPT !.errs[i] = e]

\* What is reported when a call is made: nothing yet of a geofence that is added
AtOnce(b, i) == IF b.kind = "add" THEN b.errs[i] ELSE "ok"

Marked(r, i, e) == batch' = [batch EXCEPT ![r] = Reporting(batch[r], i, e)]

CallFor(r, i) ==
    LET b == batch[r] IN
    Call(b.kind, mGeofenceIds[b.keys[i]],
         [key |-> b.keys[i], mask |-> b.mask, paused |-> FALSE],
         [type |-> "answer", r |-> r, i |-> i])

TurnCalls(r, i) ==
    LET b == batch[r] IN
    /\ b.kind = "add" \/ mGeofenceIds[b.keys[i]] > 0
    /\ Flow(1, 0, {}, 0, 1, {CallFor(r, i)})
    /\ Marked(r, i, AtOnce(b, i))
    /\ UNCHANGED <<requests, wrong>>

TurnFails(r, i) ==
    LET b == batch[r] IN
    /\ b.kind # "add" /\ mGeofenceIds[b.keys[i]] = 0
    /\ Flow(1, 0, {}, 0, 0, {}) /\ Concludes(r, i)
    /\ Finish(r, i, Noted(b, i, "unknown", "unknown"))

LEMMA BatchErr ==
    ASSUME NEW r, NEW b, BatchItem(r, b), NEW i \in DOMAIN b.keys, NEW e \in Outcome,
           NEW c, c = Reporting(b, i, e)
    PROVE  /\ BatchItem(r, c) /\ c.kind = b.kind /\ c.keys = b.keys /\ c.mask = b.mask
           /\ c.state = b.state /\ c.did = b.did /\ c.errs[i] = e
           /\ \A j \in DOMAIN b.keys : j # i => c.errs[j] = b.errs[j]
<1>1. b \in Batch /\ DOMAIN b.errs = DOMAIN b.keys
  BY DEF BatchItem
<1>2. c = [b EXCEPT !.errs = [b.errs EXCEPT ![i] = e]] /\ b.errs \in Seq(Outcome)
  BY <1>1 DEF Batch, Reporting
<1>3. /\ [b.errs EXCEPT ![i] = e] \in Seq(Outcome)
      /\ DOMAIN [b.errs EXCEPT ![i] = e] = DOMAIN b.errs
  BY <1>1, <1>2
<1>4. /\ c \in Batch /\ c.kind = b.kind /\ c.keys = b.keys /\ c.mask = b.mask
      /\ c.state = b.state /\ c.did = b.did /\ c.errs = [b.errs EXCEPT ![i] = e]
  BY <1>1, <1>2, <1>3 DEF Batch
<1>. QED  BY <1>1, <1>3, <1>4 DEF BatchItem

LEMMA TurnHead ==
    ASSUME Typed, CarriedInv, Arrives("turn")
    PROVE  LET r == Head(msgQ).r
               i == Head(msgQ).i
           IN  /\ Head(msgQ) = msgQ[1] /\ 1 \in DOMAIN msgQ /\ Open(r, i)
               /\ r \in Nat /\ r \in DOMAIN batch /\ batch[r] # None /\ BatchItem(r, batch[r])
               /\ i \in Stage /\ i \in DOMAIN batch[r].keys
<1>1. Head(msgQ) = msgQ[1] /\ 1 \in DOMAIN msgQ /\ Head(msgQ).type = "turn"
      /\ Head(msgQ) \in Message
  BY HeadMessage
<1>2. CarriedOK(Head(msgQ))
  BY <1>1 DEF CarriedInv
<1>. QED  BY <1>1, <1>2, MessageFields DEF CarriedOK, Open, Typed, BatchOK

LEMMA CallForTypes ==
    ASSUME Typed, NEW r \in DOMAIN batch, r \in Nat, batch[r] # None,
           NEW i \in DOMAIN batch[r].keys,
           batch[r].kind = "add" \/ mGeofenceIds[batch[r].keys[i]] > 0
    PROVE  LET b == batch[r]
               x == CallFor(r, i)
               g == [key |-> b.keys[i], mask |-> b.mask, paused |-> FALSE]
               back == [type |-> "answer", r |-> r, i |-> i]
           IN  /\ x \in ApiItem /\ ItemOK(x) /\ x.type = "call" /\ x.op = b.kind
               /\ x.hw = mGeofenceIds[b.keys[i]] /\ x.g = g /\ x.back = back
               /\ x.back.type = "answer" /\ x.back.r = r /\ x.back.i = i
<1>. DEFINE b == batch[r]
            hw == mGeofenceIds[b.keys[i]]
            g == [key |-> b.keys[i], mask |-> b.mask, paused |-> FALSE]
            back == [type |-> "answer", r |-> r, i |-> i]
<1>1. BatchItem(r, b)
  BY DEF Typed, BatchOK
<1>2. /\ b.kind \in {"add", "remove", "modify", "pause", "resume"} /\ b.keys[i] \in Session
      /\ b.mask \in Mask \union {None} /\ i \in Stage
      /\ b.kind \in {"add", "modify"} => b.mask \in Mask
  <2>. HIDE DEF b
  <2>1. b.kind \in {"add", "modify"} => b.mask \in Mask
    BY <1>1 DEF BatchItem
  <2>2. i \in DOMAIN b.keys
    BY DEF b
  <2>. QED  BY <1>1, <2>1, <2>2, BatchFields, SMTT(30)
<1>3. hw \in {0} \union HwId
  BY <1>2 DEF Typed, TypeOK
<1>4. g \in Asked /\ g.mask = b.mask
  BY <1>2 DEF Asked
<1>5. back \in Back /\ back.type = "answer" /\ back.r = r /\ back.i = i
  BY <1>2 DEF Back
<1>6. CallFor(r, i) = Call(b.kind, hw, g, back)
  BY DEF CallFor
<1>. HIDE DEF b, hw, g, back
<1>7. /\ CallFor(r, i) \in ApiItem /\ CallFor(r, i).type = "call" /\ CallFor(r, i).op = b.kind
      /\ CallFor(r, i).hw = hw /\ CallFor(r, i).g = g /\ CallFor(r, i).back = back
  BY <1>2, <1>3, <1>4, <1>5, <1>6, CallTypes
<1>8. b.kind # "add" => hw \in HwId
  BY <1>3, Constants DEF b, hw
<1>9. ItemOK(CallFor(r, i))
  BY <1>2, <1>4, <1>5, <1>7, <1>8 DEF ItemOK
<1>. QED  BY <1>5, <1>7, <1>9 DEF b, hw, g, back

LEMMA TurnFlows ==
    ASSUME Typed, CarriedInv, HandleTurn
    PROVE  LET r == Head(msgQ).r
               i == Head(msgQ).i
           IN  TypesKept /\ (TurnCalls(r, i) \/ TurnFails(r, i))
<1>. DEFINE r == Head(msgQ).r
            i == Head(msgQ).i
            b == batch[r]
<1>1. /\ Open(r, i) /\ r \in Nat /\ r \in DOMAIN batch /\ batch[r] # None
      /\ BatchItem(r, batch[r]) /\ i \in Stage /\ i \in DOMAIN batch[r].keys
  BY TurnHead DEF HandleTurn
<1>2. Shifted(msgQ, msgQ', 1, 0, {}) /\ Messages(msgQ')
  BY MsgTail, HeadMessage DEF HandleTurn
<1>3. UNCHANGED <<forward, backward, client, tableVars, modemVars>>
  BY DEF HandleTurn
<1>4. b.errs[i] \in Outcome /\ "ok" \in Outcome /\ "unknown" \in Outcome
  BY <1>1, BatchFields DEF Outcome
<1>5. CASE /\ b.kind = "add" \/ mGeofenceIds[b.keys[i]] > 0
           /\ apiQ' = Append(apiQ, CallFor(r, i))
           /\ Marked(r, i, AtOnce(b, i))
           /\ UNCHANGED <<requests, wrong>>
  <2>1. CallFor(r, i) \in ApiItem /\ ItemOK(CallFor(r, i))
    BY <1>1, <1>5, CallForTypes
  <2>2. Shifted(apiQ, apiQ', 0, 1, {CallFor(r, i)}) /\ Items(apiQ')
    BY <1>5, <2>1, ApiAppend
  <2>3. BatchOK'
    <3>. DEFINE e == AtOnce(b, i)
                c == Reporting(b, i, e)
    <3>1. BatchItem(r, c)
      BY <1>1, <1>4, BatchErr DEF AtOnce
    <3>2. batch' = [batch EXCEPT ![r] = c]
      BY <1>5 DEF Marked
    <3>. HIDE DEF c
    <3>. QED  BY <1>1, <3>1, <3>2, BatchSet DEF Typed
  <2>4. TypeOK'
    BY <1>3, <1>5 DEF Typed, TypeOK, tableVars, modemVars
  <2>. QED  BY <1>2, <1>5, <2>2, <2>3, <2>4 DEF TypesKept, TurnCalls, Flow
<1>6. CASE /\ b.kind # "add" /\ mGeofenceIds[b.keys[i]] = 0
           /\ Finish(r, i, [b EXCEPT !.errs[i] = "unknown", !.did[i] = "unknown"])
           /\ UNCHANGED apiQ
  <2>. DEFINE c == Noted(b, i, "unknown", "unknown")
  <2>1. c = [b EXCEPT !.errs[i] = "unknown", !.did[i] = "unknown"]
    BY <1>1 DEF BatchItem, Batch, Noted
  <2>2. Finish(r, i, c)
    BY <1>6, <2>1
  <2>. HIDE DEF c
  <2>3. /\ BatchItem(r, c) /\ c.kind = b.kind /\ c.keys = b.keys /\ c.mask = b.mask
        /\ c.state = b.state /\ c.did[i] = "unknown"
        /\ \A j \in DOMAIN b.keys : j # i => c.did[j] = b.did[j]
    BY <1>1, <1>4, BatchMarked, SMTT(30) DEF c
  <2>4. Concludes(r, i) /\ requests' \in Seq(1..MaxRequests) /\ wrong' \subseteq Wrongs
    BY <1>1, <2>2, <2>3, FinishConcludes
  <2>5. BatchOK'
    BY <1>1, <2>4, ConcludesTypes DEF Typed
  <2>6. TypeOK'
    BY <1>3, <2>4 DEF Typed, TypeOK, tableVars, modemVars, Wrongs
  <2>7. Shifted(apiQ, apiQ', 0, 0, {}) /\ Items(apiQ')
    BY <1>6, ApiSame
  <2>. QED  BY <1>2, <1>6, <2>2, <2>4, <2>5, <2>6, <2>7 DEF TypesKept, TurnFails, Flow, c
<1>7. CallFor(r, i) = Call(b.kind, mGeofenceIds[b.keys[i]],
                           [key |-> b.keys[i], mask |-> b.mask, paused |-> FALSE],
                           [type |-> "answer", r |-> r, i |-> i])
  BY DEF CallFor
<1>8. \/ /\ b.kind = "add" \/ mGeofenceIds[b.keys[i]] > 0
         /\ apiQ' = Append(apiQ, CallFor(r, i))
         /\ batch' = [batch EXCEPT ![r].errs[i] = IF b.kind = "add" THEN @ ELSE "ok"]
         /\ UNCHANGED <<requests, wrong>>
      \/ /\ b.kind # "add" /\ mGeofenceIds[b.keys[i]] = 0
         /\ Finish(r, i, [b EXCEPT !.errs[i] = "unknown", !.did[i] = "unknown"])
         /\ UNCHANGED apiQ
  BY <1>7 DEF HandleTurn
<1>9. batch' = [batch EXCEPT ![r].errs[i] = IF b.kind = "add" THEN @ ELSE "ok"] =>
         Marked(r, i, AtOnce(b, i))
  BY <1>1 DEF Marked, Reporting, AtOnce
<1>. QED  BY <1>5, <1>6, <1>8, <1>9

\* What is reported of an outcome: a resume or modify that failed says nothing.
Reported(b, i, ok) ==
    IF b.kind \in {"modify", "resume"} /\ ~ok THEN b.errs[i]
    ELSE IF ok THEN "ok" ELSE "failed"

Answers(r, i) ==
    LET b == batch[r]
        ok == Head(msgQ).ok
        c == Noted(b, i, IF ok THEN "ok" ELSE "failed", Reported(b, i, ok))
    IN  /\ Flow(1, 0, {}, 0, 0, {}) /\ Concludes(r, i)
        /\ IF ok THEN SaveOutcome(b.kind, Head(msgQ).hw, b, i) ELSE UNCHANGED tableVars
        /\ IF b.kind = "resume" /\ ~ok
           THEN batch' = [batch EXCEPT ![r] = c] /\ UNCHANGED <<requests, wrong>>
           ELSE Finish(r, i, c)

LEMMA AnswerHead ==
    ASSUME Typed, CarriedInv, Arrives("answer")
    PROVE  LET m == Head(msgQ)
               r == m.back.r
               i == m.back.i
           IN  /\ m = msgQ[1] /\ 1 \in DOMAIN msgQ /\ Open(r, i)
               /\ m.type = "answer" /\ m.back.type = "answer"
               /\ m.ok \in BOOLEAN /\ (m.ok => m.hw \in HwId) /\ CarriedOK(m)
               /\ r \in Nat /\ r \in DOMAIN batch /\ batch[r] # None /\ BatchItem(r, batch[r])
               /\ i \in Stage /\ i \in DOMAIN batch[r].keys
<1>1. Head(msgQ) = msgQ[1] /\ 1 \in DOMAIN msgQ /\ Head(msgQ).type = "answer"
      /\ Head(msgQ) \in Message /\ MessageOK(Head(msgQ))
  BY HeadMessage
<1>2. CarriedOK(Head(msgQ))
  BY <1>1 DEF CarriedInv
<1>3. Head(msgQ).back \in Back /\ Head(msgQ).back.type = "answer" /\ Head(msgQ).ok \in BOOLEAN
      /\ (Head(msgQ).ok => Head(msgQ).hw \in HwId)
  BY <1>1, MessageFields DEF MessageOK
<1>4. Head(msgQ).back.r \in Nat /\ Head(msgQ).back.i \in Stage
  BY <1>3, BackFields
<1>. QED  BY <1>1, <1>2, <1>3, <1>4 DEF CarriedOK, Open, Typed, BatchOK

LEMMA AnswerFlows ==
    ASSUME Typed, CarriedInv, HandleAnswer
    PROVE  TypesKept /\ Answers(Head(msgQ).back.r, Head(msgQ).back.i)
<1>. DEFINE m == Head(msgQ)
            r == m.back.r
            i == m.back.i
            b == batch[r]
            err == IF m.ok THEN "ok" ELSE "failed"
            c == Noted(b, i, err, Reported(b, i, m.ok))
<1>1. /\ r \in Nat /\ r \in DOMAIN batch /\ b # None /\ BatchItem(r, b)
      /\ i \in Stage /\ i \in DOMAIN b.keys /\ m.ok \in BOOLEAN /\ (m.ok => m.hw \in HwId)
      /\ Open(r, i)
  BY AnswerHead DEF HandleAnswer
<1>2. Shifted(msgQ, msgQ', 1, 0, {}) /\ Messages(msgQ')
  BY MsgTail, HeadMessage DEF HandleAnswer
<1>3. UNCHANGED <<forward, backward, client, modemVars>>
      /\ Shifted(apiQ, apiQ', 0, 0, {}) /\ Items(apiQ')
  BY ApiSame DEF HandleAnswer
<1>4. err \in Outcome /\ err # "nothing" /\ Reported(b, i, m.ok) \in Outcome
  BY <1>1, BatchFields DEF Outcome, Reported
<1>5. c = [b EXCEPT !.did[i] = err,
                    !.errs[i] = IF b.kind \in {"modify", "resume"} /\ ~m.ok THEN @ ELSE err]
  BY <1>1 DEF BatchItem, Batch, Noted, Reported
<1>6. /\ BatchItem(r, c) /\ c.kind = b.kind /\ c.keys = b.keys /\ c.mask = b.mask
      /\ c.state = b.state /\ c.did[i] = err
      /\ \A j \in DOMAIN b.keys : j # i => c.did[j] = b.did[j]
  <2>. HIDE DEF m, r, i, b, err
  <2>. QED  BY <1>1, <1>4, BatchMarked, SMTT(30) DEF c
<1>7. /\ IF m.ok THEN SaveOutcome(b.kind, m.hw, b, i) ELSE UNCHANGED tableVars
      /\ IF b.kind = "resume" /\ ~m.ok
         THEN batch' = [batch EXCEPT ![r] = c] /\ UNCHANGED <<requests, wrong>>
         ELSE Finish(r, i, c)
  BY <1>5 DEF HandleAnswer
<1>8. TablesOK'
  <2>1. CASE m.ok
    BY <1>1, <1>7, <2>1, OutcomeTypes DEF TablesOK
  <2>2. CASE ~m.ok
    BY <1>7, <2>2 DEF TablesOK, tableVars, Typed, TypeOK
  <2>. QED  BY <2>1, <2>2
<1>. HIDE DEF c
<1>9. Concludes(r, i) /\ requests' \in Seq(1..MaxRequests) /\ wrong' \subseteq Wrongs
  <2>1. CASE b.kind = "resume" /\ ~m.ok
    <3>1. c # None
      BY <1>6, BatchFields
    <3>2. b.did[i] = "nothing"
      BY <1>1 DEF Open
    <3>3. Becomes(r, i, c)
      BY <1>4, <1>6, <1>7, <2>1, <3>1 DEF Becomes
    <3>4. requests' \in Seq(1..MaxRequests) /\ wrong' \subseteq Wrongs
      BY <1>7, <2>1 DEF Typed, TypeOK, Wrongs
    <3>. QED  BY <3>3, <3>4 DEF Concludes
  <2>2. CASE ~(b.kind = "resume" /\ ~m.ok)
    BY <1>1, <1>4, <1>6, <1>7, <2>2, FinishConcludes
  <2>. QED  BY <2>1, <2>2
<1>10. BatchOK'
  BY <1>1, <1>9, ConcludesTypes DEF Typed
<1>11. TypeOK'
  BY <1>3, <1>8, <1>9 DEF Typed, TypeOK, TablesOK, modemVars, Wrongs
<1>12. Answers(r, i)
  BY <1>2, <1>3, <1>7, <1>9 DEF Answers, Flow, c
<1>. QED  BY <1>2, <1>3, <1>10, <1>11, <1>12 DEF TypesKept

\* The call that gives a geofence to the modem again
Again(g) == Call("add", 0, [g EXCEPT !.paused = FALSE], [type |-> "restarted", g |-> g])

LEMMA AgainTypes ==
    ASSUME NEW g \in Geofence
    PROVE  LET x == Again(g) IN
           /\ x \in ApiItem /\ ItemOK(x) /\ x.type = "call" /\ x.op = "add"
           /\ x.g = [g EXCEPT !.paused = FALSE] /\ x.g.key = g.key /\ x.g \in Geofence
           /\ x.back.type = "restarted" /\ x.back.g = g
<1>. DEFINE h == [g EXCEPT !.paused = FALSE]
            back == [type |-> "restarted", g |-> g]
<1>1. h \in Geofence /\ h.key = g.key /\ h \in Asked /\ h.mask \in Mask
  <2>1. h \in Geofence /\ h.key = g.key
    BY DEF Geofence
  <2>. HIDE DEF h
  <2>. QED  BY <2>1, GeofenceFields
<1>2. back \in Back /\ back.type = "restarted" /\ back.g = g
  BY DEF Back
<1>3. Again(g) = Call("add", 0, h, back)
  BY DEF Again
<1>4. h = [g EXCEPT !.paused = FALSE]
  OBVIOUS
<1>. HIDE DEF h, back
<1>5. /\ Again(g) \in ApiItem /\ Again(g).type = "call" /\ Again(g).op = "add"
      /\ Again(g).g = h /\ Again(g).back = back
  BY <1>1, <1>2, <1>3, CallTypes
<1>6. ItemOK(Again(g))
  BY <1>1, <1>2, <1>4, <1>5 DEF ItemOK
<1>. QED  BY <1>1, <1>2, <1>4, <1>5, <1>6

Watched == {mGeofences[hw] : hw \in Geofences(mGeofences)}

LEMMA EngineUpFlows ==
    ASSUME Typed, HandleEngineUp
    PROVE  /\ TypesKept
           /\ \E c \in Nat : \E f \in [1..c -> Geofences(mGeofences)] :
                /\ Flow(1, 0, {}, 0, c, {Again(g) : g \in Watched}) /\ Len(apiQ) \in Nat
                /\ \A n \in 1..c : apiQ'[Len(apiQ) + n] = Again(mGeofences[f[n]])
                /\ \A m, n \in 1..c : f[m] = f[n] => m = n
                /\ \A hw \in Geofences(mGeofences) : \E n \in 1..c : f[n] = hw
<1>. DEFINE S == Geofences(mGeofences)
            f == InOrder(S)
            c == Cardinality(S)
            p == [n \in DOMAIN f |-> Again(mGeofences[f[n]])]
<1>1. mGeofences \in [HwId -> Geofence \union {None}] /\ S \subseteq HwId
      /\ \A hw \in S : mGeofences[hw] \in Geofence /\ mGeofences[hw] \in Watched
  BY DEF Typed, TypeOK, Geofences, Watched
<1>2. IsFiniteSet(S) /\ S \subseteq Nat
  BY <1>1, Constants, FS_Subset
<1>3. /\ c \in Nat /\ f \in [1..c -> S]
      /\ \A s \in S : \E i \in 1..c : f[i] = s
      /\ \A i, j \in 1..c : f[i] = f[j] => i = j
  BY <1>2, Enumerates
<1>4. \A n \in 1..c : Again(mGeofences[f[n]]) \in ApiItem /\ ItemOK(Again(mGeofences[f[n]]))
                       /\ mGeofences[f[n]] \in Watched
  BY <1>1, <1>3, AgainTypes
<1>5. p = [n \in 1..c |-> Again(mGeofences[f[n]])]
  BY <1>3
<1>6. apiQ' = apiQ \o p
  BY DEF HandleEngineUp, Again
<1>. HIDE DEF S, f, c, p
<1>7. p \in Seq(ApiItem) /\ DOMAIN p = 1..c /\ Len(p) = c
  BY <1>3, <1>4, <1>5
<1>8. Items(p) /\ \A n \in DOMAIN p : p[n] \in {Again(g) : g \in Watched}
  BY <1>4, <1>5, <1>7 DEF Items
<1>9. /\ Shifted(apiQ, apiQ', 0, c, {Again(g) : g \in Watched}) /\ Items(apiQ')
      /\ Len(apiQ) \in Nat /\ \A n \in DOMAIN p : apiQ'[Len(apiQ) + n] = p[n]
  BY <1>6, <1>7, <1>8, ApiJoin
<1>10. Shifted(msgQ, msgQ', 1, 0, {}) /\ Messages(msgQ')
  BY MsgTail, HeadMessage DEF HandleEngineUp
<1>11. BatchOK'
  BY DEF Typed, BatchOK, BatchItem, HandleEngineUp
<1>12. TablesOK'
  BY DEF HandleEngineUp, TablesOK
<1>13. TypeOK'
  BY <1>12 DEF Typed, TypeOK, HandleEngineUp, clientVars, modemVars, TablesOK
<1>14. \A n \in 1..c : apiQ'[Len(apiQ) + n] = Again(mGeofences[f[n]])
  BY <1>5, <1>7, <1>9
<1>15. Flow(1, 0, {}, 0, c, {Again(g) : g \in Watched})
  BY <1>9, <1>10 DEF Flow
<1>. QED  BY <1>3, <1>9, <1>10, <1>11, <1>13, <1>14, <1>15 DEF TypesKept, S

\* The call that pauses a geofence once it has been added again
PauseAgain(hw, g) == Call("pause", hw, g, [type |-> "ignored"])

LEMMA PauseTypes ==
    ASSUME NEW hw \in HwId, NEW g \in Geofence
    PROVE  LET x == PauseAgain(hw, g) IN
           /\ x \in ApiItem /\ ItemOK(x) /\ x.type = "call" /\ x.op = "pause" /\ x.hw = hw
           /\ x.back.type = "ignored"
<1>1. [type |-> "ignored"] \in Back /\ [type |-> "ignored"].type = "ignored"
  BY DEF Back
<1>2. g \in Asked /\ hw \in {0} \union HwId
  BY GeofenceFields
<1>3. LET x == PauseAgain(hw, g) IN
      x \in ApiItem /\ x.type = "call" /\ x.op = "pause" /\ x.hw = hw
      /\ x.back = [type |-> "ignored"]
  BY <1>1, <1>2, CallTypes DEF PauseAgain
<1>. QED  BY <1>1, <1>3 DEF ItemOK

LEMMA RestartedHead ==
    ASSUME Typed, Arrives("restarted")
    PROVE  LET m == Head(msgQ) IN
           /\ m = msgQ[1] /\ 1 \in DOMAIN msgQ /\ m.type = "restarted"
           /\ m.ok \in BOOLEAN /\ (m.ok => m.hw \in HwId)
           /\ m.back.g \in Geofence /\ [m.back.g EXCEPT !.paused = FALSE] \in Geofence
<1>1. Head(msgQ) = msgQ[1] /\ 1 \in DOMAIN msgQ /\ Head(msgQ).type = "restarted"
      /\ Head(msgQ) \in Message /\ MessageOK(Head(msgQ))
  BY HeadMessage
<1>2. Head(msgQ).back \in Back /\ Head(msgQ).back.type = "restarted" /\ Head(msgQ).ok \in BOOLEAN
      /\ (Head(msgQ).ok => Head(msgQ).hw \in HwId)
  BY <1>1, MessageFields DEF MessageOK
<1>3. Head(msgQ).back.g \in Geofence
  BY <1>2, BackFields
<1>. QED  BY <1>1, <1>2, <1>3, GeofenceFields

LEMMA SavedTypes ==
    ASSUME Typed, NEW hw \in HwId, NEW g \in Geofence, SaveGeofenceItem(hw, g)
    PROVE  TablesOK'
<1>1. g.key \in Session
  BY GeofenceFields
<1>. QED  BY <1>1 DEF Typed, TypeOK, TablesOK, SaveGeofenceItem

LEMMA RestartedFlows ==
    ASSUME Typed, HandleRestarted
    PROVE  LET m == Head(msgQ) IN
           /\ TypesKept
           /\ \/ Flow(1, 0, {}, 0, 0, {})
              \/ m.ok /\ Flow(1, 0, {}, 0, 1, {PauseAgain(m.hw, m.back.g)})
<1>. DEFINE m == Head(msgQ)
            g == m.back.g
            h == [g EXCEPT !.paused = FALSE]
<1>1. m.ok \in BOOLEAN /\ (m.ok => m.hw \in HwId) /\ g \in Geofence /\ h \in Geofence
  BY RestartedHead DEF HandleRestarted
<1>2. Shifted(msgQ, msgQ', 1, 0, {}) /\ Messages(msgQ')
  BY MsgTail, HeadMessage DEF HandleRestarted
<1>3. BatchOK'
  BY DEF Typed, BatchOK, BatchItem, HandleRestarted
<1>4. IF m.ok THEN /\ SaveGeofenceItem(m.hw, h)
                   /\ \/ apiQ' = Append(apiQ, PauseAgain(m.hw, g))
                      \/ UNCHANGED apiQ
              ELSE UNCHANGED <<tableVars, apiQ>>
  BY DEF HandleRestarted, PauseAgain
<1>5. TablesOK'
  <2>1. CASE m.ok
    BY <1>1, <1>4, <2>1, SavedTypes
  <2>2. CASE ~m.ok
    BY <1>4, <2>2 DEF Typed, TypeOK, TablesOK, tableVars
  <2>. QED  BY <2>1, <2>2
<1>6. TypeOK'
  BY <1>5 DEF Typed, TypeOK, HandleRestarted, clientVars, modemVars, TablesOK
<1>7. CASE m.ok /\ apiQ' = Append(apiQ, PauseAgain(m.hw, g))
  <2>5. PauseAgain(m.hw, g) \in ApiItem /\ ItemOK(PauseAgain(m.hw, g))
    BY <1>1, <1>7, PauseTypes
  <2>6. Shifted(apiQ, apiQ', 0, 1, {PauseAgain(m.hw, g)}) /\ Items(apiQ')
    BY <1>7, <2>5, ApiAppend
  <2>. QED  BY <1>2, <1>3, <1>6, <1>7, <2>6 DEF TypesKept, Flow
<1>8. CASE UNCHANGED apiQ
  BY <1>2, <1>3, <1>6, <1>8, ApiSame DEF TypesKept, Flow
<1>. QED  BY <1>4, <1>7, <1>8

\* The call that ends a geofence of a client that is gone
Stopping(s) ==
    Call("remove", mGeofenceIds[s], [key |-> s, mask |-> None, paused |-> FALSE],
         [type |-> "stopped"])

LEMMA RemoveClientFlows ==
    ASSUME Typed, HandleRemoveClient
    PROVE  /\ TypesKept
           /\ \E c \in Nat : Flow(1, 0, {}, 0, c, {Stopping(s) : s \in Session})
<1>. DEFINE S == {s \in Session : mGeofenceIds[s] > 0}
            f == InOrder(S)
            c == Cardinality(S)
            p == [n \in DOMAIN f |-> Stopping(f[n])]
<1>1. IsFiniteSet(S) /\ S \subseteq Nat
  BY Constants, FS_Subset
<1>2. c \in Nat /\ f \in [1..c -> S]
  BY <1>1, Enumerates
<1>3. ASSUME NEW s \in S PROVE Stopping(s) \in ApiItem /\ ItemOK(Stopping(s))
  <2>1. mGeofenceIds[s] \in HwId /\ mGeofenceIds[s] \in {0} \union HwId
    BY DEF Typed, TypeOK
  <2>2. [type |-> "stopped"] \in Back /\ [type |-> "stopped"].type = "stopped"
    BY DEF Back
  <2>3. [key |-> s, mask |-> None, paused |-> FALSE] \in Asked
    BY DEF Asked
  <2>4. LET x == Stopping(s) IN
        x \in ApiItem /\ x.type = "call" /\ x.op = "remove" /\ x.hw = mGeofenceIds[s]
        /\ x.back = [type |-> "stopped"]
    BY <2>1, <2>2, <2>3, CallTypes DEF Stopping
  <2>. QED  BY <2>1, <2>2, <2>4 DEF ItemOK
<1>4. p = [n \in 1..c |-> Stopping(f[n])]
  BY <1>2
<1>5. apiQ' = apiQ \o p
  BY DEF HandleRemoveClient, Stopping
<1>6. S \subseteq Session
  OBVIOUS
<1>. HIDE DEF S, f, c, p
<1>7. p \in Seq(ApiItem) /\ DOMAIN p = 1..c /\ Len(p) = c
  BY <1>2, <1>3, <1>4
<1>8. Items(p) /\ \A n \in DOMAIN p : p[n] \in {Stopping(s) : s \in Session}
  BY <1>2, <1>3, <1>4, <1>6, <1>7 DEF Items
<1>9. Shifted(apiQ, apiQ', 0, c, {Stopping(s) : s \in Session}) /\ Items(apiQ')
  BY <1>5, <1>7, <1>8, ApiJoin
<1>10. Shifted(msgQ, msgQ', 1, 0, {}) /\ Messages(msgQ')
  BY MsgTail, HeadMessage DEF HandleRemoveClient
<1>11. BatchOK'
  BY DEF Typed, BatchOK, BatchItem, HandleRemoveClient
<1>12. TablesOK'
  BY DEF HandleRemoveClient, TablesOK, Typed, TypeOK
<1>13. TypeOK'
  BY <1>12 DEF Typed, TypeOK, HandleRemoveClient, clientVars, modemVars, TablesOK
<1>. QED  BY <1>2, <1>9, <1>10, <1>11, <1>13 DEF TypesKept, Flow

LEMMA StoppedFlows ==
    ASSUME Typed, HandleStopped PROVE TypesKept /\ Flow(1, 0, {}, 0, 0, {})
<1>1. Flow(1, 0, {}, 0, 0, {}) /\ Messages(msgQ') /\ Items(apiQ')
  BY PlainFlows, HeadMessage DEF HandleStopped
<1>2. BatchOK'
  BY DEF Typed, BatchOK, BatchItem, HandleStopped
<1>3. TablesOK'
  BY DEF HandleStopped, TablesOK, Typed, TypeOK
<1>4. TypeOK'
  BY <1>3 DEF Typed, TypeOK, HandleStopped, clientVars, modemVars, TablesOK
<1>. QED  BY <1>1, <1>2, <1>4 DEF TypesKept

LEMMA BreachFlows ==
    ASSUME Typed, HandleBreach PROVE TypesKept /\ Flow(1, 0, {}, 0, 0, {})
<1>1. Flow(1, 0, {}, 0, 0, {}) /\ Messages(msgQ') /\ Items(apiQ')
  BY PlainFlows, HeadMessage DEF HandleBreach
<1>2. BatchOK'
  BY DEF Typed, BatchOK, BatchItem, HandleBreach
<1>3. TypeOK'
  BY DEF Typed, TypeOK, HandleBreach, clientVars, tableVars, modemVars
<1>. QED  BY <1>1, <1>2, <1>3 DEF TypesKept

LEMMA LocApiTurnFlows ==
    ASSUME Typed, LocApiTurn
    PROVE  /\ TypesKept /\ Flow(0, 1, {Head(apiQ)}, 1, 0, {})
           /\ Head(apiQ) = apiQ[1] /\ 1 \in DOMAIN apiQ /\ Head(apiQ).type = "turn"
<1>1. /\ Head(apiQ) = apiQ[1] /\ 1 \in DOMAIN apiQ /\ Head(apiQ).type = "turn"
      /\ Head(apiQ) \in ApiItem /\ apiQ # <<>> /\ apiQ' = Tail(apiQ)
  BY HeadItem DEF LocApiTurn
<1>2. Head(apiQ) \in Message /\ MessageOK(Head(apiQ))
  <2>1. Head(apiQ) \in Turns
    BY <1>1, ItemFields
  <2>. QED  BY <1>1, <2>1 DEF Message, MessageOK
<1>3. Shifted(msgQ, msgQ', 0, 1, {Head(apiQ)}) /\ Messages(msgQ')
  BY <1>2, MsgAppend DEF LocApiTurn
<1>4. Shifted(apiQ, apiQ', 1, 0, {}) /\ Items(apiQ')
  BY <1>1, ApiTail
<1>5. BatchOK'
  BY DEF Typed, BatchOK, BatchItem, LocApiTurn
<1>6. TypeOK'
  BY DEF Typed, TypeOK, LocApiTurn, clientVars, tableVars, modemVars
<1>. QED  BY <1>1, <1>3, <1>4, <1>5, <1>6 DEF TypesKept, Flow

Reply(back, hw, ok) == [type |-> back.type, back |-> back, hw |-> hw, ok |-> ok]

Replies(c, hw, ok) ==
    IF c.back.type = "ignored" THEN Flow(0, 0, {}, 1, 0, {}) /\ UNCHANGED msgQ
    ELSE /\ Flow(0, 1, {Reply(c.back, hw, ok)}, 1, 0, {})
         /\ msgQ'[Len(msgQ) + 1] = Reply(c.back, hw, ok)

\* What the modem holds for hw after a call
After(c, hw) ==
    CASE c.op = "add" -> c.g
      [] c.op = "remove" -> None
      [] c.op = "modify" -> [modem[hw] EXCEPT !.mask = c.g.mask]
      [] c.op = "pause" -> [modem[hw] EXCEPT !.paused = TRUE]
      [] c.op = "resume" -> [modem[hw] EXCEPT !.paused = FALSE]

Does(c, hw) ==
    /\ engine = "up" /\ hw \in HwId
    /\ c.op = "add" => IsFree(hw) /\ modem[hw] = None
    /\ c.op # "add" => hw = c.hw /\ modem[hw] # None
    /\ modem' = [modem EXCEPT ![hw] = After(c, hw)]
    /\ Replies(c, hw, TRUE) /\ UNCHANGED wrong

Refuses(c) ==
    /\ Replies(c, c.hw, FALSE)
    /\ wrong' = wrong \union Flag(c.op \in {"modify", "resume"}, "refused")
    /\ UNCHANGED modem

LEMMA CallHead ==
    ASSUME Typed, CarriedInv, LocApiTakes("call")
    PROVE  LET c == Head(apiQ) IN
           /\ c = apiQ[1] /\ 1 \in DOMAIN apiQ /\ c.type = "call" /\ ItemOK(c) /\ CarriedOK(c)
           /\ c.op \in {"add", "remove", "modify", "pause", "resume"}
           /\ c.hw \in {0} \union HwId /\ c.g \in Asked /\ c.back \in Back
           /\ apiQ' = Tail(apiQ) /\ apiQ # <<>>
<1>1. /\ Head(apiQ) = apiQ[1] /\ 1 \in DOMAIN apiQ /\ Head(apiQ).type = "call"
      /\ Head(apiQ) \in ApiItem /\ apiQ # <<>> /\ apiQ' = Tail(apiQ) /\ ItemOK(Head(apiQ))
  BY HeadItem
<1>. QED  BY <1>1, ItemFields DEF CarriedInv

LEMMA ReplyFlows ==
    ASSUME Typed, apiQ # <<>>, apiQ' = Tail(apiQ), NEW c, c.back \in Back,
           NEW hw \in {0} \union HwId, NEW ok \in BOOLEAN, ok => hw \in HwId,
           Answer(c.back, hw, ok)
    PROVE  Replies(c, hw, ok) /\ Messages(msgQ') /\ Items(apiQ')
<1>. DEFINE x == Reply(c.back, hw, ok)
<1>1. Shifted(apiQ, apiQ', 1, 0, {}) /\ Items(apiQ')
  BY ApiTail
<1>2. CASE c.back.type = "ignored"
  <2>1. UNCHANGED msgQ
    BY <1>2 DEF Answer
  <2>. QED  BY <1>1, <1>2, <2>1, MsgSame DEF Replies, Flow
<1>3. CASE c.back.type # "ignored"
  <2>1. msgQ' = Append(msgQ, x)
    BY <1>3 DEF Answer, Reply
  <2>2. c.back.type \in {"answer", "restarted", "stopped"}
    BY <1>3, BackFields
  <2>3. x \in Message /\ MessageOK(x)
    BY <2>2 DEF Reply, Message, MessageOK
  <2>4. Shifted(msgQ, msgQ', 0, 1, {x}) /\ Messages(msgQ') /\ msgQ'[Len(msgQ) + 1] = x
    BY <2>1, <2>3, MsgAppend
  <2>. QED  BY <1>1, <1>3, <2>4 DEF Replies, Flow
<1>. QED  BY <1>2, <1>3

LEMMA CallFlows ==
    ASSUME Typed, CarriedInv, LocApiCall
    PROVE  TypesKept /\ (Refuses(Head(apiQ)) \/ \E hw \in HwId : Does(Head(apiQ), hw))
<1>. DEFINE c == Head(apiQ)
<1>1. /\ ItemOK(c) /\ c.type = "call" /\ c.op \in {"add", "remove", "modify", "pause", "resume"}
      /\ c.hw \in {0} \union HwId /\ c.g \in Asked /\ c.back \in Back
      /\ apiQ' = Tail(apiQ) /\ apiQ # <<>>
  BY CallHead DEF LocApiCall
<1>2. BatchOK'
  BY DEF Typed, BatchOK, BatchItem, LocApiCall
<1>3. UNCHANGED <<clientVars, batch, tableVars, engine>>
  BY DEF LocApiCall
<1>4. CASE ModemRefuses(c)
  <2>1. Answer(c.back, c.hw, FALSE) /\ UNCHANGED modem
        /\ wrong' = wrong \union Flag(c.op \in {"modify", "resume"}, "refused")
    BY <1>4 DEF ModemRefuses
  <2>2. Replies(c, c.hw, FALSE) /\ Messages(msgQ') /\ Items(apiQ')
    BY <1>1, <2>1, ReplyFlows
  <2>3. TypeOK'
    BY <1>3, <2>1 DEF Typed, TypeOK, clientVars, tableVars, Flag
  <2>. QED  BY <1>2, <2>1, <2>2, <2>3 DEF TypesKept, Refuses
<1>5. CASE ModemDoes(c)
  <2>1. PICK hw \in HwId :
          /\ IF c.op = "add" THEN IsFree(hw) ELSE hw = c.hw /\ modem[hw] # None
          /\ modem' = [modem EXCEPT ![hw] = After(c, hw)]
          /\ Answer(c.back, hw, TRUE)
    BY <1>5 DEF ModemDoes, After
  <2>2. engine = "up" /\ UNCHANGED wrong
    BY <1>5 DEF ModemDoes
  <2>3. Replies(c, hw, TRUE) /\ Messages(msgQ') /\ Items(apiQ')
    BY <1>1, <2>1, ReplyFlows
  <2>4. c.op = "add" => modem[hw] = None
    BY <2>1 DEF IsFree, Geofences
  <2>5. modem \in [HwId -> Geofence \union {None}]
    BY DEF Typed, TypeOK
  <2>6. c.g.mask \in Mask => c.g \in Geofence
    BY <1>1, AskedFields
  <2>7. After(c, hw) \in Geofence \union {None}
    <3>1. CASE c.op = "add"
      BY <1>1, <2>6, <3>1 DEF After, ItemOK
    <3>2. CASE c.op = "remove"
      BY <3>2 DEF After
    <3>3. CASE c.op \in {"modify", "pause", "resume"}
      <4>1. modem[hw] \in Geofence
        BY <2>1, <2>5, <3>3
      <4>2. c.op = "modify" => c.g.mask \in Mask
        BY <1>1 DEF ItemOK
      <4>. QED  BY <3>3, <4>1, <4>2, GeofenceFields DEF After
    <3>. QED  BY <1>1, <3>1, <3>2, <3>3
  <2>8. modem' \in [HwId -> Geofence \union {None}]
    BY <2>1, <2>5, <2>7
  <2>9. TypeOK'
    BY <1>3, <2>2, <2>8 DEF Typed, TypeOK, clientVars, tableVars
  <2>10. Does(c, hw)
    BY <2>1, <2>2, <2>3, <2>4 DEF Does
  <2>. QED  BY <1>2, <2>3, <2>9, <2>10 DEF TypesKept
<1>. QED  BY <1>4, <1>5 DEF LocApiCall

LEMMA ReopenFlows ==
    ASSUME Typed, LocApiReopens
    PROVE  /\ TypesKept /\ Flow(0, 1, {[type |-> "engineUp"]}, 1, 0, {})
           /\ Head(apiQ) = apiQ[1] /\ 1 \in DOMAIN apiQ /\ Head(apiQ).type = "reopen"
           /\ msgQ'[Len(msgQ) + 1] = [type |-> "engineUp"]
<1>1. /\ Head(apiQ) = apiQ[1] /\ 1 \in DOMAIN apiQ /\ Head(apiQ).type = "reopen"
      /\ apiQ # <<>> /\ apiQ' = Tail(apiQ)
  BY HeadItem DEF LocApiReopens
<1>2. [type |-> "engineUp"] \in Message /\ MessageOK([type |-> "engineUp"])
  BY DEF Message, MessageOK
<1>3. Shifted(msgQ, msgQ', 0, 1, {[type |-> "engineUp"]}) /\ Messages(msgQ')
      /\ msgQ'[Len(msgQ) + 1] = [type |-> "engineUp"]
  BY <1>2, MsgAppend DEF LocApiReopens
<1>4. Shifted(apiQ, apiQ', 1, 0, {}) /\ Items(apiQ')
  BY <1>1, ApiTail
<1>5. BatchOK'
  BY DEF Typed, BatchOK, BatchItem, LocApiReopens
<1>6. TypeOK'
  BY DEF Typed, TypeOK, LocApiReopens, clientVars, tableVars
<1>. QED  BY <1>1, <1>3, <1>4, <1>5, <1>6 DEF TypesKept, Flow

LEMMA ModemRestartFlows ==
    ASSUME Typed, ModemRestart
    PROVE  TypesKept /\ Flow(0, 0, {}, 0, 1, {[type |-> "reopen"]})
<1>1. [type |-> "reopen"] \in ApiItem /\ ItemOK([type |-> "reopen"])
  BY DEF ApiItem, ItemOK
<1>2. Shifted(apiQ, apiQ', 0, 1, {[type |-> "reopen"]}) /\ Items(apiQ')
  BY <1>1, ApiAppend DEF ModemRestart
<1>3. Shifted(msgQ, msgQ', 0, 0, {}) /\ Messages(msgQ')
  BY MsgSame DEF ModemRestart
<1>4. BatchOK'
  BY DEF Typed, BatchOK, BatchItem, ModemRestart
<1>5. TypeOK'
  BY DEF Typed, TypeOK, ModemRestart, clientVars, tableVars
<1>. QED  BY <1>2, <1>3, <1>4, <1>5 DEF TypesKept, Flow

BreachOf(hw) == [type |-> "breach", hw |-> hw, key |-> modem[hw].key]

LEMMA ModemBreachFlows ==
    ASSUME Typed, ModemBreach
    PROVE  /\ TypesKept
           /\ \E hw \in Geofences(modem) :
                /\ Flow(0, 1, {BreachOf(hw)}, 0, 0, {})
                /\ msgQ'[Len(msgQ) + 1] = BreachOf(hw)
<1>1. PICK hw \in Geofences(modem) : msgQ' = Append(msgQ, BreachOf(hw))
  BY DEF ModemBreach, BreachOf
<1>2. hw \in HwId /\ modem[hw] \in Geofence
  BY DEF Typed, TypeOK, Geofences
<1>3. modem[hw].key \in Session
  BY <1>2, GeofenceFields
<1>4. BreachOf(hw) \in Message /\ MessageOK(BreachOf(hw))
  BY <1>2, <1>3 DEF BreachOf, Message, MessageOK
<1>5. Shifted(msgQ, msgQ', 0, 1, {BreachOf(hw)}) /\ Messages(msgQ')
      /\ msgQ'[Len(msgQ) + 1] = BreachOf(hw)
  BY <1>1, <1>4, MsgAppend
<1>6. Shifted(apiQ, apiQ', 0, 0, {}) /\ Items(apiQ')
  BY ApiSame DEF ModemBreach
<1>7. BatchOK'
  BY DEF Typed, BatchOK, BatchItem, ModemBreach
<1>8. TypeOK'
  BY DEF Typed, TypeOK, ModemBreach, clientVars, tableVars, modemVars
<1>. QED  BY <1>5, <1>6, <1>7, <1>8 DEF TypesKept, Flow
-----------------------------------------------------------------------------
(* What is carried *)

Persists(r, i) ==
    /\ Open(r, i)'
    /\ batch'[r].kind = batch[r].kind /\ batch'[r].keys = batch[r].keys
    /\ batch'[r].mask = batch[r].mask

Plain(x) ==
    x.type \notin {"command", "turn", "answer"} /\ (x.type = "call" => x.back.type # "answer")

LEMMA PlainCarries ==
    ASSUME NEW x, Plain(x) PROVE CarriedOK(x) /\ CarriedOK(x)' /\ \A r, i : ~Holds(x, r, i)
  BY DEF Plain, CarriedOK, Holds

LEMMA CarriedNext ==
    ASSUME \A n \in DOMAIN msgQ' : \E x : x = msgQ'[n] /\ CarriedOK(x)',
           \A n \in DOMAIN apiQ' : \E x : x = apiQ'[n] /\ CarriedOK(x)'
    PROVE  CarriedInv'
<1>1. ASSUME NEW n \in DOMAIN msgQ' PROVE CarriedOK(msgQ[n])'
  <2>1. PICK x : x = msgQ'[n] /\ CarriedOK(x)'
    OBVIOUS
  <2>. QED  BY <2>1 DEF CarriedOK, Open
<1>2. ASSUME NEW n \in DOMAIN apiQ' PROVE CarriedOK(apiQ[n])'
  <2>1. PICK x : x = apiQ'[n] /\ CarriedOK(x)'
    OBVIOUS
  <2>. QED  BY <2>1 DEF CarriedOK, Open
<1>. QED  BY <1>1, <1>2 DEF CarriedInv

LEMMA CarriedKept ==
    ASSUME BatchOK, NEW x, CarriedOK(x), "refused" \in wrong => "refused" \in wrong',
           \A r, i : Open(r, i) /\ Holds(x, r, i) => Persists(r, i)
    PROVE  CarriedOK(x)'
<1>1. CASE x.type = "command"
  <2>1. x.r \in DOMAIN batch /\ batch[x.r] # None /\ \A i \in DOMAIN batch[x.r].keys : Open(x.r, i)
    BY <1>1 DEF CarriedOK
  <2>2. \A i \in DOMAIN batch[x.r].keys : Persists(x.r, i)
    BY <1>1, <2>1 DEF Holds
  <2>3. Len(batch[x.r].keys) \in DOMAIN batch[x.r].keys
    BY <2>1, BatchFields DEF BatchOK
  <2>4. batch'[x.r].keys = batch[x.r].keys /\ x.r \in DOMAIN batch' /\ batch'[x.r] # None
    BY <2>2, <2>3 DEF Persists, Open
  <2>5. \A i \in DOMAIN batch'[x.r].keys : Open(x.r, i)'
    BY <2>2, <2>4 DEF Persists
  <2>. QED  BY <1>1, <2>4, <2>5 DEF CarriedOK
<1>2. CASE x.type = "turn"
  <2>1. Open(x.r, x.i)
    BY <1>2 DEF CarriedOK
  <2>2. Persists(x.r, x.i)
    BY <1>2, <2>1 DEF Holds
  <2>. QED  BY <1>2, <2>2 DEF CarriedOK, Persists
<1>3. CASE x.type \in {"call", "answer"} /\ x.back.type = "answer"
  <2>1. Open(x.back.r, x.back.i)
    BY <1>3 DEF CarriedOK
  <2>2. Persists(x.back.r, x.back.i)
    BY <1>3, <2>1 DEF Holds
  <2>. QED  BY <1>3, <2>1, <2>2 DEF CarriedOK, Persists
<1>4. CASE /\ x.type \notin {"command", "turn"}
           /\ x.type \in {"call", "answer"} => x.back.type # "answer"
  BY <1>4 DEF CarriedOK
<1>. QED  BY <1>1, <1>2, <1>3, <1>4 DEF CarriedOK

LEMMA AtMsg ==
    ASSUME Typed, NEW n \in DOMAIN msgQ, NEW r, NEW i, Holds(msgQ[n], r, i)
    PROVE  \E k \in Even : At(k, n, r, i)
<1>1. msgQ[n].type # "call"
  <2>1. msgQ[n] \in Message
    BY DEF Typed, Messages
  <2>. QED  BY <2>1, MessageFields
<1>. QED  BY <1>1 DEF At, InMsg, Holds, Even

LEMMA AtApi ==
    ASSUME Typed, NEW n \in DOMAIN apiQ, NEW r, NEW i, Holds(apiQ[n], r, i)
    PROVE  \E k \in {1, 3} : At(k, n, r, i)
<1>1. apiQ[n].type \in {"turn", "reopen", "call"}
  <2>1. apiQ[n] \in ApiItem
    BY DEF Typed, Items
  <2>. QED  BY <2>1, ItemFields
<1>. QED  BY <1>1 DEF At, InApi, Holds

\* What was open and is still on its way is untouched.
Spared(dm, da) ==
    \A k, n, r, i : At(k, n, r, i) /\ Open(r, i) /\ n > (IF k \in Even THEN dm ELSE da)
                       => Persists(r, i)

LEMMA CarriedStep ==
    ASSUME Typed, CarriedInv, NEW dm, NEW cm, NEW M, NEW da, NEW ca, NEW A,
           Flow(dm, cm, M, da, ca, A), "refused" \in wrong => "refused" \in wrong',
           Spared(dm, da), \A x \in M \union A : CarriedOK(x)'
    PROVE  CarriedInv'
<1>1. ASSUME NEW n \in DOMAIN msgQ' PROVE \E x : x = msgQ'[n] /\ CarriedOK(x)'
  <2>1. \/ n + dm \in DOMAIN msgQ /\ msgQ'[n] = msgQ[n + dm]
        \/ msgQ'[n] \in M
    BY DEF Flow, Shifted
  <2>2. CASE n + dm \in DOMAIN msgQ /\ msgQ'[n] = msgQ[n + dm]
    <3>. DEFINE x == msgQ[n + dm]
    <3>1. CarriedOK(x)
      BY <2>2 DEF CarriedInv
    <3>2. n + dm > dm
      BY DEF Flow, Shifted
    <3>3. \A r, i : Open(r, i) /\ Holds(x, r, i) => Persists(r, i)
      BY <2>2, <3>2, AtMsg DEF Spared
    <3>4. BatchOK
      BY DEF Typed
    <3>5. PICK y : y = x
      OBVIOUS
    <3>6. CarriedOK(y)'
      BY <3>1, <3>3, <3>4, <3>5, CarriedKept
    <3>. QED  BY <2>2, <3>5, <3>6
  <2>. QED  BY <2>1, <2>2
<1>2. ASSUME NEW n \in DOMAIN apiQ' PROVE \E x : x = apiQ'[n] /\ CarriedOK(x)'
  <2>1. \/ n + da \in DOMAIN apiQ /\ apiQ'[n] = apiQ[n + da]
        \/ apiQ'[n] \in A
    BY DEF Flow, Shifted
  <2>2. CASE n + da \in DOMAIN apiQ /\ apiQ'[n] = apiQ[n + da]
    <3>. DEFINE x == apiQ[n + da]
    <3>1. CarriedOK(x)
      BY <2>2 DEF CarriedInv
    <3>2. n + da > da
      BY DEF Flow, Shifted
    <3>3. \A r, i : Open(r, i) /\ Holds(x, r, i) => Persists(r, i)
      <4>1. 1 \notin Even /\ 3 \notin Even
        BY DEF Even
      <4>. QED  BY <2>2, <3>2, <4>1, AtApi DEF Spared
    <3>4. BatchOK
      BY DEF Typed
    <3>5. PICK y : y = x
      OBVIOUS
    <3>6. CarriedOK(y)'
      BY <3>1, <3>3, <3>4, <3>5, CarriedKept
    <3>. QED  BY <2>2, <3>5, <3>6
  <2>. QED  BY <2>1, <2>2
<1>. QED  BY <1>1, <1>2, CarriedNext

\* An outcome disturbs no other geofence.
LEMMA OpenKept ==
    ASSUME BatchOK, NEW r, NEW i, Open(r, i), Concludes(r, i),
           NEW q, NEW j, Open(q, j), ~(q = r /\ j = i)
    PROVE  Persists(q, j)
<1>1. PICK b : Becomes(r, i, b)
  BY DEF Concludes
<1>2. /\ r \in DOMAIN batch /\ batch[r] # None /\ q \in DOMAIN batch /\ batch[q] # None
      /\ j \in DOMAIN batch[q].keys /\ batch[q].did[j] = "nothing"
  BY DEF Open
<1>3. DOMAIN batch' = DOMAIN batch /\ \A s \in DOMAIN batch : s # r => batch'[s] = batch[s]
  BY <1>2, ConcludesTypes
<1>4. CASE q # r
  BY <1>2, <1>3, <1>4 DEF Persists, Open
<1>5. CASE q = r
  <2>1. b # None /\ batch'[r] = b
    BY <1>1, <1>2, <1>5 DEF Becomes, BatchOK
  <2>. QED  BY <1>1, <1>2, <1>3, <1>5, <2>1 DEF Becomes, Persists, Open
<1>. QED  BY <1>4, <1>5
-----------------------------------------------------------------------------
(* Every open geofence of a live request is on its way. *)

LEMMA LiveStep ==
    ASSUME Typed, LiveInv, NEW dm, NEW cm, NEW M, NEW da, NEW ca, NEW A,
           Flow(dm, cm, M, da, ca, A),
           \A r, i : LiveOpen(r, i)' => LiveOpen(r, i) \/ OnItsWay(r, i)',
           \A k, r, i : At(k, 1, r, i) /\ LiveOpen(r, i)' /\ (IF k \in Even THEN dm ELSE da) = 1
                            => OnItsWay(r, i)'
    PROVE  LiveInv'
<1>. SUFFICES ASSUME NEW r, NEW i, LiveOpen(r, i)' PROVE OnItsWay(r, i)'
  BY DEF LiveInv
<1>1. CASE LiveOpen(r, i)
  <2>1. PICK k \in 0..4, n \in Nat : At(k, n, r, i)
    BY <1>1 DEF LiveInv, OnItsWay
  <2>. DEFINE d == IF k \in Even THEN dm ELSE da
  <2>2. d \in {0, 1} /\ n >= 1
    BY <2>1, AtPlaces DEF Flow, Shifted
  <2>3. CASE n > d
    <3>1. At(k, n - d, r, i)'
      BY <2>1, <2>3, AtAfter
    <3>2. n - d \in Nat
      BY <2>2, <2>3
    <3>. QED  BY <3>1, <3>2 DEF OnItsWay
  <2>4. CASE ~(n > d)
    BY <2>1, <2>2, <2>4
  <2>. QED  BY <2>3, <2>4
<1>. QED  BY <1>1

\* Steps that leave the requests alone
LEMMA OpenSame ==
    ASSUME UNCHANGED batch
    PROVE  /\ \A r, i : Open(r, i) <=> Open(r, i)'
           /\ \A r, i : LiveOpen(r, i) <=> LiveOpen(r, i)'
           /\ \A r, i : Open(r, i) => Persists(r, i)
  BY DEF Open, LiveOpen, Persists

\* What is proved of a step about the requests on their way
Routed == OrderInv' /\ CarriedInv' /\ (LiveInv => LiveInv')

\* A step whose messages are no one's geofence
LEMMA PlainStep ==
    ASSUME Typed, OrderInv, CarriedInv, UNCHANGED batch,
           "refused" \in wrong => "refused" \in wrong',
           NEW dm, NEW cm, NEW M, NEW da, NEW ca, NEW A, Flow(dm, cm, M, da, ca, A),
           \A x \in M \union A : Plain(x),
           dm = 1 => Plain(msgQ[1]), da = 1 => Plain(apiQ[1])
    PROVE  Routed
<1>1. \A x \in M \union A : CarriedOK(x)' /\ \A r, i : ~Holds(x, r, i)
  BY PlainCarries
<1>2. OrderInv'
  BY <1>1, OrderWhenPlain
<1>3. CarriedInv'
  <2>1. Spared(dm, da)
    <3>1. \A r, i : Open(r, i) => Persists(r, i)
      BY OpenSame
    <3>. QED  BY <3>1 DEF Spared
  <2>2. \A x \in M \union A : CarriedOK(x)'
    BY <1>1
  <2>. QED  BY <2>1, <2>2, CarriedStep
<1>4. ASSUME NEW k, NEW r, NEW i, At(k, 1, r, i), (IF k \in Even THEN dm ELSE da) = 1
      PROVE  FALSE
  <2>1. CASE dm = 1 /\ 1 \in DOMAIN msgQ /\ Holds(msgQ[1], r, i)
    <3>. PICK x : x = msgQ[1]
      OBVIOUS
    <3>. QED  BY <2>1, PlainCarries
  <2>2. CASE da = 1 /\ 1 \in DOMAIN apiQ /\ Holds(apiQ[1], r, i)
    <3>. PICK x : x = apiQ[1]
      OBVIOUS
    <3>. QED  BY <2>2, PlainCarries
  <2>3. \/ k \in Even /\ 1 \in DOMAIN msgQ /\ Holds(msgQ[1], r, i)
        \/ k \notin Even /\ 1 \in DOMAIN apiQ /\ Holds(apiQ[1], r, i)
    BY <1>4 DEF At, InMsg, InApi, Even
  <2>. QED  BY <1>4, <2>1, <2>2, <2>3
<1>5. LiveInv => LiveInv'
  <2>1. \A r, i : LiveOpen(r, i)' => LiveOpen(r, i)
    BY OpenSame
  <2>. QED  BY <1>4, <2>1, LiveStep
<1>. QED  BY <1>2, <1>3, <1>5 DEF Routed

\* A geofence has its outcome.
LEMMA ConcludesStep ==
    ASSUME Typed, OrderInv, CarriedInv, "refused" \in wrong => "refused" \in wrong',
           NEW r \in Nat, NEW i \in Stage, Open(r, i), Concludes(r, i), Flow(1, 0, {}, 0, 0, {}),
           NEW k0 \in Even, At(k0, 1, r, i),
           \A k, q, j : At(k, 1, q, j) /\ k \in Even => q = r /\ j = i
    PROVE  Routed
<1>1. OrderInv'
  BY OrderWhenPlain
<1>2. ASSUME NEW k, NEW n, NEW q, NEW j, At(k, n, q, j), Open(q, j),
             n > (IF k \in Even THEN 1 ELSE 0)
      PROVE  Persists(q, j)
  <2>1. ~(q = r /\ j = i)
    <3>. SUFFICES ASSUME q = r, j = i PROVE FALSE
      OBVIOUS
    <3>1. k = k0 /\ n = 1
      BY <1>2, OnePlace
    <3>. QED  BY <1>2, <3>1
  <2>. QED  BY <1>2, <2>1, OpenKept DEF Typed
<1>3. CarriedInv'
  <2>1. Spared(1, 0)
    BY <1>2 DEF Spared
  <2>. QED  BY <2>1, CarriedStep
<1>4. ASSUME NEW q, NEW j, LiveOpen(q, j)' PROVE LiveOpen(q, j) /\ ~(q = r /\ j = i)
  <2>1. PICK b : Becomes(r, i, b)
    BY DEF Concludes
  <2>2. r \in DOMAIN batch /\ batch[r] # None
    BY DEF Open
  <2>3. DOMAIN batch' = DOMAIN batch /\ \A s \in DOMAIN batch : s # r => batch'[s] = batch[s]
    BY <2>2, ConcludesTypes DEF Typed
  <2>4. CASE q # r
    BY <1>4, <2>3, <2>4 DEF LiveOpen, Open
  <2>5. CASE q = r
    <3>1. b # None /\ batch'[r] = b
      BY <1>4, <2>1, <2>2, <2>5 DEF Becomes, LiveOpen, Open, Typed, BatchOK
    <3>. QED  BY <1>4, <2>1, <2>2, <2>5, <3>1 DEF Becomes, LiveOpen, Open
  <2>. QED  BY <2>4, <2>5
<1>5. LiveInv => LiveInv'
  <2>1. \A k, q, j : At(k, 1, q, j) /\ LiveOpen(q, j)' /\ (IF k \in Even THEN 1 ELSE 0) = 1
                         => OnItsWay(q, j)'
    BY <1>4
  <2>2. \A q, j : LiveOpen(q, j)' => LiveOpen(q, j)
    BY <1>4
  <2>. QED  BY <2>1, <2>2, LiveStep
<1>. QED  BY <1>1, <1>3, <1>5 DEF Routed
-----------------------------------------------------------------------------
(* The steps one by one *)

LEMMA PostedStep ==
    ASSUME Typed, OrderInv, CarriedInv, Posted, NEW R, R = Len(batch) + 1,
           NEW x, x = Command(R), Flow(0, 1, {x}, 0, 0, {}), msgQ'[Len(msgQ) + 1] = x
    PROVE  Routed
<1>1. PICK b : Fresh(b) /\ batch' = Append(batch, b)
  BY DEF Posted
<1>2. /\ DOMAIN batch = 1..Len(batch) /\ DOMAIN batch' = 1..R /\ Len(batch) \in Nat
      /\ \A r \in DOMAIN batch : batch'[r] = batch[r]
      /\ batch'[R] = b /\ b # None
  BY <1>1, BatchPut DEF Typed, Posted, Fresh
<1>3. \A r, i : Open(r, i) => Persists(r, i) /\ batch'[r] = batch[r]
  BY <1>2 DEF Open, Persists
<1>4. x.type = "command" /\ x.r = R
  BY DEF Command
<1>5. R \in DOMAIN batch' /\ batch'[R] # None /\ \A i \in DOMAIN batch'[R].keys : Open(R, i)'
  BY <1>1, <1>2 DEF Open, Fresh
<1>6. CarriedOK(x)'
  BY <1>4, <1>5 DEF CarriedOK
<1>7. CarriedInv'
  <2>1. Spared(0, 0)
    BY <1>3 DEF Spared
  <2>2. "refused" \in wrong => "refused" \in wrong'
    BY DEF Posted
  <2>. QED  BY <1>6, <2>1, <2>2, CarriedStep
<1>8. OrderInv'
  BY OrderWhenPosted
<1>9. ASSUME NEW r, NEW i, LiveOpen(r, i)' PROVE LiveOpen(r, i) \/ OnItsWay(r, i)'
  <2>1. r \in DOMAIN batch \/ r = R
    BY <1>2, <1>9 DEF LiveOpen, Open
  <2>2. CASE r \in DOMAIN batch
    BY <1>2, <1>9, <2>2 DEF LiveOpen, Open
  <2>3. CASE r = R
    <3>. PICK n : n = Len(msgQ) + 1
      OBVIOUS
    <3>1. n \in DOMAIN msgQ' /\ n \in Nat
      BY DEF Flow, Shifted
    <3>2. At(0, n, r, i)'
      BY <1>4, <2>3, <3>1 DEF At, InMsg, Holds
    <3>. QED  BY <3>1, <3>2 DEF OnItsWay
  <2>. QED  BY <2>1, <2>2, <2>3
<1>10. LiveInv => LiveInv'
  <2>1. \A k, r, i : At(k, 1, r, i) /\ LiveOpen(r, i)' /\ (IF k \in Even THEN 0 ELSE 0) = 1
                         => OnItsWay(r, i)'
    OBVIOUS
  <2>. QED  BY <1>9, <2>1, LiveStep
<1>. QED  BY <1>7, <1>8, <1>10 DEF Routed

LEMMA CommandStep ==
    ASSUME Typed, OrderInv, CarriedInv, HandleCommand PROVE TypesKept /\ Routed
<1>. PICK R : R = Head(msgQ).r
  OBVIOUS
<1>. PICK c : c = Len(batch[R].keys)
  OBVIOUS
<1>. PICK A : A = {Turn(R, i) : i \in DOMAIN batch[R].keys}
  OBVIOUS
<1>1. /\ Head(msgQ) = msgQ[1] /\ 1 \in DOMAIN msgQ /\ Head(msgQ).type = "command"
      /\ R \in Nat /\ R \in DOMAIN batch /\ batch[R] # None /\ BatchItem(R, batch[R])
      /\ \A i \in DOMAIN batch[R].keys : Open(R, i)
  BY CommandHead DEF HandleCommand, Arrives
<1>2. /\ TypesKept /\ c \in Nat /\ Len(apiQ) \in Nat /\ Flow(1, 0, {}, 0, c, A)
      /\ \A i \in 1..c : apiQ'[Len(apiQ) + i] = Turn(R, i)
  BY CommandFlows
<1>3. /\ DOMAIN batch[R].keys = 1..c /\ DOMAIN batch[R].keys \subseteq Stage
      /\ DOMAIN apiQ' = 1..(Len(apiQ) + c)
  BY <1>1, <1>2, BatchFields DEF Flow, Shifted
<1>4. ASSUME NEW x \in A
      PROVE  \E i \in DOMAIN batch[R].keys :
               x.type = "turn" /\ x.r = R /\ x.i = i
  <2>1. PICK i \in DOMAIN batch[R].keys : x = Turn(R, i)
    OBVIOUS
  <2>. QED  BY <1>1, <1>3, <2>1, TurnTypes
<1>5. \A i \in Stage : At(0, 1, R, i)
  BY <1>1 DEF At, InMsg, Holds
<1>6. ASSUME NEW m \in DOMAIN apiQ', NEW r, NEW i, m > Len(apiQ), Holds(apiQ'[m], r, i)
      PROVE  m = Len(apiQ) + i /\ r = R /\ i \in Nat
  <2>. PICK k : k = m - Len(apiQ)
    OBVIOUS
  <2>1. k \in 1..c /\ m = Len(apiQ) + k /\ k \in Stage
    BY <1>2, <1>3, <1>6
  <2>2. apiQ'[m] = Turn(R, k)
    BY <1>2, <2>1
  <2>3. Turn(R, k).type = "turn" /\ Turn(R, k).r = R /\ Turn(R, k).i = k
    BY DEF Turn
  <2>4. r = R /\ i = k
    BY <1>6, <2>2, <2>3 DEF Holds
  <2>5. k \in Nat
    BY <2>1 DEF Stage
  <2>. QED  BY <2>1, <2>4, <2>5
<1>7. OrderInv'
  <2>1. \A x \in A : \A k : InApi(x, k) => k = 0 + 1
    BY <1>4 DEF InApi
  <2>2. \A x \in A : \A r, i : Holds(x, r, i) => At(0, 1, r, i)
    BY <1>3, <1>4, <1>5 DEF Holds
  <2>3. ASSUME NEW m \in DOMAIN apiQ', NEW n \in DOMAIN apiQ', NEW r, NEW q, NEW i, NEW j,
               m > Len(apiQ), n > Len(apiQ), Holds(apiQ'[m], r, i), Holds(apiQ'[n], q, j),
               Upto(r, i, q, j)
        PROVE  m <= n
    <3>1. /\ m = Len(apiQ) + i /\ n = Len(apiQ) + j /\ r = R /\ q = R
          /\ i \in Nat /\ j \in Nat
      BY <1>6, <2>3
    <3>2. i <= j
      BY <1>1, <2>3, <3>1 DEF Upto
    <3>. QED  BY <1>2, <3>1, <3>2
  <2>. QED  BY <1>2, <2>1, <2>2, <2>3, OrderWhenPassed
<1>8. UNCHANGED <<batch, wrong>>
  BY DEF HandleCommand
<1>9. CarriedInv'
  <2>1. Spared(1, 0)
    <3>1. \A r, i : Open(r, i) => Persists(r, i)
      BY <1>8, OpenSame
    <3>. QED  BY <3>1 DEF Spared
  <2>2. ASSUME NEW x \in A PROVE CarriedOK(x)'
    <3>1. PICK i \in DOMAIN batch[R].keys : x.type = "turn" /\ x.r = R /\ x.i = i
      BY <1>4
    <3>2. Open(R, i)'
      BY <1>1, <1>8 DEF Open
    <3>. QED  BY <3>1, <3>2 DEF CarriedOK
  <2>3. \A x \in {} \union A : CarriedOK(x)'
    BY <2>2
  <2>. QED  BY <1>2, <1>8, <2>1, <2>3, CarriedStep
<1>10. LiveInv => LiveInv'
  <2>1. \A r, i : LiveOpen(r, i)' => LiveOpen(r, i)
    BY <1>8, OpenSame
  <2>2. ASSUME NEW k, NEW r, NEW i, At(k, 1, r, i), LiveOpen(r, i)', k \in Even
        PROVE  OnItsWay(r, i)'
    <3>1. r = R
      BY <1>1, <2>2 DEF At, InApi, InMsg, Holds, Even
    <3>2. i \in 1..c
      BY <1>3, <1>8, <2>2, <3>1 DEF LiveOpen, Open
    <3>. PICK n : n = Len(apiQ) + i
      OBVIOUS
    <3>3. n \in DOMAIN apiQ' /\ n \in Nat /\ apiQ'[n] = Turn(R, i)
      BY <1>2, <1>3, <3>2
    <3>4. At(1, n, r, i)'
      <4>1. Turn(R, i).type = "turn" /\ Turn(R, i).r = R /\ Turn(R, i).i = i
        BY DEF Turn
      <4>. QED  BY <3>1, <3>3, <4>1 DEF At, InApi, Holds
    <3>. QED  BY <3>3, <3>4 DEF OnItsWay
  <2>3. \A k, r, i : At(k, 1, r, i) /\ LiveOpen(r, i)' /\ (IF k \in Even THEN 1 ELSE 0) = 1
                         => OnItsWay(r, i)'
    BY <2>2
  <2>. QED  BY <1>2, <2>1, <2>3, LiveStep
<1>. QED  BY <1>2, <1>7, <1>9, <1>10 DEF Routed

LEMMA TurnStep ==
    ASSUME Typed, OrderInv, CarriedInv, HandleTurn PROVE TypesKept /\ Routed
<1>. PICK r : r = Head(msgQ).r
  OBVIOUS
<1>. PICK i : i = Head(msgQ).i
  OBVIOUS
<1>. PICK b : b = batch[r]
  OBVIOUS
<1>1. /\ Head(msgQ) = msgQ[1] /\ 1 \in DOMAIN msgQ /\ Head(msgQ).type = "turn"
      /\ Open(r, i) /\ r \in Nat /\ r \in DOMAIN batch /\ b # None /\ BatchItem(r, b)
      /\ i \in Stage /\ i \in DOMAIN b.keys
  BY TurnHead DEF HandleTurn, Arrives
<1>2. TypesKept /\ (TurnCalls(r, i) \/ TurnFails(r, i))
  BY TurnFlows
<1>3. At(2, 1, r, i) /\ \A k, q, j : At(k, 1, q, j) /\ k \in Even => q = r /\ j = i
  BY <1>1 DEF At, InMsg, InApi, Holds, Even
<1>4. CASE TurnFails(r, i)
  <2>1. "refused" \in wrong => "refused" \in wrong'
    BY <1>4 DEF TurnFails, Finish, Respond
  <2>2. 2 \in Even
    BY DEF Even
  <2>3. Routed
    BY <1>1, <1>3, <1>4, <2>1, <2>2, ConcludesStep DEF TurnFails
  <2>. QED  BY <1>2, <2>3
<1>5. CASE TurnCalls(r, i)
  <2>. PICK x : x = CallFor(r, i)
    OBVIOUS
  <2>. PICK e : e = AtOnce(b, i)
    OBVIOUS
  <2>1. /\ x.type = "call" /\ x.op = b.kind /\ x.back.type = "answer" /\ x.back.r = r
        /\ x.back.i = i
        /\ x.g = [key |-> b.keys[i], mask |-> b.mask, paused |-> FALSE]
    <3>1. /\ i \in DOMAIN batch[r].keys /\ batch[r] # None
          /\ batch[r].kind = "add" \/ mGeofenceIds[batch[r].keys[i]] > 0
      BY <1>1, <1>5 DEF TurnCalls
    <3>2. LET y == CallFor(r, i) IN
          /\ y.type = "call" /\ y.op = batch[r].kind /\ y.back.type = "answer"
          /\ y.back.r = r /\ y.back.i = i
          /\ y.g = [key |-> batch[r].keys[i], mask |-> batch[r].mask, paused |-> FALSE]
      <4>. DEFINE g == [key |-> batch[r].keys[i], mask |-> batch[r].mask, paused |-> FALSE]
                  back == [type |-> "answer", r |-> r, i |-> i]
      <4>1. CallFor(r, i) = Call(batch[r].kind, mGeofenceIds[batch[r].keys[i]], g, back)
        BY DEF CallFor
      <4>2. back.type = "answer" /\ back.r = r /\ back.i = i
        OBVIOUS
      <4>. HIDE DEF g, back
      <4>3. /\ CallFor(r, i).type = "call" /\ CallFor(r, i).op = batch[r].kind
            /\ CallFor(r, i).g = g /\ CallFor(r, i).back = back
        BY <4>1 DEF Call
      <4>. QED  BY <4>2, <4>3 DEF g
    <3>. QED  BY <3>2
  <2>2. /\ Flow(1, 0, {}, 0, 1, {x}) /\ UNCHANGED wrong
        /\ batch' = [batch EXCEPT ![r] = Reporting(b, i, e)]
    BY <1>5 DEF TurnCalls, Marked
  <2>. PICK c : c = Reporting(b, i, e)
    OBVIOUS
  <2>3. e \in Outcome
    BY <1>1, BatchFields DEF Outcome, AtOnce
  <2>4. /\ BatchItem(r, c) /\ c.kind = b.kind /\ c.keys = b.keys /\ c.mask = b.mask
        /\ c.state = b.state /\ c.did = b.did
    BY <1>1, <2>3, BatchErr
  <2>5. /\ DOMAIN batch' = DOMAIN batch /\ batch'[r] = c /\ c # None
        /\ \A q \in DOMAIN batch : q # r => batch'[q] = batch[q]
    BY <1>1, <2>2, <2>4, BatchSet, BatchFields DEF Typed
  <2>6. \A q, j : Open(q, j) => Persists(q, j)
    BY <2>4, <2>5 DEF Open, Persists
  <2>7. ASSUME NEW q, NEW j, LiveOpen(q, j)' PROVE LiveOpen(q, j)
    <3>1. CASE q = r
      <4>1. j \in DOMAIN c.keys /\ c.did[j] = "nothing" /\ c.state = "live"
        BY <2>5, <2>7, <3>1 DEF Open, LiveOpen
      <4>2. j \in DOMAIN b.keys /\ b.did[j] = "nothing" /\ b.state = "live"
        BY <2>4, <4>1
      <4>. QED  BY <1>1, <3>1, <4>2 DEF Open, LiveOpen
    <3>2. CASE q # r
      BY <2>5, <2>7, <3>2 DEF Open, LiveOpen
    <3>. QED  BY <3>1, <3>2
  <2>8. CarriedInv'
    <3>1. Spared(1, 0)
      BY <2>6 DEF Spared
    <3>2. /\ Open(r, i)' /\ batch'[r].kind = b.kind /\ batch'[r].keys = b.keys
          /\ batch'[r].mask = b.mask
      BY <1>1, <2>6 DEF Persists
    <3>3. CarriedOK(x)'
      BY <2>1, <3>2, ZenonT(40) DEF CarriedOK
    <3>. QED  BY <2>2, <3>1, <3>3, CarriedStep
  <2>9. OrderInv'
    <3>1. \A y \in {x} : \A k : InApi(y, k) => k = 2 + 1
      BY <2>1 DEF InApi
    <3>2. \A y \in {x} : \A q, j : Holds(y, q, j) => At(2, 1, q, j)
      BY <1>3, <2>1 DEF Holds
    <3>3. \A m, n \in DOMAIN apiQ' : \A q, s, j, l :
             m > Len(apiQ) /\ n > Len(apiQ) /\ Holds(apiQ'[m], q, j) /\ Holds(apiQ'[n], s, l)
                 => (Upto(q, j, s, l) => m <= n)
      <4>1. DOMAIN apiQ' = 1..(Len(apiQ) + 1) /\ Len(apiQ) \in Nat
        BY <2>2 DEF Flow, Shifted
      <4>. QED  BY <4>1
    <3>. QED  BY <2>2, <3>1, <3>2, <3>3, OrderWhenPassed
  <2>10. LiveInv => LiveInv'
    <3>. PICK n : n = Len(apiQ) + 1
      OBVIOUS
    <3>1. n \in DOMAIN apiQ' /\ n \in Nat /\ apiQ'[n] = x
      BY <2>2 DEF Flow, Shifted
    <3>2. At(3, n, r, i)'
      BY <2>1, <3>1 DEF At, InApi, Holds
    <3>3. OnItsWay(r, i)'
      BY <3>1, <3>2 DEF OnItsWay
    <3>4. \A k, q, j : At(k, 1, q, j) /\ LiveOpen(q, j)' /\ (IF k \in Even THEN 1 ELSE 0) = 1
                           => OnItsWay(q, j)'
      BY <1>3, <3>3
    <3>. QED  BY <2>2, <2>7, <3>4, LiveStep
  <2>. QED  BY <1>2, <2>8, <2>9, <2>10 DEF Routed
<1>. QED  BY <1>2, <1>4, <1>5

LEMMA AnswerStep ==
    ASSUME Typed, OrderInv, CarriedInv, HandleAnswer PROVE TypesKept /\ Routed
<1>. PICK r : r = Head(msgQ).back.r
  OBVIOUS
<1>. PICK i : i = Head(msgQ).back.i
  OBVIOUS
<1>1. /\ Head(msgQ) = msgQ[1] /\ 1 \in DOMAIN msgQ /\ Head(msgQ).type = "answer"
      /\ Head(msgQ).back.type = "answer" /\ Open(r, i) /\ r \in Nat /\ i \in Stage
  BY AnswerHead DEF HandleAnswer
<1>2. TypesKept /\ Answers(r, i)
  BY AnswerFlows
<1>3. At(4, 1, r, i) /\ \A k, q, j : At(k, 1, q, j) /\ k \in Even => q = r /\ j = i
  BY <1>1 DEF At, InMsg, InApi, Holds, Even
<1>4. "refused" \in wrong => "refused" \in wrong'
  BY <1>2 DEF Answers, Finish, Respond
<1>5. 4 \in Even
  BY DEF Even
<1>6. Routed
  BY <1>1, <1>2, <1>3, <1>4, <1>5, ConcludesStep DEF Answers
<1>. QED  BY <1>2, <1>6

LEMMA LocApiTurnStep ==
    ASSUME Typed, OrderInv, CarriedInv, LocApiTurn PROVE TypesKept /\ Routed
<1>. PICK x : x = Head(apiQ)
  OBVIOUS
<1>1. /\ TypesKept /\ Flow(0, 1, {x}, 1, 0, {})
      /\ x = apiQ[1] /\ 1 \in DOMAIN apiQ /\ x.type = "turn"
  BY LocApiTurnFlows
<1>2. UNCHANGED <<batch, wrong>>
  BY DEF LocApiTurn
<1>3. \A k : InMsg(x, k) => k = 1 + 1
  BY <1>1 DEF InMsg
<1>4. \A r, i : Holds(x, r, i) => At(1, 1, r, i)
  BY <1>1 DEF At, InApi
<1>5. OrderInv'
  BY <1>1, <1>3, <1>4, OrderWhenHanded
<1>6. CarriedInv'
  <2>1. CarriedOK(x)
    BY <1>1 DEF CarriedInv
  <2>2. \A r, i : Open(r, i) => Persists(r, i)
    BY <1>2, OpenSame
  <2>3. CarriedOK(x)'
    BY <1>2, <2>1, <2>2, CarriedKept DEF Typed
  <2>4. Spared(0, 1)
    BY <2>2 DEF Spared
  <2>. QED  BY <1>1, <1>2, <2>3, <2>4, CarriedStep
<1>7. LiveInv => LiveInv'
  <2>1. \A r, i : LiveOpen(r, i)' => LiveOpen(r, i)
    BY <1>2, OpenSame
  <2>2. ASSUME NEW k, NEW r, NEW i, At(k, 1, r, i), k \notin Even PROVE OnItsWay(r, i)'
    <3>. PICK n : n = Len(msgQ) + 1
      OBVIOUS
    <3>1. n \in DOMAIN msgQ' /\ n \in Nat /\ msgQ'[n] = x
      BY <1>1 DEF Flow, Shifted
    <3>2. Holds(x, r, i)
      BY <1>1, <2>2 DEF At, InMsg, Even
    <3>3. At(2, n, r, i)'
      BY <1>1, <3>1, <3>2 DEF At, InMsg
    <3>. QED  BY <3>1, <3>3 DEF OnItsWay
  <2>3. \A k, r, i : At(k, 1, r, i) /\ LiveOpen(r, i)' /\ (IF k \in Even THEN 0 ELSE 1) = 1
                         => OnItsWay(r, i)'
    BY <2>2
  <2>. QED  BY <1>1, <2>1, <2>3, LiveStep
<1>. QED  BY <1>1, <1>5, <1>6, <1>7 DEF Routed

LEMMA CallStep ==
    ASSUME Typed, OrderInv, CarriedInv, LocApiCall PROVE TypesKept /\ Routed
<1>. PICK c : c = Head(apiQ)
  OBVIOUS
<1>1. /\ c = apiQ[1] /\ 1 \in DOMAIN apiQ /\ c.type = "call" /\ CarriedOK(c) /\ c.back \in Back
      /\ c.op \in {"add", "remove", "modify", "pause", "resume"}
  BY CallHead DEF LocApiCall
<1>2. TypesKept /\ UNCHANGED batch
  BY CallFlows DEF LocApiCall
<1>3. PICK hw, ok :
        /\ Replies(c, hw, ok)
        /\ "refused" \in wrong => "refused" \in wrong'
        /\ ok \/ (c.op \in {"modify", "resume"} => "refused" \in wrong')
  <2>1. CASE Refuses(c)
    <3>1. Replies(c, c.hw, FALSE) /\ wrong' = wrong \union Flag(c.op \in {"modify", "resume"}, "refused")
      BY <2>1 DEF Refuses
    <3>. QED  BY <3>1 DEF Flag
  <2>2. CASE \E hw \in HwId : Does(c, hw)
    BY <2>2 DEF Does
  <2>. QED  BY <2>1, <2>2, CallFlows
<1>4. CASE c.back.type # "answer"
  <2>1. Plain(c)
    BY <1>1, <1>4 DEF Plain
  <2>2. CASE c.back.type = "ignored"
    <3>1. Flow(0, 0, {}, 1, 0, {})
      BY <1>3, <2>2 DEF Replies
    <3>2. Plain(apiQ[1]) /\ \A y \in {} \union {} : Plain(y)
      BY <1>1, <2>1
    <3>. QED  BY <1>2, <1>3, <3>1, <3>2, PlainStep
  <2>3. CASE c.back.type # "ignored"
    <3>. PICK x : x = Reply(c.back, hw, ok)
      OBVIOUS
    <3>1. Flow(0, 1, {x}, 1, 0, {})
      BY <1>3, <2>3 DEF Replies
    <3>2. x.type = c.back.type
      BY DEF Reply
    <3>3. x.type \in {"restarted", "stopped"}
      BY <1>1, <1>4, <2>3, <3>2, BackFields
    <3>4. Plain(x) /\ Plain(apiQ[1])
      BY <1>1, <2>1, <3>3 DEF Plain
    <3>5. \A y \in {x} \union {} : Plain(y)
      BY <3>4
    <3>. QED  BY <1>2, <1>3, <3>1, <3>4, <3>5, PlainStep
  <2>. QED  BY <2>2, <2>3
<1>5. CASE c.back.type = "answer"
  <2>. PICK x : x = Reply(c.back, hw, ok)
    OBVIOUS
  <2>. PICK r : r = c.back.r
    OBVIOUS
  <2>. PICK i : i = c.back.i
    OBVIOUS
  <2>1. Flow(0, 1, {x}, 1, 0, {})
    BY <1>3, <1>5 DEF Replies
  <2>2. /\ x.type = "answer" /\ x.back.type = "answer" /\ x.back.r = r /\ x.back.i = i
        /\ x.ok = ok
    BY <1>5 DEF Reply
  <2>3. OrderInv'
    <3>1. \A k : InMsg(x, k) => k = 3 + 1
      BY <2>2 DEF InMsg
    <3>2. \A q, j : Holds(x, q, j) => At(3, 1, q, j)
      BY <1>1, <1>5, <2>2 DEF At, InApi, Holds
    <3>. QED  BY <2>1, <3>1, <3>2, OrderWhenHanded
  <2>4. CarriedInv'
    <3>1. Open(r, i) /\ c.op = batch[r].kind
      BY <1>1, <1>5 DEF CarriedOK
    <3>2. Open(r, i)' /\ batch'[r] = batch[r]
      BY <1>2, <3>1 DEF Open
    <3>3. CarriedOK(x)'
      BY <1>3, <2>2, <3>1, <3>2 DEF CarriedOK
    <3>4. \A q, j : Open(q, j) => Persists(q, j)
      BY <1>2, OpenSame
    <3>5. Spared(0, 1)
      BY <3>4 DEF Spared
    <3>. QED  BY <1>3, <2>1, <3>3, <3>5, CarriedStep
  <2>5. LiveInv => LiveInv'
    <3>1. \A q, j : LiveOpen(q, j)' => LiveOpen(q, j)
      BY <1>2, OpenSame
    <3>. PICK n : n = Len(msgQ) + 1
      OBVIOUS
    <3>2. n \in DOMAIN msgQ' /\ n \in Nat /\ msgQ'[n] = x
      BY <2>1 DEF Flow, Shifted
    <3>3. At(4, n, r, i)'
      BY <2>2, <3>2 DEF At, InMsg, Holds
    <3>4. OnItsWay(r, i)'
      BY <3>2, <3>3 DEF OnItsWay
    <3>5. ASSUME NEW k, NEW q, NEW j, At(k, 1, q, j), k \notin Even PROVE q = r /\ j = i
      BY <1>1, <1>5, <3>5 DEF At, InMsg, InApi, Holds, Even
    <3>6. \A k, q, j : At(k, 1, q, j) /\ LiveOpen(q, j)' /\ (IF k \in Even THEN 0 ELSE 1) = 1
                           => OnItsWay(q, j)'
      BY <3>4, <3>5
    <3>. QED  BY <2>1, <3>1, <3>6, LiveStep
  <2>. QED  BY <1>2, <2>3, <2>4, <2>5 DEF Routed
<1>. QED  BY <1>4, <1>5

\* The steps that carry no geofence of a request
LEMMA HandledStep ==
    ASSUME Typed, OrderInv, CarriedInv, NEW type, Arrives(type),
           type \notin {"command", "turn", "answer", "call"}, UNCHANGED batch,
           "refused" \in wrong => "refused" \in wrong',
           NEW c, NEW A, Flow(1, 0, {}, 0, c, A), \A x \in A : Plain(x)
    PROVE  Routed
<1>1. msgQ[1].type = type
  BY HeadMessage
<1>2. Plain(msgQ[1])
  BY <1>1 DEF Plain
<1>3. \A x \in {} \union A : Plain(x)
  OBVIOUS
<1>. QED  BY <1>2, <1>3, PlainStep

LEMMA AdapterSteps ==
    ASSUME Typed, OrderInv, CarriedInv,
           HandleEngineUp \/ HandleRestarted \/ HandleRemoveClient \/ HandleStopped \/ HandleBreach
    PROVE  TypesKept /\ Routed
<1>1. CASE HandleEngineUp
  <2>1. PICK c \in Nat : TypesKept /\ Flow(1, 0, {}, 0, c, {Again(g) : g \in Watched})
    BY <1>1, EngineUpFlows
  <2>2. ASSUME NEW x \in {Again(g) : g \in Watched} PROVE Plain(x)
    <3>1. PICK g \in Watched : x = Again(g)
      OBVIOUS
    <3>2. g \in Geofence
      BY DEF Watched, Geofences, Typed, TypeOK
    <3>. QED  BY <3>1, <3>2, AgainTypes DEF Plain
  <2>3. UNCHANGED <<batch, wrong>> /\ Arrives("engineUp")
    BY <1>1 DEF HandleEngineUp
  <2>. QED  BY <2>1, <2>2, <2>3, HandledStep
<1>2. CASE HandleRestarted
  <2>1. UNCHANGED <<batch, wrong>> /\ Arrives("restarted")
    BY <1>2 DEF HandleRestarted
  <2>. PICK m : m = Head(msgQ)
    OBVIOUS
  <2>2. TypesKept
    BY <1>2, RestartedFlows
  <2>3. CASE Flow(1, 0, {}, 0, 0, {})
    BY <2>1, <2>2, <2>3, HandledStep
  <2>4. CASE m.ok /\ Flow(1, 0, {}, 0, 1, {PauseAgain(m.hw, m.back.g)})
    <3>1. m.hw \in HwId /\ m.back.g \in Geofence
      BY <2>1, <2>4, RestartedHead
    <3>2. Plain(PauseAgain(m.hw, m.back.g))
      BY <3>1, PauseTypes DEF Plain
    <3>3. \A x \in {PauseAgain(m.hw, m.back.g)} : Plain(x)
      BY <3>2
    <3>. QED  BY <2>1, <2>2, <2>4, <3>3, HandledStep
  <2>. QED  BY <1>2, <2>3, <2>4, RestartedFlows
<1>3. CASE HandleRemoveClient
  <2>1. PICK c \in Nat : TypesKept /\ Flow(1, 0, {}, 0, c, {Stopping(s) : s \in Session})
    BY <1>3, RemoveClientFlows
  <2>2. \A x \in {Stopping(s) : s \in Session} : Plain(x)
    BY DEF Stopping, Call, Plain
  <2>3. UNCHANGED <<batch, wrong>> /\ Arrives("removeClient")
    BY <1>3 DEF HandleRemoveClient
  <2>. QED  BY <2>1, <2>2, <2>3, HandledStep
<1>4. CASE HandleStopped
  <2>1. UNCHANGED <<batch, wrong>> /\ Arrives("stopped")
    BY <1>4 DEF HandleStopped
  <2>. QED  BY <1>4, <2>1, StoppedFlows, HandledStep
<1>5. CASE HandleBreach
  <2>1. UNCHANGED batch /\ Arrives("breach") /\ ("refused" \in wrong => "refused" \in wrong')
    BY <1>5 DEF HandleBreach
  <2>. QED  BY <1>5, <2>1, BreachFlows, HandledStep
<1>. QED  BY <1>1, <1>2, <1>3, <1>4, <1>5

LEMMA OutsideSteps ==
    ASSUME Typed, OrderInv, CarriedInv,
           Destroy \/ LocApiReopens \/ ModemRestart \/ ModemBreach
    PROVE  TypesKept /\ Routed
<1>1. CASE Destroy
  <2>1. \A x \in {[type |-> "removeClient"]} \union {} : Plain(x)
    BY DEF Plain
  <2>2. UNCHANGED <<batch, wrong>>
    BY <1>1 DEF Destroy
  <2>. QED  BY <1>1, <2>1, <2>2, DestroyFlows, PlainStep
<1>2. CASE LocApiReopens
  <2>1. \A x \in {[type |-> "engineUp"]} \union {} : Plain(x)
    BY DEF Plain
  <2>2. UNCHANGED <<batch, wrong>>
    BY <1>2 DEF LocApiReopens
  <2>3. /\ TypesKept /\ Flow(0, 1, {[type |-> "engineUp"]}, 1, 0, {})
        /\ apiQ[1].type = "reopen"
    BY <1>2, ReopenFlows
  <2>4. Plain(apiQ[1])
    BY <2>3 DEF Plain
  <2>. QED  BY <2>1, <2>2, <2>3, <2>4, PlainStep
<1>3. CASE ModemRestart
  <2>1. \A x \in {} \union {[type |-> "reopen"]} : Plain(x)
    BY DEF Plain
  <2>2. UNCHANGED <<batch, wrong>>
    BY <1>3 DEF ModemRestart
  <2>. QED  BY <1>3, <2>1, <2>2, ModemRestartFlows, PlainStep
<1>4. CASE ModemBreach
  <2>1. PICK hw : TypesKept /\ Flow(0, 1, {BreachOf(hw)}, 0, 0, {})
    BY <1>4, ModemBreachFlows
  <2>2. \A x \in {BreachOf(hw)} \union {} : Plain(x)
    BY DEF Plain, BreachOf
  <2>3. UNCHANGED <<batch, wrong>>
    BY <1>4 DEF ModemBreach
  <2>. QED  BY <2>1, <2>2, <2>3, PlainStep
<1>. QED  BY <1>1, <1>2, <1>3, <1>4

LEMMA Steps ==
    ASSUME Base, [Next]_vars PROVE TypesKept /\ Routed
<1>. USE DEF Base
<1>1. CASE Request
  <2>1. /\ TypesKept /\ Posted /\ Flow(0, 1, {Command(Len(batch) + 1)}, 0, 0, {})
        /\ msgQ'[Len(msgQ) + 1] = Command(Len(batch) + 1)
    BY <1>1, PostedFlows
  <2>. PICK R : R = Len(batch) + 1
    OBVIOUS
  <2>. PICK x : x = Command(R)
    OBVIOUS
  <2>2. Flow(0, 1, {x}, 0, 0, {}) /\ msgQ'[Len(msgQ) + 1] = x
    BY <2>1
  <2>. QED  BY <2>1, <2>2, PostedStep
<1>2. CASE UNCHANGED vars
  <2>1. UNCHANGED <<msgQ, apiQ, batch, wrong>>
    BY <1>2 DEF vars
  <2>2. Flow(0, 0, {}, 0, 0, {}) /\ Messages(msgQ') /\ Items(apiQ')
    BY <2>1, MsgSame, ApiSame DEF Flow
  <2>3. BatchOK'
    BY <2>1 DEF Typed, BatchOK, BatchItem
  <2>4. TypeOK'
    BY <1>2 DEF Typed, TypeOK, vars, clientVars, tableVars, modemVars
  <2>. QED  BY <2>1, <2>2, <2>3, <2>4, PlainStep DEF TypesKept
<1>. QED  BY <1>1, <1>2, CommandStep, TurnStep, AnswerStep, LocApiTurnStep, CallStep,
             AdapterSteps, OutsideSteps DEF Next, Adapter

LEMMA BaseInit == ASSUME Init PROVE Base /\ LiveInv
<1>1. msgQ = <<>> /\ apiQ = <<>> /\ batch = <<>>
  BY DEF Init
<1>2. /\ Messages(msgQ) /\ Items(apiQ)
  BY <1>1 DEF Messages, Items
<1>3. BatchOK
  BY <1>1, Constants DEF BatchOK
<1>4. TypeOK
  <2>1. <<>> \in Seq(1..MaxRequests)
    OBVIOUS
  <2>. QED  BY <2>1 DEF Init, TypeOK
<1>5. OrderInv /\ CarriedInv /\ LiveInv
  <2>1. \A k, n, r, i : ~At(k, n, r, i)
    BY <1>1 DEF At
  <2>2. OrderInv
    BY <2>1 DEF OrderInv
  <2>3. CarriedInv
    BY <1>1 DEF CarriedInv
  <2>4. LiveInv
    BY <1>1 DEF LiveInv, LiveOpen, Open
  <2>. QED  BY <2>2, <2>3, <2>4
<1>. QED  BY <1>2, <1>3, <1>4, <1>5 DEF Base, Typed

LEMMA BaseNext ==
    ASSUME Base, [Next]_vars PROVE Base' /\ (LiveInv => LiveInv')
  BY Steps, TypedNext DEF Base, Routed

LEMMA Invariant == Spec => [](Base /\ LiveInv)
<1>1. Base /\ LiveInv /\ [Next]_vars => (Base /\ LiveInv)'
  BY BaseNext
<1>. QED  BY <1>1, BaseInit, PTL DEF Spec

\* Every variable keeps its type, whatever the number of requests.
THEOREM TypeCorrect == Spec => []TypeOK
<1>1. Base /\ LiveInv => TypeOK
  BY DEF Base, Typed
<1>. QED  BY <1>1, Invariant, PTL
-----------------------------------------------------------------------------
(* Responses *)

\* The requests that are open, as a fair modem leaves them
Sound(r) ==
    /\ batch[r].state = "live"
    /\ \A i \in DOMAIN batch[r].keys :
          batch[r].did[i] # "nothing" => batch[r].errs[i] = batch[r].did[i]
    /\ batch[r].did[LastOf(r)] = "nothing"

Queued ==
    /\ \A m, n \in DOMAIN requests : m < n => requests[m] < requests[n]
    /\ \A n \in DOMAIN requests : requests[n] \in DOMAIN batch /\ batch[requests[n]] # None
    /\ client => \A r \in DOMAIN batch : batch[r] # None => \E n \in DOMAIN requests : requests[n] = r

LEMMA ResponseParts ==
    ResponseInv <=>
        /\ ~client => requests = <<>>
        /\ Fair => /\ wrong \intersect {"request", "error", "freed"} = {}
                   /\ \A r \in DOMAIN batch : batch[r] # None => Sound(r)
                   /\ Queued
  BY DEF ResponseInv, Sound, Queued

LEMMA ResponsePartsNext ==
    ASSUME ~client' => requests' = <<>>,
           Fair' => /\ wrong' \intersect {"request", "error", "freed"} = {}
                    /\ \A r \in DOMAIN batch' : batch'[r] # None => Sound(r)'
                    /\ Queued'
    PROVE  ResponseInv'
  BY DEF ResponseInv, Sound, Queued, LastOf, Fair

\* What was asked for before an answer at the head of the queue is settled.
LEMMA Settled ==
    ASSUME Base, LiveInv, NEW r \in Nat, NEW i \in Stage, At(4, 1, r, i), msgQ[1].type = "answer",
           NEW q, NEW j, LiveOpen(q, j), Upto(q, j, r, i)
    PROVE  q = r /\ j = i
<1>1. PICK k \in 0..4, n \in Nat : At(k, n, q, j)
  BY DEF LiveInv, OnItsWay
<1>2. q \in Nat /\ j \in Stage
  <2>1. q \in DOMAIN batch /\ j \in DOMAIN batch[q].keys /\ BatchItem(q, batch[q])
    BY DEF LiveOpen, Open, Base, Typed, BatchOK
  <2>2. DOMAIN batch = 1..Len(batch) /\ Len(batch) \in Nat
    BY DEF Base, Typed, BatchOK
  <2>. QED  BY <2>1, <2>2, BatchFields, SMTT(30)
<1>3. k > 4 \/ (k = 4 /\ n <= 1)
  BY <1>1, <1>2, OrderOf DEF Base
<1>4. k = 4 /\ n = 1
  BY <1>1, <1>3, AtPlaces DEF Base
<1>. QED  BY <1>1, <1>4 DEF At, InMsg, InApi, Holds

LEMMA PostedResponds ==
    ASSUME Typed, ResponseInv, Posted PROVE ResponseInv'
<1>. PICK R : R = Len(batch) + 1
  OBVIOUS
<1>1. PICK b : Fresh(b) /\ batch' = Append(batch, b)
  BY DEF Posted
<1>2. /\ DOMAIN batch = 1..Len(batch) /\ DOMAIN batch' = 1..R /\ Len(batch) \in Nat
      /\ \A r \in DOMAIN batch : batch'[r] = batch[r]
      /\ batch'[R] = b /\ b # None
  BY <1>1, BatchPut DEF Typed, Posted, Fresh
<1>3. client /\ client' /\ UNCHANGED wrong /\ requests' = Append(requests, R)
  BY DEF Posted
<1>4. requests \in Seq(1..MaxRequests) /\ R \in 1..MaxRequests
  BY <1>2, Constants DEF Typed, TypeOK, Posted
<1>5. /\ DOMAIN requests' = 1..(Len(requests) + 1) /\ DOMAIN requests = 1..Len(requests)
      /\ \A n \in DOMAIN requests : requests'[n] = requests[n]
      /\ requests'[Len(requests) + 1] = R /\ Len(requests) \in Nat
  BY <1>3, <1>4, Putting
<1>6. ASSUME Fair'
      PROVE  /\ wrong' \intersect {"request", "error", "freed"} = {}
             /\ \A r \in DOMAIN batch' : batch'[r] # None => Sound(r)'
             /\ Queued'
  <2>1. /\ wrong \intersect {"request", "error", "freed"} = {}
        /\ \A r \in DOMAIN batch : batch[r] # None => Sound(r)
        /\ Queued
    BY <1>3, <1>6, ResponseParts DEF Fair
  <2>2. ASSUME NEW r \in DOMAIN batch', batch'[r] # None PROVE Sound(r)'
    <3>1. CASE r \in DOMAIN batch
      BY <1>2, <2>1, <2>2, <3>1 DEF Sound, LastOf
    <3>2. CASE r = R
      <4>1. Len(b.keys) \in DOMAIN b.keys
        BY <1>1, BatchFields DEF Fresh
      <4>. QED  BY <1>1, <1>2, <3>2, <4>1 DEF Sound, LastOf, Fresh
    <3>. QED  BY <1>2, <3>1, <3>2
  <2>3. \A n \in DOMAIN requests' : n \in DOMAIN requests \/ n = Len(requests) + 1
    BY <1>5
  <2>4. \A n \in DOMAIN requests : requests[n] \in DOMAIN batch /\ requests[n] < R
    BY <1>2, <2>1 DEF Queued
  <2>5. \A m, n \in DOMAIN requests' : m < n => requests'[m] < requests'[n]
    <3>. SUFFICES ASSUME NEW m \in DOMAIN requests', NEW n \in DOMAIN requests', m < n
                  PROVE  requests'[m] < requests'[n]
      OBVIOUS
    <3>1. m \in DOMAIN requests
      BY <1>5
    <3>2. CASE n \in DOMAIN requests
      BY <1>5, <2>1, <3>1, <3>2 DEF Queued
    <3>3. CASE n = Len(requests) + 1
      BY <1>5, <2>4, <3>1, <3>3
    <3>. QED  BY <2>3, <3>2, <3>3
  <2>6. \A n \in DOMAIN requests' : requests'[n] \in DOMAIN batch' /\ batch'[requests'[n]] # None
    <3>. SUFFICES ASSUME NEW n \in DOMAIN requests'
                  PROVE  requests'[n] \in DOMAIN batch' /\ batch'[requests'[n]] # None
      OBVIOUS
    <3>1. CASE n \in DOMAIN requests
      BY <1>2, <1>5, <2>1, <3>1 DEF Queued
    <3>2. CASE n = Len(requests) + 1
      BY <1>2, <1>5, <3>2
    <3>. QED  BY <2>3, <3>1, <3>2
  <2>7. \A r \in DOMAIN batch' : batch'[r] # None => \E n \in DOMAIN requests' : requests'[n] = r
    <3>. SUFFICES ASSUME NEW r \in DOMAIN batch', batch'[r] # None
                  PROVE  \E n \in DOMAIN requests' : requests'[n] = r
      OBVIOUS
    <3>1. CASE r \in DOMAIN batch
      <4>1. PICK n \in DOMAIN requests : requests[n] = r
        BY <1>2, <1>3, <2>1, <3>1 DEF Queued
      <4>. QED  BY <1>5, <4>1
    <3>2. CASE r = R
      BY <1>5, <3>2
    <3>. QED  BY <1>2, <3>1, <3>2
  <2>. QED  BY <1>3, <2>1, <2>2, <2>5, <2>6, <2>7 DEF Queued
<1>. QED  BY <1>3, <1>6, ResponsePartsNext

\* A step that touches neither requests nor what they are
LEMMA ResponseSame ==
    ASSUME ResponseInv, UNCHANGED <<batch, requests, client>>,
           wrong \subseteq wrong', wrong' \subseteq wrong \union {"breach", "refused"}
    PROVE  ResponseInv'
<1>1. ASSUME Fair'
      PROVE  /\ wrong' \intersect {"request", "error", "freed"} = {}
             /\ \A r \in DOMAIN batch' : batch'[r] # None => Sound(r)'
             /\ Queued'
  <2>1. Fair
    BY <1>1 DEF Fair
  <2>2. /\ wrong \intersect {"request", "error", "freed"} = {}
        /\ \A r \in DOMAIN batch : batch[r] # None => Sound(r)
        /\ Queued
    BY <2>1, ResponseParts
  <2>. QED  BY <2>2 DEF Sound, Queued, LastOf
<1>2. ~client' => requests' = <<>>
  BY ResponseParts
<1>. QED  BY <1>1, <1>2, ResponsePartsNext

\* One request changes, and the others and the queue do not.
OneChanges(r, b) ==
    /\ UNCHANGED <<requests, client>> /\ wrong \subseteq wrong'
    /\ wrong' \intersect {"request", "error", "freed"} = {}
    /\ r \in DOMAIN batch /\ batch[r] # None /\ BatchItem(r, b)
    /\ batch' = [batch EXCEPT ![r] = b]
    /\ b.state = "live" /\ b.did[Len(b.keys)] = "nothing"
    /\ \A i \in DOMAIN b.keys : b.did[i] # "nothing" => b.errs[i] = b.did[i]

LEMMA ResponseOne ==
    ASSUME Typed, ResponseInv, NEW r, NEW b, OneChanges(r, b)
    PROVE  ResponseInv'
<1>. USE DEF OneChanges
<1>1. /\ DOMAIN batch' = DOMAIN batch /\ batch'[r] = b /\ b # None
      /\ \A q \in DOMAIN batch : q # r => batch'[q] = batch[q]
  BY BatchSet, BatchFields DEF Typed
<1>2. ASSUME Fair'
      PROVE  /\ \A q \in DOMAIN batch' : batch'[q] # None => Sound(q)'
             /\ Queued'
  <2>1. Fair
    BY <1>2 DEF Fair
  <2>2. /\ \A q \in DOMAIN batch : batch[q] # None => Sound(q)
        /\ Queued
    BY <2>1, ResponseParts
  <2>3. ASSUME NEW q \in DOMAIN batch', batch'[q] # None PROVE Sound(q)'
    <3>1. CASE q = r
      BY <1>1, <1>2, <3>1 DEF Sound, LastOf
    <3>2. CASE q # r
      BY <1>1, <2>2, <2>3, <3>2 DEF Sound, LastOf
    <3>. QED  BY <3>1, <3>2
  <2>4. Queued'
    BY <1>1, <2>2 DEF Queued
  <2>. QED  BY <2>3, <2>4
<1>3. ~client' => requests' = <<>>
  BY ResponseParts
<1>. QED  BY <1>2, <1>3, ResponsePartsNext

\* The i-th geofence of r has its outcome, and b becomes c.
Told(r, i, b, c) ==
    /\ r \in Nat /\ r \in DOMAIN batch /\ b = batch[r] /\ b # None /\ BatchItem(r, b)
    /\ i \in Stage /\ i \in DOMAIN b.keys
    /\ BatchItem(r, c) /\ c.keys = b.keys /\ c.state = b.state
    /\ Fair => c.errs[i] = c.did[i]
    /\ \A j \in DOMAIN b.keys : j # i => c.did[j] = b.did[j] /\ c.errs[j] = b.errs[j]

\* An outcome of a geofence that is not the last of its request
LEMMA MiddleResponds ==
    ASSUME Base, ResponseInv, UNCHANGED client, NEW r, NEW i, NEW b, NEW c, Told(r, i, b, c),
           Finish(r, i, c), i # LastOf(r)
    PROVE  ResponseInv'
<1>. USE DEF Told
<1>1. /\ batch' = [batch EXCEPT ![r] = IF @.state = "freed" THEN @ ELSE c]
      /\ wrong' = wrong \union Flag(batch[r].state = "freed", "freed")
      /\ UNCHANGED requests
  BY DEF Finish
<1>2. CASE ~Fair
  <2>1. ~Fair'
    BY <1>1, <1>2 DEF Fair
  <2>2. ~client' => requests' = <<>>
    BY <1>1, ResponseParts
  <2>. QED  BY <2>1, <2>2, ResponsePartsNext
<1>3. CASE Fair
  <2>1. /\ b.state = "live" /\ wrong \intersect {"request", "error", "freed"} = {} /\ Sound(r)
    BY <1>3, ResponseParts DEF Sound
  <2>2. batch' = [batch EXCEPT ![r] = c] /\ UNCHANGED wrong
    BY <1>1, <2>1 DEF Flag
  <2>3. /\ c.state = "live" /\ c.did[Len(c.keys)] = "nothing"
        /\ \A j \in DOMAIN c.keys : c.did[j] # "nothing" => c.errs[j] = c.did[j]
    <3>1. Len(b.keys) \in DOMAIN b.keys /\ i # Len(b.keys) /\ b.did[Len(b.keys)] = "nothing"
          /\ \A j \in DOMAIN b.keys : b.did[j] # "nothing" => b.errs[j] = b.did[j]
      BY <2>1, BatchFields DEF Sound, LastOf
    <3>2. c.did[Len(c.keys)] = "nothing" /\ c.state = "live"
      BY <2>1, <3>1
    <3>3. ASSUME NEW j \in DOMAIN c.keys, c.did[j] # "nothing" PROVE c.errs[j] = c.did[j]
      BY <1>3, <3>1, <3>3
    <3>. QED  BY <3>2, <3>3
  <2>4. r \in DOMAIN batch /\ batch[r] # None /\ UNCHANGED <<requests, client>>
        /\ wrong \subseteq wrong' /\ wrong' \intersect {"request", "error", "freed"} = {}
    BY <1>1, <2>1, <2>2
  <2>5. OneChanges(r, c)
    BY <2>2, <2>3, <2>4 DEF OneChanges
  <2>. QED  BY <2>5, ResponseOne DEF Base
<1>. QED  BY <1>2, <1>3

LEMMA TurnResponds ==
    ASSUME Base, ResponseInv, HandleTurn PROVE ResponseInv'
<1>. USE DEF Base
<1>. PICK r : r = Head(msgQ).r
  OBVIOUS
<1>. PICK i : i = Head(msgQ).i
  OBVIOUS
<1>. PICK b : b = batch[r]
  OBVIOUS
<1>1. /\ Open(r, i) /\ r \in Nat /\ r \in DOMAIN batch /\ b # None /\ BatchItem(r, b)
      /\ i \in Stage /\ i \in DOMAIN b.keys /\ b.did[i] = "nothing"
  BY TurnHead DEF HandleTurn, Arrives, Open
<1>2. UNCHANGED client
  BY DEF HandleTurn
<1>3. Fair => /\ wrong \intersect {"request", "error", "freed"} = {} /\ Sound(r)
  BY <1>1, ResponseParts
<1>4. CASE TurnCalls(r, i)
  <2>. PICK e : e = AtOnce(b, i)
    OBVIOUS
  <2>. PICK c : c = Reporting(b, i, e)
    OBVIOUS
  <2>1. e \in Outcome
    BY <1>1, BatchFields DEF Outcome, AtOnce
  <2>2. /\ BatchItem(r, c) /\ c.keys = b.keys /\ c.state = b.state /\ c.did = b.did
        /\ \A j \in DOMAIN b.keys : j # i => c.errs[j] = b.errs[j]
    BY <1>1, <2>1, BatchErr
  <2>3. batch' = [batch EXCEPT ![r] = c] /\ UNCHANGED <<requests, wrong>>
    BY <1>4 DEF TurnCalls, Marked
  <2>4. Fair => (/\ c.state = "live" /\ c.did[Len(c.keys)] = "nothing"
                 /\ \A j \in DOMAIN c.keys : c.did[j] # "nothing" => c.errs[j] = c.did[j])
    <3>1. Fair => /\ b.state = "live" /\ b.did[Len(b.keys)] = "nothing"
                  /\ \A j \in DOMAIN b.keys : b.did[j] # "nothing" => b.errs[j] = b.did[j]
      BY <1>3 DEF Sound, LastOf
    <3>2. \A j \in DOMAIN b.keys : b.did[j] # "nothing" => c.errs[j] = b.errs[j]
      BY <1>1, <2>2
    <3>3. c.keys = b.keys /\ c.did = b.did /\ c.state = b.state
      BY <2>2
    <3>4. ASSUME Fair, NEW j \in DOMAIN c.keys, c.did[j] # "nothing" PROVE c.errs[j] = c.did[j]
      <4>1. j \in DOMAIN b.keys /\ b.did[j] # "nothing"
        BY <3>3, <3>4
      <4>2. b.errs[j] = b.did[j] /\ c.errs[j] = b.errs[j]
        BY <3>1, <3>2, <3>4, <4>1
      <4>. QED  BY <3>3, <4>2
    <3>5. Fair => c.state = "live" /\ c.did[Len(c.keys)] = "nothing"
      BY <3>1, <3>3
    <3>. QED  BY <3>4, <3>5
  <2>5. Fair' => Fair
    BY <2>3 DEF Fair
  <2>6. CASE Fair
    <3>1. /\ wrong' \intersect {"request", "error", "freed"} = {}
          /\ c.state = "live" /\ c.did[Len(c.keys)] = "nothing"
          /\ \A j \in DOMAIN c.keys : c.did[j] # "nothing" => c.errs[j] = c.did[j]
      BY <1>3, <2>3, <2>4, <2>6
    <3>2. r \in DOMAIN batch /\ batch[r] # None /\ UNCHANGED <<requests, client>>
          /\ wrong \subseteq wrong'
      BY <1>1, <1>2, <2>3
    <3>3. OneChanges(r, c)
      BY <2>2, <2>3, <3>1, <3>2 DEF OneChanges
    <3>. QED  BY <3>3, ResponseOne
  <2>7. CASE ~Fair
    <3>1. ~Fair'
      BY <2>3, <2>7 DEF Fair
    <3>2. ~client' => requests' = <<>>
      BY <1>2, <2>3, ResponseParts
    <3>. QED  BY <3>1, <3>2, ResponsePartsNext
  <2>. QED  BY <2>6, <2>7
<1>5. CASE TurnFails(r, i)
  <2>. PICK c : c = Noted(b, i, "unknown", "unknown")
    OBVIOUS
  <2>1. "unknown" \in Outcome
    BY DEF Outcome
  <2>2. /\ BatchItem(r, c) /\ c.keys = b.keys /\ c.state = b.state
        /\ c.did[i] = "unknown" /\ c.errs[i] = "unknown"
        /\ \A j \in DOMAIN b.keys : j # i => c.did[j] = b.did[j] /\ c.errs[j] = b.errs[j]
    BY <1>1, <2>1, BatchMarked
  <2>3. Finish(r, i, c)
    BY <1>5 DEF TurnFails
  <2>4. CASE i = LastOf(r)
    <3>1. Respond(r, c)
      BY <2>3, <2>4 DEF Finish
    <3>2. i \in DOMAIN c.did
      BY <1>1, <2>2 DEF BatchItem
    <3>3. "unknown" \in wrong'
      BY <2>2, <3>1, <3>2 DEF Respond, Flag
    <3>4. ~Fair'
      BY <3>3 DEF Fair
    <3>5. ~client' => requests' = <<>>
      BY <1>2, <3>1, ResponseParts DEF Respond
    <3>. QED  BY <3>4, <3>5, ResponsePartsNext
  <2>5. CASE i # LastOf(r)
    <3>1. Told(r, i, b, c)
      BY <1>1, <2>2 DEF Told
    <3>. QED  BY <1>2, <2>3, <2>5, <3>1, MiddleResponds
  <2>. QED  BY <2>4, <2>5
<1>. QED  BY <1>4, <1>5, TurnFlows

\* The outcome of the last geofence of a request: it is the oldest request, and
\* the outcomes of its other geofences are in.
LEMMA LastResponds ==
    ASSUME Base, LiveInv, ResponseInv, UNCHANGED client, Fair, NEW r, NEW i, NEW b, NEW c,
           Told(r, i, b, c), c.did[i] # "nothing",
           At(4, 1, r, i), msgQ[1].type = "answer", Respond(r, c), i = LastOf(r)
    PROVE  ResponseInv'
<1>. USE DEF Told
<1>1. /\ wrong \intersect {"request", "error", "freed"} = {} /\ Queued
      /\ \A q \in DOMAIN batch : batch[q] # None => Sound(q)
      /\ ~client => requests = <<>>
  BY ResponseParts
<1>2. /\ DOMAIN c.did = DOMAIN b.keys /\ DOMAIN c.errs = DOMAIN b.keys
      /\ DOMAIN b.keys = 1..Len(b.keys) /\ Len(b.keys) \in Nat /\ i = Len(b.keys)
  BY BatchFields DEF BatchItem, LastOf
<1>3. \A j \in DOMAIN b.keys : c.did[j] # "nothing" /\ c.errs[j] = c.did[j]
  <2>. SUFFICES ASSUME NEW j \in DOMAIN b.keys, j # i
                PROVE  c.did[j] # "nothing" /\ c.errs[j] = c.did[j]
    OBVIOUS
  <2>1. Upto(r, j, r, i)
    BY <1>2 DEF Upto
  <2>2. Sound(r)
    BY <1>1
  <2>3. b.did[j] # "nothing"
    <3>1. b.did[j] = "nothing" => LiveOpen(r, j)
      BY <2>2 DEF LiveOpen, Open, Sound
    <3>. QED  BY <2>1, <3>1, Settled
  <2>. QED  BY <2>2, <2>3 DEF Sound
<1>4. batch' = [batch EXCEPT ![r] = None]
  BY <1>2, <1>3 DEF Respond
<1>5. /\ DOMAIN batch' = DOMAIN batch /\ batch'[r] = None
      /\ \A q \in DOMAIN batch : q # r => batch'[q] = batch[q]
  BY <1>4, BatchSet DEF Base, Typed
<1>6. requests # <<>> => 1 \in DOMAIN requests /\ Head(requests) = requests[1]
         /\ DOMAIN requests = 1..Len(requests) /\ Len(requests) \in Nat
         /\ requests[1] \in 1..MaxRequests
         /\ DOMAIN Tail(requests) = 1..(Len(requests) - 1)
         /\ \A n \in DOMAIN Tail(requests) :
               n + 1 \in DOMAIN requests /\ Tail(requests)[n] = requests[n + 1]
  <2>1. requests \in Seq(1..MaxRequests)
    BY DEF Base, Typed, TypeOK
  <2>2. \A S : requests \in Seq(S) /\ requests # <<>> =>
                  1 \in DOMAIN requests /\ requests[1] \in S
    BY Taking
  <2>. QED  BY <2>1, <2>2, Taking
<1>7. requests # <<>> => requests[1] = r
  <2>. SUFFICES ASSUME requests # <<>>, requests[1] # r PROVE FALSE
    OBVIOUS
  <2>. PICK q : q = requests[1]
    OBVIOUS
  <2>1. q \in DOMAIN batch /\ batch[q] # None /\ q \in Nat /\ q # r
    BY <1>1, <1>6, Constants DEF Queued
  <2>2. client /\ \E n \in DOMAIN requests : requests[n] = r
    BY <1>1 DEF Queued
  <2>3. PICK n \in DOMAIN requests : requests[n] = r
    BY <2>2
  <2>4. 1 < n
    BY <1>6, <2>1, <2>3
  <2>5. q < r
    BY <1>1, <1>6, <2>3, <2>4 DEF Queued
  <2>6. Sound(q) /\ BatchItem(q, batch[q])
    BY <1>1, <2>1 DEF Base, Typed, BatchOK
  <2>. PICK j : j = LastOf(q)
    OBVIOUS
  <2>7. j \in DOMAIN batch[q].keys
    BY <2>6, BatchFields DEF LastOf
  <2>8. LiveOpen(q, j)
    BY <2>1, <2>6, <2>7 DEF LiveOpen, Open, Sound
  <2>9. Upto(q, j, r, i)
    BY <2>5 DEF Upto
  <2>. QED  BY <2>1, <2>8, <2>9, Settled
<1>8. wrong' \intersect {"request", "error", "freed"} = {}
  <2>1. wrong' = wrong \union Flag(FALSE, "request") \union Flag(FALSE, "error")
                      \union Flag(\E j \in DOMAIN c.did : c.did[j] = "unknown", "unknown")
    <3>1. ~(requests # <<>> /\ Head(requests) # r)
      BY <1>6, <1>7
    <3>2. ~ \E j \in DOMAIN c.errs : c.errs[j] # c.did[j]
      BY <1>2, <1>3
    <3>. QED  BY <3>1, <3>2 DEF Respond
  <2>. QED  BY <1>1, <2>1 DEF Flag
<1>9. requests' = IF requests = <<>> THEN <<>> ELSE Tail(requests)
  BY DEF Respond
<1>10. ~client' => requests' = <<>>
  BY <1>1, <1>9
<1>11. \A q \in DOMAIN batch' : batch'[q] # None => Sound(q)'
  BY <1>1, <1>5 DEF Sound, LastOf
<1>12. Queued'
  <2>1. CASE requests = <<>>
    <3>1. requests' = requests
      BY <1>9, <2>1
    <3>2. ~client'
      BY <1>1, <2>1 DEF Queued
    <3>. QED  BY <2>1, <3>1, <3>2 DEF Queued
  <2>2. CASE requests # <<>>
    <3>. PICK L : L = Len(requests)
      OBVIOUS
    <3>1. /\ DOMAIN requests = 1..L /\ DOMAIN requests' = 1..(L - 1) /\ L \in Nat
          /\ \A n \in DOMAIN requests' : n + 1 \in DOMAIN requests /\ requests'[n] = requests[n + 1]
          /\ requests[1] = r
      BY <1>6, <1>7, <1>9, <2>2
    <3>2. \A m, n \in DOMAIN requests' : m < n => requests'[m] < requests'[n]
      BY <1>1, <3>1 DEF Queued
    <3>3. ASSUME NEW n \in DOMAIN requests'
          PROVE  requests'[n] \in DOMAIN batch' /\ batch'[requests'[n]] # None
      <4>1. n + 1 \in DOMAIN requests /\ 1 \in DOMAIN requests /\ 1 < n + 1
            /\ requests'[n] = requests[n + 1]
        BY <3>1, <3>3
      <4>2. requests[1] < requests[n + 1] /\ requests[n + 1] \in DOMAIN batch
            /\ batch[requests[n + 1]] # None
        BY <1>1, <4>1 DEF Queued
      <4>3. requests[n + 1] # r
        BY <3>1, <4>2
      <4>. QED  BY <1>5, <4>1, <4>2, <4>3
    <3>4. ASSUME client', NEW q \in DOMAIN batch', batch'[q] # None
          PROVE  \E n \in DOMAIN requests' : requests'[n] = q
      <4>1. q \in DOMAIN batch /\ q # r /\ batch[q] # None
        BY <1>5, <3>4
      <4>2. PICK n \in DOMAIN requests : requests[n] = q
        BY <1>1, <3>4, <4>1 DEF Queued
      <4>3. n - 1 \in DOMAIN requests' /\ (n - 1) + 1 = n
        BY <3>1, <4>1, <4>2
      <4>4. requests'[n - 1] = requests[n]
        BY <3>1, <4>3
      <4>. QED  BY <4>2, <4>3, <4>4
    <3>. QED  BY <3>2, <3>3, <3>4 DEF Queued
  <2>. QED  BY <2>1, <2>2
<1>. QED  BY <1>8, <1>10, <1>11, <1>12, ResponsePartsNext

LEMMA AnswerResponds ==
    ASSUME Base, LiveInv, ResponseInv, HandleAnswer PROVE ResponseInv'
<1>. PICK m : m = Head(msgQ)
  OBVIOUS
<1>. PICK r : r = m.back.r
  OBVIOUS
<1>. PICK i : i = m.back.i
  OBVIOUS
<1>. PICK b : b = batch[r]
  OBVIOUS
<1>1. /\ m = msgQ[1] /\ 1 \in DOMAIN msgQ /\ Open(r, i)
      /\ m.type = "answer" /\ m.back.type = "answer" /\ m.ok \in BOOLEAN /\ CarriedOK(m)
      /\ r \in Nat /\ r \in DOMAIN batch /\ b # None /\ BatchItem(r, b)
      /\ i \in Stage /\ i \in DOMAIN b.keys
  BY AnswerHead DEF HandleAnswer, Base
<1>2. UNCHANGED client /\ Answers(r, i)
  BY AnswerFlows DEF HandleAnswer, Base
<1>3. At(4, 1, r, i) /\ msgQ[1].type = "answer"
  BY <1>1 DEF At, InMsg, Holds
<1>. PICK d : d = IF m.ok THEN "ok" ELSE "failed"
  OBVIOUS
<1>. PICK e : e = Reported(b, i, m.ok)
  OBVIOUS
<1>. PICK c : c = Noted(b, i, d, e)
  OBVIOUS
<1>4. d \in Outcome /\ d # "nothing" /\ d # "unknown" /\ e \in Outcome
  BY <1>1, BatchFields DEF Outcome, Reported
<1>5. /\ BatchItem(r, c) /\ c.keys = b.keys /\ c.state = b.state
      /\ c.did[i] = d /\ c.errs[i] = e
      /\ \A j \in DOMAIN b.keys : j # i => c.did[j] = b.did[j] /\ c.errs[j] = b.errs[j]
  BY <1>1, <1>4, BatchMarked
<1>6. IF b.kind = "resume" /\ ~m.ok
      THEN batch' = [batch EXCEPT ![r] = c] /\ UNCHANGED <<requests, wrong>>
      ELSE Finish(r, i, c)
  BY <1>2 DEF Answers
<1>7. Fair => (e = d /\ ~(b.kind = "resume" /\ ~m.ok))
  BY <1>1 DEF Fair, CarriedOK, Reported
<1>8. wrong \subseteq wrong' /\ (~client => requests' = <<>>)
  <2>1. ~client => requests = <<>>
    BY ResponseParts
  <2>. QED  BY <1>6, <2>1 DEF Finish, Respond
<1>9. CASE ~Fair
  <2>1. ~Fair' /\ (~client' => requests' = <<>>)
    BY <1>2, <1>8, <1>9 DEF Fair
  <2>. QED  BY <2>1, ResponsePartsNext
<1>10. CASE Fair
  <2>1. Finish(r, i, c) /\ c.did[i] # "nothing"
    <3>1. ~(b.kind = "resume" /\ ~m.ok)
      BY <1>7, <1>10
    <3>. QED  BY <1>4, <1>5, <1>6, <3>1
  <2>4. Told(r, i, b, c)
    <3>1. c.errs[i] = c.did[i]
      <4>1. e = d
        BY <1>7, <1>10
      <4>2. c.did[i] = d /\ c.errs[i] = e
        BY <1>5
      <4>. QED  BY <4>1, <4>2
    <3>2. r \in Nat /\ r \in DOMAIN batch /\ b # None /\ BatchItem(r, b)
          /\ i \in Stage /\ i \in DOMAIN b.keys
      BY <1>1
    <3>3. BatchItem(r, c) /\ c.keys = b.keys /\ c.state = b.state
          /\ \A j \in DOMAIN b.keys : j # i => c.did[j] = b.did[j] /\ c.errs[j] = b.errs[j]
      BY <1>5
    <3>. QED  BY <3>1, <3>2, <3>3 DEF Told
  <2>2. CASE i = LastOf(r)
    <3>1. Respond(r, c)
      BY <2>1, <2>2 DEF Finish
    <3>. QED  BY <1>2, <1>3, <1>10, <2>1, <2>2, <2>4, <3>1, LastResponds
  <2>3. CASE i # LastOf(r)
    BY <1>2, <2>1, <2>3, <2>4, MiddleResponds
  <2>. QED  BY <2>2, <2>3
<1>. QED  BY <1>9, <1>10

LEMMA AdapterResponds ==
    ASSUME Base, ResponseInv,
           HandleCommand \/ HandleEngineUp \/ HandleRestarted \/ HandleRemoveClient
               \/ HandleStopped \/ HandleBreach
    PROVE  ResponseInv'
<1>1. wrong \subseteq wrong' /\ wrong' \subseteq wrong \union {"breach", "refused"}
  BY DEF HandleCommand, HandleEngineUp, HandleRestarted, HandleRemoveClient, HandleStopped,
         HandleBreach
<1>2. UNCHANGED <<batch, requests, client>>
  BY DEF HandleCommand, HandleEngineUp, HandleRestarted, HandleRemoveClient, HandleStopped,
         HandleBreach, clientVars
<1>. QED  BY <1>1, <1>2, ResponseSame

LEMMA OutsideResponds ==
    ASSUME Base, ResponseInv,
           LocApiTurn \/ LocApiCall \/ LocApiReopens \/ ModemRestart \/ ModemBreach
               \/ UNCHANGED vars
    PROVE  ResponseInv'
<1>1. wrong \subseteq wrong' /\ wrong' \subseteq wrong \union {"breach", "refused"}
  BY DEF LocApiTurn, LocApiCall, LocApiReopens, ModemRestart, ModemBreach, ModemDoes,
         ModemRefuses, Flag, vars
<1>2. UNCHANGED <<batch, requests, client>>
  BY DEF LocApiTurn, LocApiCall, LocApiReopens, ModemRestart, ModemBreach, clientVars, vars
<1>. QED  BY <1>1, <1>2, ResponseSame

LEMMA DestroyResponds == ASSUME Base, ResponseInv, Destroy PROVE ResponseInv'
<1>1. UNCHANGED <<batch, wrong>> /\ client' = FALSE /\ requests' = <<>>
  BY DEF Destroy
<1>2. ASSUME Fair'
      PROVE  /\ wrong' \intersect {"request", "error", "freed"} = {}
             /\ \A r \in DOMAIN batch' : batch'[r] # None => Sound(r)'
             /\ Queued'
  <2>1. /\ wrong \intersect {"request", "error", "freed"} = {}
        /\ \A r \in DOMAIN batch : batch[r] # None => Sound(r)
    BY <1>1, <1>2, ResponseParts DEF Fair
  <2>2. DOMAIN requests' = {}
    BY <1>1
  <2>. QED  BY <1>1, <2>1, <2>2 DEF Sound, LastOf, Queued
<1>. QED  BY <1>1, <1>2, ResponsePartsNext

LEMMA ResponseNext ==
    ASSUME Base, LiveInv, ResponseInv, [Next]_vars PROVE ResponseInv'
<1>1. CASE Request
  BY <1>1, PostedFlows, PostedResponds DEF Base
<1>. QED  BY <1>1, DestroyResponds, TurnResponds, AnswerResponds, AdapterResponds,
             OutsideResponds DEF Next, Adapter

LEMMA ResponseInit == ASSUME Init PROVE ResponseInv
<1>1. requests = <<>> /\ batch = <<>> /\ wrong = {}
  BY DEF Init
<1>2. DOMAIN requests = {} /\ DOMAIN batch = {}
  BY <1>1
<1>. QED  BY <1>1, <1>2 DEF ResponseInv

\* If the adapter finds the geofences it is asked about and the modem refuses no
\* resume or modify, each request gets its own response, in order, with the errors
\* the modem gave, and no array is used after it was deleted.
THEOREM OneResponse == Spec => []OneTrueResponseEach
<1>1. Base /\ LiveInv /\ ResponseInv => OneTrueResponseEach
  <2>. SUFFICES ASSUME Base, LiveInv, ResponseInv, Fair
                PROVE  /\ wrong \intersect {"request", "error", "freed"} = {}
                       /\ Quiet => requests = <<>>
    BY DEF OneTrueResponseEach, Fair
  <2>1. /\ wrong \intersect {"request", "error", "freed"} = {}
        /\ \A r \in DOMAIN batch : batch[r] # None => Sound(r)
        /\ Queued
    BY ResponseParts
  <2>2. ASSUME Quiet, requests # <<>> PROVE FALSE
    <3>1. requests \in Seq(1..MaxRequests)
      BY DEF Base, Typed, TypeOK
    <3>2. 1 \in DOMAIN requests
      BY <2>2, <3>1, Taking
    <3>. PICK r : r = requests[1]
      OBVIOUS
    <3>3. r \in DOMAIN batch /\ batch[r] # None
      BY <2>1, <3>2 DEF Queued
    <3>4. Sound(r) /\ BatchItem(r, batch[r])
      BY <2>1, <3>3 DEF Base, Typed, BatchOK
    <3>5. LiveOpen(r, LastOf(r))
      BY <3>3, <3>4, BatchFields DEF LiveOpen, Open, Sound, LastOf
    <3>6. OnItsWay(r, LastOf(r))
      BY <3>5 DEF LiveInv
    <3>7. DOMAIN msgQ = {} /\ DOMAIN apiQ = {}
      BY <2>2 DEF Quiet
    <3>. QED  BY <3>6, <3>7 DEF OnItsWay, At
  <2>. QED  BY <2>1, <2>2
<1>2. Base /\ LiveInv /\ ResponseInv /\ [Next]_vars => (Base /\ LiveInv /\ ResponseInv)'
  BY BaseNext, ResponseNext
<1>3. Init => Base /\ LiveInv /\ ResponseInv
  BY BaseInit, ResponseInit
<1>. QED  BY <1>1, <1>2, <1>3, PTL DEF Spec

-----------------------------------------------------------------------------
(* Tables of geofences *)

LEMMA TableFields ==
    ASSUME NEW t \in Table
    PROVE  /\ Geofences(t) \subseteq HwId
           /\ \A hw \in HwId : t[hw] # None => hw \in Geofences(t) /\ t[hw] \in Geofence
                                                 /\ t[hw].key \in Keys(t)
           /\ \A hw \in Geofences(t) : t[hw] # None /\ t[hw] \in Geofence
           /\ Keys(t) \subseteq Session
  BY GeofenceFields DEF Table, Geofences, Keys

\* One place of a table gets another geofence, or none.
LEMMA TablePut ==
    ASSUME NEW t \in Table, Unique(t), NEW hw \in HwId, NEW g \in Geofence,
           g.key \notin Keys(t) \/ (t[hw] # None /\ g.key = t[hw].key)
    PROVE  \E u : /\ u = [t EXCEPT ![hw] = g] /\ u \in Table /\ Unique(u)
                  /\ Keys(u) \subseteq Keys(t) \union {g.key} /\ u[hw] = g
                  /\ \A h \in HwId : h # hw => u[h] = t[h]
<1>. PICK u : u = [t EXCEPT ![hw] = g]
  OBVIOUS
<1>1. u \in Table /\ u[hw] = g /\ \A h \in HwId : h # hw => u[h] = t[h]
  BY DEF Table
<1>2. ASSUME NEW h \in Geofences(u), NEW k \in Geofences(u), u[h].key = u[k].key PROVE h = k
  <2>1. h \in HwId /\ k \in HwId /\ u[h] # None /\ u[k] # None
    BY DEF Geofences
  <2>2. \A j \in HwId : j # hw /\ u[j] # None => j \in Geofences(t) /\ u[j] = t[j]
                                                    /\ u[j].key \in Keys(t)
    BY <1>1, TableFields
  <2>3. \A j \in HwId : j # hw /\ u[j] # None => u[j].key # g.key
    BY <2>2, TableFields DEF Unique
  <2>. QED  BY <1>1, <1>2, <2>1, <2>2, <2>3 DEF Unique
<1>3. Keys(u) \subseteq Keys(t) \union {g.key}
  <2>. SUFFICES ASSUME NEW h \in Geofences(u) PROVE u[h].key \in Keys(t) \union {g.key}
    BY DEF Keys
  <2>1. h \in HwId /\ u[h] # None
    BY DEF Geofences
  <2>. QED  BY <1>1, <2>1, TableFields
<1>4. Unique(u)
  BY <1>2 DEF Unique
<1>. QED  BY <1>1, <1>3, <1>4

LEMMA TableDrop ==
    ASSUME NEW t \in Table, Unique(t), NEW hw \in HwId
    PROVE  \E u : /\ u = [t EXCEPT ![hw] = None] /\ u \in Table /\ Unique(u)
                  /\ Keys(u) \subseteq Keys(t) /\ u[hw] = None
                  /\ \A h \in HwId : h # hw => u[h] = t[h]
<1>. PICK u : u = [t EXCEPT ![hw] = None]
  OBVIOUS
<1>1. u \in Table /\ u[hw] = None /\ \A h \in HwId : h # hw => u[h] = t[h]
  BY DEF Table
<1>2. \A h \in Geofences(u) : h \in Geofences(t) /\ u[h] = t[h]
  BY <1>1 DEF Geofences
<1>3. Unique(u)
  BY <1>2 DEF Unique
<1>4. Keys(u) \subseteq Keys(t)
  BY <1>2 DEF Keys
<1>. QED  BY <1>1, <1>3, <1>4

LEMMA EmptyTable ==
    ASSUME NEW u, u = [hw \in HwId |-> None]
    PROVE  u \in Table /\ Unique(u) /\ Keys(u) = {} /\ \A hw \in HwId : u[hw] = None
<1>1. u \in Table /\ \A hw \in HwId : u[hw] = None
  BY DEF Table
<1>2. Geofences(u) = {}
  BY <1>1 DEF Geofences
<1>. QED  BY <1>1, <1>2 DEF Unique, Keys

LEMMA AlteredTypes ==
    ASSUME NEW op \in {"modify", "pause", "resume"}, NEW g, op = "modify" => g.mask \in Mask,
           NEW h \in Geofence
    PROVE  Altered(op, g, h) \in Geofence /\ Altered(op, g, h).key = h.key
<1>1. CASE op = "modify"
  <2>. PICK m : m = g.mask
    OBVIOUS
  <2>1. m \in Mask /\ Altered(op, g, h) = [h EXCEPT !.mask = m]
    BY <1>1 DEF Altered
  <2>2. [h EXCEPT !.mask = m] \in Geofence /\ [h EXCEPT !.mask = m].key = h.key
    BY <2>1 DEF Geofence
  <2>. QED  BY <2>1, <2>2
<1>2. CASE op = "pause"
  <2>1. Altered(op, g, h) = [h EXCEPT !.paused = TRUE]
    BY <1>2 DEF Altered
  <2>2. [h EXCEPT !.paused = TRUE] \in Geofence /\ [h EXCEPT !.paused = TRUE].key = h.key
    BY DEF Geofence
  <2>. QED  BY <2>1, <2>2
<1>3. CASE op = "resume"
  <2>1. Altered(op, g, h) = [h EXCEPT !.paused = FALSE]
    BY <1>3 DEF Altered
  <2>2. [h EXCEPT !.paused = FALSE] \in Geofence /\ [h EXCEPT !.paused = FALSE].key = h.key
    BY DEF Geofence
  <2>. QED  BY <2>1, <2>2
<1>. QED  BY <1>1, <1>2, <1>3

\* A request treats what the adapter and the modem hold alike.
LEMMA AlteredSame ==
    ASSUME NEW op \in {"modify", "pause", "resume"}, NEW g, op = "modify" => g.mask \in Mask,
           NEW x \in Geofence, NEW y \in Geofence, Same(x, y)
    PROVE  Same(Altered(op, g, x), Altered(op, g, y))
<1>. PICK v : v = Altered(op, g, x)
  OBVIOUS
<1>. PICK w : w = Altered(op, g, y)
  OBVIOUS
<1>0. v \in Geofence /\ w \in Geofence /\ v # None /\ w # None
  BY AlteredTypes, GeofenceFields
<1>1. CASE x = y
  BY <1>1 DEF Same
<1>2. CASE "restart" \in used /\ x = [y EXCEPT !.paused = FALSE]
  <2>1. CASE op = "modify"
    <3>. PICK m : m = g.mask
      OBVIOUS
    <3>1. m \in Mask /\ v = [x EXCEPT !.mask = m] /\ w = [y EXCEPT !.mask = m]
      BY <2>1 DEF Altered
    <3>2. [x EXCEPT !.mask = m] = [[y EXCEPT !.mask = m] EXCEPT !.paused = FALSE]
      BY <1>2, <3>1 DEF Geofence
    <3>. QED  BY <1>0, <1>2, <3>1, <3>2 DEF Same
  <2>2. CASE op = "pause"
    <3>1. v = [x EXCEPT !.paused = TRUE] /\ w = [y EXCEPT !.paused = TRUE]
      BY <2>2 DEF Altered
    <3>2. [x EXCEPT !.paused = TRUE] = [y EXCEPT !.paused = TRUE]
      BY <1>2 DEF Geofence
    <3>. QED  BY <3>1, <3>2 DEF Same
  <2>3. CASE op = "resume"
    <3>1. v = [x EXCEPT !.paused = FALSE] /\ w = [y EXCEPT !.paused = FALSE]
      BY <2>3 DEF Altered
    <3>2. [x EXCEPT !.paused = FALSE] = [y EXCEPT !.paused = FALSE]
      BY <1>2 DEF Geofence
    <3>. QED  BY <3>1, <3>2 DEF Same
  <2>. QED  BY <2>1, <2>2, <2>3
<1>. QED  BY <1>1, <1>2 DEF Same

\* A geofence that is paused again is what the adapter holds, if it forgot the pause.
LEMMA PausedAgain ==
    ASSUME NEW x \in Geofence, NEW y \in Geofence, Same(x, y), "restart" \in used,
           NEW g
    PROVE  Same(x, Altered("pause", g, y))
<1>. PICK w : w = Altered("pause", g, y)
  OBVIOUS
<1>1. w = [y EXCEPT !.paused = TRUE] /\ w \in Geofence
  BY AlteredTypes DEF Altered
<1>2. x # None /\ w # None
  BY <1>1, GeofenceFields
<1>3. x = w \/ x = [w EXCEPT !.paused = FALSE]
  <2>1. CASE x = y
    <3>1. CASE y.paused = TRUE
      <4>1. y = [y EXCEPT !.paused = TRUE]
        BY <3>1 DEF Geofence
      <4>. QED  BY <1>1, <2>1, <4>1
    <3>2. CASE y.paused = FALSE
      <4>1. y = [[y EXCEPT !.paused = TRUE] EXCEPT !.paused = FALSE]
        BY <3>2 DEF Geofence
      <4>. QED  BY <1>1, <2>1, <4>1
    <3>. QED  BY <3>1, <3>2, GeofenceFields
  <2>2. CASE x = [y EXCEPT !.paused = FALSE]
    <3>1. [y EXCEPT !.paused = FALSE] = [[y EXCEPT !.paused = TRUE] EXCEPT !.paused = FALSE]
      BY DEF Geofence
    <3>. QED  BY <1>1, <2>2, <3>1
  <2>. QED  BY <2>1, <2>2 DEF Same
<1>. QED  BY <1>2, <1>3 DEF Same

-----------------------------------------------------------------------------
(* What a step leaves alone *)

\* No step alters what a request asked for.
Kept ==
    /\ Len(batch) \in Nat /\ Len(batch') \in Nat /\ Len(batch) <= Len(batch')
    /\ DOMAIN batch = 1..Len(batch) /\ DOMAIN batch \subseteq DOMAIN batch'
    /\ \A r \in DOMAIN batch : batch[r] # None /\ batch'[r] # None =>
         /\ batch'[r].kind = batch[r].kind /\ batch'[r].keys = batch[r].keys
         /\ batch'[r].mask = batch[r].mask

LEMMA KeptBySame == ASSUME Typed, UNCHANGED batch PROVE Kept
<1>1. Len(batch) \in Nat /\ DOMAIN batch = 1..Len(batch)
  BY DEF Typed, BatchOK
<1>. QED  BY <1>1 DEF Kept

LEMMA KeptByPost == ASSUME Typed, Posted PROVE Kept
<1>1. Len(batch) \in Nat
  BY DEF Typed, BatchOK
<1>2. PICK b : Fresh(b) /\ batch' = Append(batch, b)
  BY DEF Posted
<1>3. /\ Len(batch') = Len(batch) + 1
      /\ DOMAIN batch = 1..Len(batch) /\ DOMAIN batch' = 1..(Len(batch) + 1)
      /\ \A r \in DOMAIN batch : batch'[r] = batch[r]
  BY <1>2, BatchPut DEF Posted, Fresh, Typed
<1>. QED  BY <1>1, <1>3 DEF Kept

LEMMA KeptBySet ==
    ASSUME Typed, NEW r \in DOMAIN batch, NEW b, batch' = [batch EXCEPT ![r] = b],
           b = None \/ BatchItem(r, b),
           batch[r] # None /\ b # None =>
               b.kind = batch[r].kind /\ b.keys = batch[r].keys /\ b.mask = batch[r].mask
    PROVE  Kept
<1>1. Len(batch) \in Nat /\ DOMAIN batch = 1..Len(batch)
  BY DEF Typed, BatchOK
<1>2. /\ DOMAIN batch' = DOMAIN batch /\ Len(batch') = Len(batch) /\ batch'[r] = b
      /\ \A q \in DOMAIN batch : q # r => batch'[q] = batch[q]
  BY BatchSet DEF Typed
<1>. QED  BY <1>1, <1>2 DEF Kept

LEMMA KeptByEnd ==
    ASSUME Typed, NEW r \in DOMAIN batch, NEW i, Concludes(r, i) PROVE Kept
<1>1. PICK b : Becomes(r, i, b)
  BY DEF Concludes
<1>. QED  BY <1>1, KeptBySet DEF Becomes

-----------------------------------------------------------------------------
(* What is still to be added *)

\* x carries no geofence that was not on its way already, or is of a new request.
Foreseen(x) ==
    \A k, r, i : Holds(x, r, i) /\ (InMsg(x, k) \/ InApi(x, k)) =>
        k = 4 \/ r > Len(batch) \/ \E l \in 0..3, n \in Nat : At(l, n, r, i)

DueKept == \A s : s \in 1..(2 * Len(batch)) /\ Due(s)' => Due(s)

DueAgainKept == \A s : DueAgain(s)' => DueAgain(s)

LEMMA DueStep ==
    ASSUME Typed, NEW dm, NEW cm, NEW M, NEW da, NEW ca, NEW A, Flow(dm, cm, M, da, ca, A),
           \A x \in M \union A : Foreseen(x)
    PROVE  DueKept
<1>. SUFFICES ASSUME NEW s, s \in 1..(2 * Len(batch)), Due(s)' PROVE Due(s)
  BY DEF DueKept
<1>1. PICK k \in 0..3, n \in Nat, r \in Nat, i \in Stage : At(k, n, r, i)' /\ s = SessionOf(r, i)
  BY DEF Due, SessionOf
<1>2. Len(batch) \in Nat
  BY DEF Typed, BatchOK
<1>3. CASE At(k, n + (IF k \in Even THEN dm ELSE da), r, i)
  <2>1. n + (IF k \in Even THEN dm ELSE da) \in Nat
    BY <1>3, AtPlaces
  <2>. QED  BY <1>1, <1>3, <2>1 DEF Due
<1>4. ASSUME NEW x \in M \union A, Holds(x, r, i), InMsg(x, k) \/ InApi(x, k) PROVE Due(s)
  <2>0. Foreseen(x) /\ k # 4
    BY <1>1
  <2>1. r > Len(batch) \/ \E l \in 0..3, m \in Nat : At(l, m, r, i)
    BY <1>4, <2>0 DEF Foreseen
  <2>2. ~(r > Len(batch))
    BY <1>1, <1>2 DEF SessionOf, Stage
  <2>. QED  BY <1>1, <2>1, <2>2 DEF Due
<1>. QED  BY <1>1, <1>3, <1>4, AtBefore

LEMMA PlainForeseen == ASSUME NEW x, Plain(x) PROVE Foreseen(x)
  BY PlainCarries DEF Foreseen

\* No geofence that is in the table, or soon will be, is added once more.
Calm == AgainInv' /\ DueKept /\ DueAgainKept /\ \A t : Bounded(t) => Bounded(t)'

LEMMA AgainStep ==
    ASSUME Typed, NEW dm, NEW cm, NEW M, NEW da, NEW ca, NEW A, Flow(dm, cm, M, da, ca, A),
           AgainInv, Kept, DueKept, \A x \in A : \A s : ~Readds(x, s)
    PROVE  Calm
<1>1. ASSUME NEW s, NEW n \in DOMAIN apiQ', NEW x, x = apiQ'[n], Readds(x, s)
      PROVE  n + da \in DOMAIN apiQ /\ Readds(apiQ[n + da], s)
  BY <1>1 DEF Flow, Shifted
<1>2. DueAgainKept
  <2>. SUFFICES ASSUME NEW s, DueAgain(s)' PROVE DueAgain(s)
    BY DEF DueAgainKept
  <2>1. PICK n \in DOMAIN apiQ' : Readds(apiQ'[n], s)
    BY DEF DueAgain, Readds
  <2>. QED  BY <1>1, <2>1 DEF DueAgain
<1>3. ASSUME NEW t, Bounded(t) PROVE Bounded(t)'
  <2>. SUFFICES ASSUME NEW s \in Keys(t)
                PROVE  s \in 1..(2 * Len(batch')) /\ ~Due(s)' /\ ~DueAgain(s)'
    BY DEF Bounded, Keys, Geofences
  <2>1. s \in 1..(2 * Len(batch)) /\ ~Due(s) /\ ~DueAgain(s)
    BY <1>3 DEF Bounded
  <2>2. s \in 1..(2 * Len(batch'))
    BY <2>1 DEF Kept
  <2>. QED  BY <1>2, <2>1, <2>2 DEF DueKept, DueAgainKept
<1>4. AgainInv'
  <2>1. ASSUME NEW s, NEW n \in DOMAIN apiQ', Readds(apiQ'[n], s)
        PROVE  /\ s \in 1..(2 * Len(batch')) /\ ~Due(s)'
               /\ \A m \in DOMAIN apiQ' : Readds(apiQ'[m], s) => m = n
    <3>1. n + da \in DOMAIN apiQ /\ Readds(apiQ[n + da], s)
      BY <1>1, <2>1
    <3>2. /\ s \in 1..(2 * Len(batch)) /\ ~Due(s)
          /\ \A m \in DOMAIN apiQ : Readds(apiQ[m], s) => m = n + da
      BY <3>1 DEF AgainInv
    <3>3. ASSUME NEW m \in DOMAIN apiQ', Readds(apiQ'[m], s) PROVE m = n
      <4>1. m + da = n + da
        BY <1>1, <3>2, <3>3
      <4>2. m \in Nat /\ n \in Nat /\ da \in Nat
        BY DEF Flow, Shifted
      <4>. QED  BY <4>1, <4>2
    <3>4. s \in 1..(2 * Len(batch'))
      BY <3>2 DEF Kept
    <3>. QED  BY <3>2, <3>3, <3>4 DEF DueKept
  <2>. QED  BY <2>1 DEF AgainInv, Readds
<1>. QED  BY <1>2, <1>3, <1>4 DEF Calm

-----------------------------------------------------------------------------
(* The engine, and a client that stays *)

\* What may be put in a queue
NoRestart(x) ==
    /\ x.type \notin {"reopen", "engineUp", "restarted"}
    /\ x.type = "call" => x.back.type \notin {"restarted", "ignored"}

NoLeaving(x) ==
    x.type \notin {"removeClient", "stopped"} /\ (x.type = "call" => x.back.type # "stopped")

LEMMA EngineStep ==
    ASSUME NEW dm, NEW cm, NEW M, NEW da, NEW ca, NEW A, Flow(dm, cm, M, da, ca, A),
           EngineInv, UNCHANGED engine, used \subseteq used',
           engine = "down" => UNCHANGED modem,
           \A x \in M \union A : NoRestart(x) \/ (x.type # "reopen" /\ "restart" \in used)
    PROVE  EngineInv'
<1>1. ASSUME NEW n \in DOMAIN apiQ', NEW x, x = apiQ'[n]
      PROVE  \/ n + da \in DOMAIN apiQ /\ x = apiQ[n + da]
             \/ NoRestart(x) \/ (x.type # "reopen" /\ "restart" \in used)
  BY <1>1 DEF Flow, Shifted
<1>2. ASSUME NEW n \in DOMAIN msgQ', NEW x, x = msgQ'[n]
      PROVE  \/ n + dm \in DOMAIN msgQ /\ x = msgQ[n + dm]
             \/ NoRestart(x) \/ "restart" \in used
  BY <1>2 DEF Flow, Shifted
<1>3. \A n \in DOMAIN apiQ' : apiQ'[n].type = "reopen" =>
         n + da \in DOMAIN apiQ /\ apiQ[n + da].type = "reopen"
  BY <1>1 DEF NoRestart
<1>4. \A n \in DOMAIN apiQ' : apiQ'[n].type = "reopen" => engine' = "down"
  BY <1>3 DEF EngineInv
<1>5. ASSUME NEW m \in DOMAIN apiQ', NEW n \in DOMAIN apiQ',
             apiQ'[m].type = "reopen", apiQ'[n].type = "reopen"
      PROVE  m = n
  <2>1. m + da = n + da
    BY <1>3, <1>5 DEF EngineInv
  <2>. QED  BY <2>1 DEF Flow, Shifted
<1>6. engine' = "down" => modem' = [hw \in HwId |-> None]
  BY DEF EngineInv
<1>7. \A n \in DOMAIN apiQ' :
            (\/ apiQ'[n].type = "reopen"
             \/ (apiQ'[n].type = "call" /\ apiQ'[n].back.type \in {"restarted", "ignored"}))
            => "restart" \in used'
  BY <1>1 DEF EngineInv, NoRestart
<1>8. \A n \in DOMAIN msgQ' : msgQ'[n].type \in {"engineUp", "restarted"} => "restart" \in used'
  BY <1>2 DEF EngineInv, NoRestart
<1>. QED  BY <1>4, <1>5, <1>6, <1>7, <1>8 DEF EngineInv

LEMMA StayingStep ==
    ASSUME NEW dm, NEW cm, NEW M, NEW da, NEW ca, NEW A, Flow(dm, cm, M, da, ca, A),
           Staying, \A x \in M \union A : NoLeaving(x)
    PROVE  Staying'
<1>1. \A n \in DOMAIN msgQ' : msgQ'[n].type \notin {"removeClient", "stopped"}
  <2>. SUFFICES ASSUME NEW n \in DOMAIN msgQ'
                PROVE  msgQ'[n].type \notin {"removeClient", "stopped"}
    OBVIOUS
  <2>1. (n + dm \in DOMAIN msgQ /\ msgQ'[n] = msgQ[n + dm]) \/ msgQ'[n] \in M
    BY DEF Flow, Shifted
  <2>. QED  BY <2>1 DEF Staying, NoLeaving
<1>2. \A n \in DOMAIN apiQ' : apiQ'[n].type = "call" => apiQ'[n].back.type # "stopped"
  <2>. SUFFICES ASSUME NEW n \in DOMAIN apiQ', apiQ'[n].type = "call"
                PROVE  apiQ'[n].back.type # "stopped"
    OBVIOUS
  <2>1. (n + da \in DOMAIN apiQ /\ apiQ'[n] = apiQ[n + da]) \/ apiQ'[n] \in A
    BY DEF Flow, Shifted
  <2>. QED  BY <2>1 DEF Staying, NoLeaving
<1>. QED  BY <1>1, <1>2 DEF Staying

-----------------------------------------------------------------------------
(* What the queued messages lead to *)

\* What a message does is settled when it is queued.
LEMMA StepKept ==
    ASSUME Kept, NEW x, MessageOK(x), CarriedOK(x), CarriedOK(x)', NEW t, NEW u, Step(x, t, u)
    PROVE  Step(x, t, u)'
<1>1. Succeeds(x) => Change(OpOf(x), GeofenceOf(x), x.hw, t, u)'
  <2>. SUFFICES ASSUME Succeeds(x) PROVE Change(OpOf(x), GeofenceOf(x), x.hw, t, u)'
    OBVIOUS
  <2>. PICK op : op = OpOf(x)
    OBVIOUS
  <2>. PICK g : g = GeofenceOf(x)
    OBVIOUS
  <2>1. OpOf(x)' = op /\ GeofenceOf(x)' = g
    <3>1. CASE x.type = "restarted"
      BY <3>1 DEF OpOf, GeofenceOf
    <3>2. CASE x.type = "answer"
      <4>1. x.back.type = "answer"
        BY <3>2 DEF MessageOK
      <4>2. /\ x.back.r \in DOMAIN batch
            /\ batch[x.back.r] # None /\ batch'[x.back.r] # None
        BY <3>2, <4>1 DEF CarriedOK, Open
      <4>3. /\ batch'[x.back.r].kind = batch[x.back.r].kind
            /\ batch'[x.back.r].keys = batch[x.back.r].keys
            /\ batch'[x.back.r].mask = batch[x.back.r].mask
        BY <4>2 DEF Kept
      <4>. QED  BY <3>2, <4>3 DEF OpOf, GeofenceOf
    <3>. QED  BY <3>1, <3>2 DEF Succeeds
  <2>2. Change(op, g, x.hw, t, u)
    BY DEF Step
  <2>. QED  BY <2>1, <2>2 DEF Change, Keys, Geofences, Altered
<1>. QED  BY <1>1 DEF Step, Succeeds

\* Parts of Mirror, for one table and for one message
Level(t) == t \in Table /\ Unique(t) /\ Bounded(t)

Link(x, t, u) == Step(x, t, u) /\ RightOwner(x, u)

LEMMA MirrorParts ==
    ASSUME NEW V, Mirror(V)
    PROVE  /\ V[0] = mGeofences /\ Obeyed(V[Len(msgQ)])
           /\ \A n \in 0..Len(msgQ) : Level(V[n])
           /\ \A n \in DOMAIN msgQ : Link(msgQ[n], V[n - 1], V[n])
           /\ \A p \in DOMAIN msgQ, n, m \in 0..Len(msgQ) :
                msgQ[p].type = "engineUp" /\ n < p /\ p <= m => Apart(V[n], V[m])
  BY DEF Mirror, Level, Link

LEMMA MirrorNext ==
    ASSUME NEW V, NEW N, N = Len(msgQ'), V[0] = mGeofences', Obeyed(V[N])',
           \A n \in 0..N : Level(V[n])',
           \A n \in DOMAIN msgQ' : \E x : x = msgQ'[n] /\ Link(x, V[n - 1], V[n])',
           \A p \in DOMAIN msgQ', n, m \in 0..N :
                msgQ'[p].type = "engineUp" /\ n < p /\ p <= m => Apart(V[n], V[m])
    PROVE  Mirror(V)'
<1>1. \A n \in 0..N : V[n] \in Table /\ Unique(V[n])' /\ Bounded(V[n])'
  BY DEF Level, Table, Geofence, Session, HwId
<1>2. ASSUME NEW n \in DOMAIN msgQ'
      PROVE  Step(msgQ[n], V[n - 1], V[n])' /\ RightOwner(msgQ[n], V[n])'
  <2>1. PICK x : x = msgQ'[n] /\ Link(x, V[n - 1], V[n])'
    BY <1>2
  <2>. QED  BY <2>1 DEF Link, Step, RightOwner, Succeeds, OpOf, GeofenceOf
<1>. QED  BY <1>1, <1>2 DEF Mirror, Apart, Keys, Geofences, Table

\* The messages of a queue, with what each of them carries
LEMMA MessageAt ==
    ASSUME Base, NEW n \in DOMAIN msgQ
    PROVE  msgQ[n] \in Message /\ MessageOK(msgQ[n]) /\ CarriedOK(msgQ[n])
  BY DEF Base, Typed, Messages, CarriedInv

LEMMA CarriedAfter ==
    ASSUME Base', NEW n \in DOMAIN msgQ', NEW x, x = msgQ'[n]
    PROVE  MessageOK(x) /\ CarriedOK(x)'
<1>1. MessageOK(x)
  BY DEF Base, Typed, Messages, MessageOK
<1>2. CarriedOK(msgQ[n])'
  BY DEF Base, CarriedInv
<1>. QED  BY <1>1, <1>2 DEF CarriedOK, Open

LEMMA LevelKept == ASSUME Calm, NEW t, Level(t) PROVE Level(t)'
  BY DEF Level, Calm, Table, Unique, Geofences, Geofence, Session, HwId

\* A message that stays in the queue
LEMMA LinkKept ==
    ASSUME Base, Base', Kept, NEW n \in DOMAIN msgQ, NEW m \in DOMAIN msgQ', NEW x,
           x = msgQ[n], x = msgQ'[m], NEW t, NEW u, Link(x, t, u)
    PROVE  Link(x, t, u)'
<1>1. MessageOK(x) /\ CarriedOK(x) /\ CarriedOK(x)'
  BY MessageAt, CarriedAfter
<1>2. Step(x, t, u)'
  BY <1>1, StepKept DEF Link
<1>. QED  BY <1>2 DEF Link, RightOwner

\* What the two kinds of shift make of a queue, read forwards
LEMMA Shorter ==
    ASSUME NEW q, NEW p, Shifted(q, p, 1, 0, {})
    PROVE  /\ Len(q) \in Nat /\ Len(q) >= 1 /\ DOMAIN q = 1..Len(q)
           /\ Len(p) = Len(q) - 1 /\ DOMAIN p = 1..(Len(q) - 1)
           /\ \A n \in 1..(Len(q) - 1) : p[n] = q[n + 1]
<1>. PICK N : N = Len(q)
  OBVIOUS
<1>. PICK K : K = Len(p)
  OBVIOUS
<1>1. N \in Nat /\ K \in Nat /\ N >= 1 /\ K = (N - 1) + 0 /\ DOMAIN q = 1..N /\ DOMAIN p = 1..K
  BY DEF Shifted
<1>2. K = N - 1
  BY <1>1
<1>3. ASSUME NEW n \in 1..(N - 1) PROVE p[n] = q[n + 1]
  <2>1. n \in DOMAIN p
    BY <1>1, <1>2
  <2>2. (n + 1 \in DOMAIN q /\ p[n] = q[n + 1]) \/ p[n] \in {}
    BY <2>1 DEF Shifted
  <2>. QED  BY <2>2
<1>. QED  BY <1>1, <1>2, <1>3

LEMMA Longer ==
    ASSUME NEW q, NEW p, NEW x, Shifted(q, p, 0, 1, {x})
    PROVE  /\ Len(q) \in Nat /\ DOMAIN q = 1..Len(q)
           /\ Len(p) = Len(q) + 1 /\ DOMAIN p = 1..(Len(q) + 1)
           /\ \A n \in 1..Len(q) : p[n] = q[n]
           /\ p[Len(q) + 1] = x
<1>. PICK N : N = Len(q)
  OBVIOUS
<1>. PICK K : K = Len(p)
  OBVIOUS
<1>1. N \in Nat /\ K \in Nat /\ K = (N - 0) + 1 /\ DOMAIN q = 1..N /\ DOMAIN p = 1..K
  BY DEF Shifted
<1>2. K = N + 1
  BY <1>1
<1>3. ASSUME NEW n \in 1..N PROVE p[n] = q[n]
  <2>1. n \in DOMAIN q /\ n > 0 /\ n - 0 = n
    BY <1>1
  <2>2. p[n - 0] = q[n]
    BY <2>1 DEF Shifted
  <2>. QED  BY <2>1, <2>2
<1>4. p[N + 1] = x
  <2>. PICK n : n = N + 1
    OBVIOUS
  <2>1. n \in DOMAIN p /\ n + 0 = n /\ n \notin DOMAIN q
    BY <1>1, <1>2
  <2>2. n + 0 \in DOMAIN q \/ p[n] \in {x}
    BY <2>1 DEF Shifted
  <2>3. p[n] = x
    BY <2>1, <2>2
  <2>. QED  BY <2>3
<1>. QED  BY <1>1, <1>2, <1>3, <1>4

\* The oldest message is handled.
LEMMA MirrorDropped ==
    ASSUME Base, Base', Kept, NEW V, Mirror(V),
           NEW da, NEW ca, NEW A, Flow(1, 0, {}, da, ca, A),
           mGeofences' = V[1], NEW N, N = Len(msgQ), Obeyed(V[N])',
           \A n \in 1..N : Level(V[n])'
    PROVE  (\E W : Mirror(W))'
<1>1. /\ N \in Nat /\ N >= 1 /\ DOMAIN msgQ = 1..N
      /\ Len(msgQ') = N - 1 /\ DOMAIN msgQ' = 1..(N - 1)
      /\ \A n \in 1..(N - 1) : msgQ'[n] = msgQ[n + 1]
  BY Shorter DEF Flow
<1>. PICK W : W = [n \in Nat |-> V[n + 1]]
  OBVIOUS
<1>2. /\ \A n \in 0..(N - 1) : W[n] = V[n + 1] /\ n + 1 \in 0..N
      /\ \A n \in 1..(N - 1) : W[n - 1] = V[n] /\ n + 1 \in 1..N
  <2>1. ASSUME NEW n \in 0..(N - 1) PROVE W[n] = V[n + 1] /\ n + 1 \in 0..N
    <3>1. n \in Nat /\ n + 1 \in 0..N
      BY <1>1
    <3>. QED  BY <3>1
  <2>2. ASSUME NEW n \in 1..(N - 1) PROVE W[n - 1] = V[n] /\ n + 1 \in 1..N
    <3>1. n - 1 \in 0..(N - 1) /\ (n - 1) + 1 = n /\ n + 1 \in 1..N
      BY <1>1
    <3>. QED  BY <2>1, <3>1
  <2>. QED  BY <2>1, <2>2
<1>3. \A n \in 0..(N - 1) : Level(W[n])'
  <2>. TAKE n \in 0..(N - 1)
  <2>1. n + 1 \in 1..N /\ W[n] = V[n + 1]
    BY <1>1, <1>2
  <2>. QED  BY <2>1
<1>4. ASSUME NEW n \in 1..(N - 1)
      PROVE  \E x : x = msgQ'[n] /\ Link(x, W[n - 1], W[n])'
  <2>. PICK x : x = msgQ'[n]
    OBVIOUS
  <2>. PICK t : t = W[n - 1]
    OBVIOUS
  <2>. PICK u : u = W[n]
    OBVIOUS
  <2>1. n + 1 \in DOMAIN msgQ /\ x = msgQ[n + 1] /\ t = V[(n + 1) - 1] /\ u = V[n + 1]
    BY <1>1, <1>2
  <2>2. Link(x, t, u)
    BY <2>1, MirrorParts
  <2>3. Link(x, t, u)'
    BY <1>1, <2>1, <2>2, LinkKept
  <2>. QED  BY <2>3
<1>5. ASSUME NEW p \in 1..(N - 1), NEW n \in 0..(N - 1), NEW m \in 0..(N - 1),
             msgQ'[p].type = "engineUp", n < p, p <= m
      PROVE  Apart(W[n], W[m])
  <2>1. /\ p + 1 \in DOMAIN msgQ /\ msgQ[p + 1].type = "engineUp"
        /\ n + 1 < p + 1 /\ p + 1 <= m + 1
    <3>1. p + 1 \in 1..N /\ n + 1 < p + 1 /\ p + 1 <= m + 1
      BY <1>1, <1>5
    <3>2. msgQ'[p] = msgQ[p + 1]
      BY <1>1
    <3>. QED  BY <1>1, <1>5, <3>1, <3>2
  <2>2. Apart(V[n + 1], V[m + 1])
    BY <1>2, <2>1, MirrorParts
  <2>. QED  BY <1>2, <2>2
<1>6. W[0] = mGeofences' /\ W[N - 1] = V[N]
  BY <1>1, <1>2
<1>7. Mirror(W)'
  <2>. PICK K : K = N - 1
    OBVIOUS
  <2>1. K = Len(msgQ') /\ DOMAIN msgQ' = 1..K /\ W[0] = mGeofences' /\ Obeyed(W[K])'
    <3>1. K = Len(msgQ') /\ DOMAIN msgQ' = 1..K
      BY <1>1
    <3>2. W[0] = mGeofences' /\ W[K] = V[N]
      BY <1>6
    <3>. QED  BY <3>1, <3>2
  <2>2. \A n \in 0..K : Level(W[n])'
    BY <1>3
  <2>3. \A n \in DOMAIN msgQ' : \E x : x = msgQ'[n] /\ Link(x, W[n - 1], W[n])'
    BY <1>4, <2>1
  <2>4. \A p \in DOMAIN msgQ', n, m \in 0..K :
           msgQ'[p].type = "engineUp" /\ n < p /\ p <= m => Apart(W[n], W[m])
    BY <1>5, <2>1
  <2>. QED  BY <2>1, <2>2, <2>3, <2>4, MirrorNext
<1>. QED  BY <1>7

\* A message is queued that makes u of what the others lead to.
LEMMA MirrorExtended ==
    ASSUME Base, Base', Kept, Calm, NEW V, Mirror(V),
           NEW x, NEW da, NEW ca, NEW A, Flow(0, 1, {x}, da, ca, A),
           UNCHANGED mGeofences, NEW N, N = Len(msgQ), NEW t, t = V[N],
           NEW u, Level(u)', Link(x, t, u)', Obeyed(u)',
           x.type = "engineUp" => Keys(u) = {},
           \A n \in 0..N : Keys(V[n]) \intersect Keys(u) \subseteq Keys(t)
    PROVE  (\E W : Mirror(W))'
<1>. PICK W : W = [n \in Nat |-> IF n = N + 1 THEN u ELSE V[n]]
  OBVIOUS
<1>1. /\ N \in Nat /\ DOMAIN msgQ = 1..N /\ Len(msgQ') = N + 1 /\ DOMAIN msgQ' = 1..(N + 1)
      /\ (\A n \in 1..N : msgQ'[n] = msgQ[n]) /\ msgQ'[N + 1] = x
  BY Longer DEF Flow
<1>2. /\ \A n \in 0..N : W[n] = V[n]
      /\ \A n \in 1..N : W[n - 1] = V[n - 1]
      /\ W[N + 1] = u /\ W[(N + 1) - 1] = t
  BY <1>1
<1>3. ASSUME NEW n \in 0..(N + 1) PROVE Level(W[n])'
  <2>1. CASE n = N + 1
    BY <1>2, <2>1
  <2>2. CASE n \in 0..N
    BY <1>2, <2>2, MirrorParts, LevelKept
  <2>. QED  BY <1>1, <2>1, <2>2
<1>4. ASSUME NEW n \in 1..(N + 1)
      PROVE  \E y : y = msgQ'[n] /\ Link(y, W[n - 1], W[n])'
  <2>1. CASE n = N + 1
    <3>1. msgQ'[n] = x /\ W[n] = u /\ W[n - 1] = t
      BY <1>1, <1>2, <2>1
    <3>2. Link(x, t, u)'
      OBVIOUS
    <3>3. Link(x, W[n - 1], W[n])'
      BY <3>1, <3>2
    <3>. QED  BY <3>1, <3>3
  <2>2. CASE n \in 1..N
    <3>. PICK y : y = msgQ'[n]
      OBVIOUS
    <3>1. y = msgQ[n] /\ n \in DOMAIN msgQ /\ n \in DOMAIN msgQ' /\ n \in 0..N
      BY <1>1, <2>2
    <3>2. Link(y, V[n - 1], V[n])
      BY <3>1, MirrorParts
    <3>3. Link(y, V[n - 1], V[n])'
      BY <3>1, <3>2, LinkKept
    <3>4. W[n - 1] = V[n - 1] /\ W[n] = V[n]
      BY <1>2, <2>2, <3>1
    <3>. QED  BY <3>3, <3>4
  <2>3. n = N + 1 \/ n \in 1..N
    BY <1>1
  <2>. QED  BY <2>1, <2>2, <2>3
<1>5. ASSUME NEW p \in 1..(N + 1), NEW n \in 0..(N + 1), NEW m \in 0..(N + 1),
             msgQ'[p].type = "engineUp", n < p, p <= m
      PROVE  Apart(W[n], W[m])
  <2>1. n \in 0..N /\ W[n] = V[n]
    BY <1>1, <1>2, <1>5
  <2>2. CASE m \in 0..N
    <3>1. p \in DOMAIN msgQ /\ msgQ[p].type = "engineUp"
      BY <1>1, <1>5, <2>2
    <3>. QED  BY <1>2, <1>5, <2>1, <2>2, <3>1, MirrorParts
  <2>3. CASE m = N + 1 /\ p = N + 1
    <3>1. Keys(u) = {}
      BY <1>1, <1>5, <2>3
    <3>. QED  BY <1>2, <2>3, <3>1 DEF Apart
  <2>4. CASE m = N + 1 /\ p \in 1..N
    <3>1. p \in DOMAIN msgQ /\ msgQ[p].type = "engineUp" /\ N \in 0..N /\ p <= N
      BY <1>1, <1>5, <2>4
    <3>2. Apart(V[n], V[N])
      BY <1>5, <2>1, <3>1, MirrorParts
    <3>3. Keys(V[n]) \intersect Keys(u) \subseteq Keys(V[N])
      BY <2>1
    <3>. QED  BY <1>2, <2>1, <2>4, <3>2, <3>3 DEF Apart
  <2>. QED  BY <1>1, <2>2, <2>3, <2>4
<1>6. Mirror(W)'
  <2>. PICK K : K = N + 1
    OBVIOUS
  <2>1. K = Len(msgQ') /\ DOMAIN msgQ' = 1..K /\ Obeyed(W[K])' /\ W[0] = mGeofences'
    BY <1>1, <1>2, MirrorParts
  <2>2. \A n \in 0..K : Level(W[n])'
    BY <1>3
  <2>3. \A n \in DOMAIN msgQ' : \E y : y = msgQ'[n] /\ Link(y, W[n - 1], W[n])'
    BY <1>4, <2>1
  <2>4. \A p \in DOMAIN msgQ', n, m \in 0..K :
           msgQ'[p].type = "engineUp" /\ n < p /\ p <= m => Apart(W[n], W[m])
    BY <1>5, <2>1
  <2>. QED  BY <2>1, <2>2, <2>3, <2>4, MirrorNext
<1>. QED  BY <1>6

\* Nothing is queued or handled.
LEMMA MirrorStood ==
    ASSUME Base, Base', Kept, Calm, NEW V, Mirror(V), UNCHANGED <<msgQ, mGeofences>>,
           NEW K, K = Len(msgQ), Obeyed(V[K])'
    PROVE  (\E W : Mirror(W))'
<1>1. \A n \in 0..Len(msgQ) : Level(V[n])'
  BY MirrorParts, LevelKept
<1>2. \A n \in DOMAIN msgQ' : \E x : x = msgQ'[n] /\ Link(x, V[n - 1], V[n])'
  <2>. TAKE n \in DOMAIN msgQ'
  <2>. PICK x : x = msgQ'[n]
    OBVIOUS
  <2>1. n \in DOMAIN msgQ /\ x = msgQ[n]
    OBVIOUS
  <2>2. Link(x, V[n - 1], V[n])
    BY <2>1, MirrorParts
  <2>3. Link(x, V[n - 1], V[n])'
    BY <2>1, <2>2, LinkKept
  <2>. QED  BY <2>3
<1>3. Mirror(V)'
  <2>1. K = Len(msgQ') /\ V[0] = mGeofences' /\ Obeyed(V[K])'
    BY MirrorParts
  <2>2. \A p \in DOMAIN msgQ', n, m \in 0..K :
           msgQ'[p].type = "engineUp" /\ n < p /\ p <= m => Apart(V[n], V[m])
    BY MirrorParts
  <2>. QED  BY <1>1, <1>2, <2>1, <2>2, MirrorNext
<1>. QED  BY <1>3

-----------------------------------------------------------------------------
(* The adapter's tables *)

LEMMA TablesTyped ==
    ASSUME Typed
    PROVE  /\ mGeofenceIds \in [Session -> {0} \union HwId] /\ mGeofences \in Table
           /\ \A hw \in HwId : mGeofences[hw] # None =>
                 mGeofences[hw] \in Geofence /\ mGeofences[hw].key \in Session
           /\ \A hw \in HwId : hw \in Nat /\ hw > 0
<1>1. mGeofenceIds \in [Session -> {0} \union HwId] /\ mGeofences \in Table
  BY DEF Typed, TypeOK, Table
<1>. QED  BY <1>1, TableFields, GeofenceFields, Constants

LEMMA SavedResolves ==
    ASSUME Typed, Resolves, NEW hw \in HwId, NEW g \in Geofence, SaveGeofenceItem(hw, g),
           mGeofences[hw] = None, g.key \notin Keys(mGeofences)
    PROVE  Resolves'
<1>. PICK k : k = g.key
  OBVIOUS
<1>1. k \in Session /\ g # None
  BY GeofenceFields
<1>2. /\ mGeofenceIds'[k] = hw /\ \A s \in Session : s # k => mGeofenceIds'[s] = mGeofenceIds[s]
      /\ mGeofences'[hw] = g /\ \A h \in HwId : h # hw => mGeofences'[h] = mGeofences[h]
  BY <1>1, TablesTyped DEF SaveGeofenceItem, Table
<1>3. ASSUME NEW s \in Session, mGeofenceIds'[s] > 0
      PROVE  mGeofences'[mGeofenceIds'[s]] # None /\ mGeofences'[mGeofenceIds'[s]].key = s
  <2>1. CASE s = k
    BY <1>1, <1>2, <2>1
  <2>2. CASE s # k
    <3>. PICK h : h = mGeofenceIds[s]
      OBVIOUS
    <3>1. h > 0 /\ mGeofenceIds'[s] = h
      BY <1>2, <1>3, <2>2
    <3>2. h \in HwId
      BY <3>1, TablesTyped
    <3>3. mGeofences[h] # None /\ mGeofences[h].key = s
      BY <3>1 DEF Resolves
    <3>. QED  BY <1>2, <3>1, <3>2, <3>3
  <2>. QED  BY <2>1, <2>2
<1>4. ASSUME NEW h \in HwId, mGeofences'[h] # None
      PROVE  mGeofenceIds'[mGeofences'[h].key] = h
  <2>1. CASE h = hw
    BY <1>2, <2>1
  <2>2. CASE h # hw
    <3>1. mGeofences[h] # None /\ mGeofences'[h] = mGeofences[h]
      BY <1>2, <1>4, <2>2
    <3>2. mGeofences[h].key \in Session /\ mGeofences[h].key # k
      BY <3>1, TablesTyped, TableFields
    <3>. QED  BY <1>2, <3>1, <3>2 DEF Resolves
  <2>. QED  BY <2>1, <2>2
<1>. QED  BY <1>3, <1>4 DEF Resolves

LEMMA RemovedResolves ==
    ASSUME Typed, Resolves, NEW hw \in HwId, RemoveGeofenceItem(hw)
    PROVE  Resolves' /\ mGeofences' = [mGeofences EXCEPT ![hw] = None]
<1>1. CASE mGeofences[hw] = None
  <2>1. UNCHANGED tableVars
    BY <1>1 DEF RemoveGeofenceItem
  <2>2. mGeofences = [mGeofences EXCEPT ![hw] = None]
    BY <1>1, TablesTyped DEF Table
  <2>. QED  BY <2>1, <2>2 DEF tableVars, Resolves
<1>2. CASE mGeofences[hw] # None
  <2>. PICK k : k = mGeofences[hw].key
    OBVIOUS
  <2>1. k \in Session /\ mGeofenceIds[k] = hw /\ hw # 0
    BY <1>2, TablesTyped DEF Resolves
  <2>2. /\ mGeofenceIds' = [mGeofenceIds EXCEPT ![k] = 0]
        /\ mGeofences' = [mGeofences EXCEPT ![hw] = None]
    BY <1>2, <2>1 DEF RemoveGeofenceItem
  <2>3. /\ mGeofenceIds'[k] = 0 /\ \A s \in Session : s # k => mGeofenceIds'[s] = mGeofenceIds[s]
        /\ mGeofences'[hw] = None /\ \A h \in HwId : h # hw => mGeofences'[h] = mGeofences[h]
    BY <2>1, <2>2, TablesTyped DEF Table
  <2>4. ASSUME NEW s \in Session, mGeofenceIds'[s] > 0
        PROVE  mGeofences'[mGeofenceIds'[s]] # None /\ mGeofences'[mGeofenceIds'[s]].key = s
    <3>1. s # k
      BY <2>3, <2>4
    <3>. PICK h : h = mGeofenceIds[s]
      OBVIOUS
    <3>2. h > 0 /\ mGeofenceIds'[s] = h
      BY <2>3, <2>4, <3>1
    <3>3. mGeofences[h] # None /\ mGeofences[h].key = s /\ h \in HwId
      BY <3>2, TablesTyped DEF Resolves
    <3>4. h # hw
      BY <3>1, <3>3
    <3>. QED  BY <2>3, <3>2, <3>3, <3>4
  <2>5. ASSUME NEW h \in HwId, mGeofences'[h] # None
        PROVE  mGeofenceIds'[mGeofences'[h].key] = h
    <3>1. h # hw
      BY <2>3, <2>5
    <3>2. mGeofences[h] # None /\ mGeofences'[h] = mGeofences[h]
      BY <2>3, <2>5, <3>1
    <3>3. mGeofences[h].key \in Session /\ mGeofenceIds[mGeofences[h].key] = h
      BY <3>2, TablesTyped DEF Resolves
    <3>4. mGeofences[h].key # k
      BY <2>1, <3>1, <3>3
    <3>. QED  BY <2>3, <3>2, <3>3, <3>4
  <2>. QED  BY <2>2, <2>4, <2>5 DEF Resolves
<1>. QED  BY <1>1, <1>2

LEMMA ChangedResolves ==
    ASSUME Typed, Resolves, NEW hw \in HwId, mGeofences[hw] # None,
           NEW g \in Geofence, g.key = mGeofences[hw].key, ChangeGeofenceItem(hw, g)
    PROVE  Resolves' /\ mGeofences' = [mGeofences EXCEPT ![hw] = g]
<1>1. mGeofences' = [mGeofences EXCEPT ![hw] = g] /\ mGeofenceIds' = mGeofenceIds /\ g # None
  BY GeofenceFields DEF ChangeGeofenceItem
<1>2. mGeofences'[hw] = g /\ \A h \in HwId : h # hw => mGeofences'[h] = mGeofences[h]
  BY <1>1, TablesTyped DEF Table
<1>3. \A h \in HwId : (mGeofences'[h] # None <=> mGeofences[h] # None)
                        /\ (mGeofences[h] # None => mGeofences'[h].key = mGeofences[h].key)
  BY <1>1, <1>2
<1>4. \A s \in Session : mGeofenceIds[s] > 0 => mGeofenceIds[s] \in HwId
  BY TablesTyped
<1>. QED  BY <1>1, <1>3, <1>4 DEF Resolves

\* A call that succeeded makes of the table what its message was to make of it.
LEMMA OutcomeResolves ==
    ASSUME Typed, Resolves, NEW r, NEW b, BatchItem(r, b), NEW i \in DOMAIN b.keys,
           NEW hw \in HwId, SaveOutcome(b.kind, hw, b, i),
           NEW g, g = [key |-> b.keys[i], mask |-> b.mask, paused |-> FALSE],
           NEW u, Change(b.kind, g, hw, mGeofences, u)
    PROVE  mGeofences' = u /\ Resolves'
<1>1. /\ b.kind \in {"add", "remove", "modify", "pause", "resume"} /\ b.keys[i] \in Session
      /\ b.kind \in {"add", "modify"} => b.mask \in Mask
  BY BatchFields DEF BatchItem
<1>2. CASE b.kind = "add"
  <2>1. g \in Geofence
    BY <1>1, <1>2 DEF Geofence
  <2>2. SaveGeofenceItem(hw, g)
    BY <1>2 DEF SaveOutcome
  <2>3. mGeofences[hw] = None /\ g.key \notin Keys(mGeofences) /\ u = [mGeofences EXCEPT ![hw] = g]
    BY <1>2 DEF Change
  <2>. QED  BY <2>1, <2>2, <2>3, SavedResolves DEF SaveGeofenceItem
<1>3. CASE b.kind = "remove"
  <2>1. RemoveGeofenceItem(hw) /\ u = [mGeofences EXCEPT ![hw] = None]
    BY <1>3 DEF SaveOutcome, Change
  <2>. QED  BY <2>1, RemovedResolves
<1>4. CASE b.kind \in {"modify", "pause", "resume"}
  <2>. PICK h : h = mGeofences[hw]
    OBVIOUS
  <2>. PICK c : c = Altered(b.kind, g, h)
    OBVIOUS
  <2>1. h # None /\ u = [mGeofences EXCEPT ![hw] = c]
    BY <1>4 DEF Change
  <2>2. h \in Geofence /\ (b.kind = "modify" => g.mask \in Mask)
    BY <1>1, <2>1, TablesTyped
  <2>3. c \in Geofence /\ c.key = h.key
    BY <1>4, <2>2, AlteredTypes
  <2>4. ChangeGeofenceItem(hw, c)
    <3>1. CASE b.kind = "modify"
      <4>1. SaveOutcome("modify", hw, b, i) /\ c = Altered("modify", g, h) /\ g.mask = b.mask
        BY <3>1
      <4>2. c = [mGeofences[hw] EXCEPT !.mask = b.mask]
        BY <4>1 DEF Altered
      <4>. QED  BY <4>1, <4>2 DEF SaveOutcome
    <3>2. CASE b.kind = "pause"
      <4>1. SaveOutcome("pause", hw, b, i) /\ c = Altered("pause", g, h)
        BY <3>2
      <4>2. c = [mGeofences[hw] EXCEPT !.paused = TRUE]
        BY <4>1 DEF Altered
      <4>. QED  BY <4>1, <4>2 DEF SaveOutcome
    <3>3. CASE b.kind = "resume"
      <4>1. SaveOutcome("resume", hw, b, i) /\ c = Altered("resume", g, h)
        BY <3>3
      <4>2. c = [mGeofences[hw] EXCEPT !.paused = FALSE]
        BY <4>1 DEF Altered
      <4>. QED  BY <4>1, <4>2 DEF SaveOutcome
    <3>. QED  BY <1>4, <3>1, <3>2, <3>3
  <2>. QED  BY <2>1, <2>3, <2>4, ChangedResolves
<1>. QED  BY <1>1, <1>2, <1>3, <1>4

-----------------------------------------------------------------------------
(* The adapter handles a message *)

LEMMA ClientNext ==
    ASSUME client' => Staying' /\ Resolves' /\ AgainInv' /\ (\E W : Mirror(W))'
    PROVE  ClientInv'
  BY DEF ClientInv

LEMMA ObeyedKept ==
    ASSUME UNCHANGED modemVars, used \subseteq used', NEW t, Obeyed(t) PROVE Obeyed(t)'
  BY DEF Obeyed, Same, modemVars

LEMMA MirrorHead ==
    ASSUME NEW V, Mirror(V), NEW dm, NEW cm, NEW M, Shifted(msgQ, msgQ', 1, cm, M)
    PROVE  Link(msgQ[1], mGeofences, V[1]) /\ Level(V[1])
<1>1. 1 \in DOMAIN msgQ /\ 1 \in 0..Len(msgQ) /\ 1 - 1 = 0
  BY DEF Shifted
<1>. QED  BY <1>1, MirrorParts

LEMMA MirrorHandled ==
    ASSUME Base, Base', ClientInv, client, Kept, UNCHANGED modemVars, used \subseteq used',
           NEW c, NEW A, Flow(1, 0, {}, 0, c, A), \A x \in A : NoLeaving(x),
           NEW V, Mirror(V), mGeofences' = V[1], Resolves', AgainInv',
           \A n \in 1..Len(msgQ) : Level(V[n])'
    PROVE  ClientInv'
<1>1. Staying'
  <2>1. Staying
    BY DEF ClientInv
  <2>2. \A x \in {} \union A : NoLeaving(x)
    OBVIOUS
  <2>. QED  BY <2>1, <2>2, StayingStep
<1>. PICK N : N = Len(msgQ)
  OBVIOUS
<1>. PICK t : t = V[N]
  OBVIOUS
<1>2. Obeyed(t)
  BY MirrorParts
<1>3. Obeyed(V[N])'
  <2>1. Obeyed(t)'
    BY <1>2, ObeyedKept
  <2>. QED  BY <2>1
<1>4. (\E W : Mirror(W))'
  BY <1>3, MirrorDropped
<1>. QED  BY <1>1, <1>4, ClientNext

LEMMA CalmLevels ==
    ASSUME Calm, NEW V, Mirror(V) PROVE AgainInv' /\ \A n \in 1..Len(msgQ) : Level(V[n])'
<1>1. \A n \in 1..Len(msgQ) : Level(V[n])
  <2>1. \A n \in 0..Len(msgQ) : Level(V[n])
    BY MirrorParts
  <2>. QED  BY <2>1
<1>. QED  BY <1>1, LevelKept DEF Calm

\* The table stays as it is.
LEMMA MirrorUnmoved ==
    ASSUME Base, Base', ClientInv, client, Kept, Calm,
           UNCHANGED <<tableVars, modemVars>>, used \subseteq used',
           NEW c, NEW A, Flow(1, 0, {}, 0, c, A), \A x \in A : NoLeaving(x),
           msgQ[1].type # "engineUp", ~Succeeds(msgQ[1])
    PROVE  ClientInv'
<1>1. PICK V : Mirror(V)
  BY DEF ClientInv
<1>2. Link(msgQ[1], mGeofences, V[1])
  BY <1>1, MirrorHead DEF Flow
<1>3. mGeofences' = V[1]
  BY <1>2 DEF Link, Step, tableVars
<1>4. Resolves'
  BY DEF ClientInv, Resolves, tableVars
<1>5. UNCHANGED modemVars
  OBVIOUS
<1>6. AgainInv' /\ \A n \in 1..Len(msgQ) : Level(V[n])'
  BY <1>1, CalmLevels
<1>. QED  BY <1>1, <1>3, <1>4, <1>5, <1>6, MirrorHandled

LEMMA CalmAfter ==
    ASSUME Base, ClientInv, client, Kept,
           NEW dm, NEW cm, NEW M, NEW da, NEW ca, NEW A, Flow(dm, cm, M, da, ca, A),
           \A x \in M \union A : Foreseen(x),
           \A x \in A : x.type = "call" => x.back.type # "restarted"
    PROVE  Calm
<1>1. Typed /\ AgainInv
  BY DEF Base, ClientInv
<1>2. DueKept
  BY <1>1, DueStep
<1>3. \A x \in A : \A s : ~Readds(x, s)
  BY DEF Readds
<1>. QED  BY <1>1, <1>2, <1>3, AgainStep

\* Command r names this geofence, which so is on its way.
LEMMA OnHand ==
    ASSUME NEW k \in 0..3, NEW r, NEW i, At(k, 1, r, i), NEW x,
           \A l, q, j : Holds(x, q, j) /\ (InMsg(x, l) \/ InApi(x, l)) => l = 4 \/ (q = r /\ j = i)
    PROVE  Foreseen(x)
<1>1. \E l \in 0..3, n \in Nat : At(l, n, r, i)
  OBVIOUS
<1>. QED  BY <1>1 DEF Foreseen

LEMMA CommandMirrors ==
    ASSUME Base, Base', ClientInv, client, HandleCommand PROVE ClientInv'
<1>. PICK r : r = Head(msgQ).r
  OBVIOUS
<1>. PICK c : c = Len(batch[r].keys)
  OBVIOUS
<1>. PICK A : A = {Turn(r, i) : i \in DOMAIN batch[r].keys}
  OBVIOUS
<1>1. Flow(1, 0, {}, 0, c, A)
  BY CommandFlows DEF Base
<1>2. msgQ[1].type = "command" /\ msgQ[1].r = r /\ 1 \in DOMAIN msgQ
  BY CommandHead, HeadMessage DEF HandleCommand, Base
<1>3. UNCHANGED <<batch, tableVars, modemVars, used>>
  BY DEF HandleCommand
<1>4. ASSUME NEW x \in A PROVE Foreseen(x) /\ NoLeaving(x) /\ x.type # "call"
  <2>1. PICK i : x = Turn(r, i)
    OBVIOUS
  <2>2. x.type = "turn" /\ x.r = r /\ x.i = i
    BY <2>1 DEF Turn
  <2>3. At(0, 1, r, i)
    BY <1>2 DEF At, InMsg, Holds
  <2>4. \A l, q, j : Holds(x, q, j) => q = r /\ j = i
    BY <2>2 DEF Holds
  <2>5. Foreseen(x)
    BY <2>3, <2>4, OnHand
  <2>. QED  BY <2>2, <2>5 DEF NoLeaving
<1>5. Kept
  BY <1>3, KeptBySame DEF Base
<1>6. Calm
  BY <1>1, <1>4, <1>5, CalmAfter
<1>. QED  BY <1>1, <1>2, <1>3, <1>4, <1>5, <1>6, MirrorUnmoved DEF Succeeds

LEMMA TurnMirrors ==
    ASSUME Base, Base', ClientInv, client, HandleTurn PROVE ClientInv'
<1>. PICK r : r = Head(msgQ).r
  OBVIOUS
<1>. PICK i : i = Head(msgQ).i
  OBVIOUS
<1>1. /\ msgQ[1].type = "turn" /\ msgQ[1].r = r /\ msgQ[1].i = i /\ 1 \in DOMAIN msgQ
      /\ r \in Nat /\ r \in DOMAIN batch /\ batch[r] # None /\ BatchItem(r, batch[r])
      /\ i \in DOMAIN batch[r].keys
  BY TurnHead, HeadMessage DEF HandleTurn, Base
<1>2. UNCHANGED <<tableVars, modemVars>> /\ used' = used
  BY DEF HandleTurn
<1>3. At(2, 1, r, i)
  BY <1>1 DEF At, InMsg, Holds
<1>4. CASE TurnCalls(r, i)
  <2>. PICK x : x = CallFor(r, i)
    OBVIOUS
  <2>1. Flow(1, 0, {}, 0, 1, {x}) /\ Marked(r, i, AtOnce(batch[r], i))
    BY <1>4 DEF TurnCalls
  <2>2. x.type = "call" /\ x.back.type = "answer" /\ x.back.r = r /\ x.back.i = i
    <3>1. batch[r].kind = "add" \/ mGeofenceIds[batch[r].keys[i]] > 0
      BY <1>4 DEF TurnCalls
    <3>. QED  BY <1>1, <3>1, CallForTypes DEF Base
  <2>3. \A l, q, j : Holds(x, q, j) => q = r /\ j = i
    BY <2>2 DEF Holds
  <2>4. Foreseen(x)
    BY <1>3, <2>3, OnHand
  <2>5. Kept
    <3>. PICK b : b = batch[r]
      OBVIOUS
    <3>. PICK e : e = AtOnce(b, i)
      OBVIOUS
    <3>. PICK c : c = Reporting(b, i, e)
      OBVIOUS
    <3>0. b.errs[i] \in Outcome /\ "ok" \in Outcome
      <4>1. BatchItem(r, b) /\ i \in DOMAIN b.keys
        BY <1>1
      <4>2. b.errs \in Seq(Outcome)
        BY <4>1, BatchFields
      <4>3. i \in DOMAIN b.errs
        BY <4>1 DEF BatchItem
      <4>. QED  BY <4>2, <4>3 DEF Outcome
    <3>1. e \in Outcome
      BY <3>0 DEF AtOnce
    <3>2. BatchItem(r, c) /\ c.kind = b.kind /\ c.keys = b.keys /\ c.mask = b.mask
      BY <1>1, <3>1, BatchErr
    <3>3. batch' = [batch EXCEPT ![r] = c]
      BY <2>1 DEF Marked
    <3>. QED  BY <1>1, <3>2, <3>3, KeptBySet DEF Base
  <2>6. Calm
    BY <2>1, <2>2, <2>4, <2>5, CalmAfter
  <2>7. NoLeaving(x)
    BY <2>2 DEF NoLeaving
  <2>. QED  BY <1>1, <1>2, <2>1, <2>5, <2>6, <2>7, MirrorUnmoved DEF Succeeds
<1>5. CASE TurnFails(r, i)
  <2>1. Flow(1, 0, {}, 0, 0, {}) /\ Concludes(r, i)
    BY <1>5 DEF TurnFails
  <2>2. Kept
    BY <1>1, <2>1, KeptByEnd DEF Base
  <2>3. Calm
    BY <2>1, <2>2, CalmAfter
  <2>. QED  BY <1>1, <1>2, <2>1, <2>2, <2>3, MirrorUnmoved DEF Succeeds
<1>. QED  BY <1>4, <1>5, TurnFlows DEF Base

LEMMA BreachMirrors ==
    ASSUME Base, Base', ClientInv, client, HandleBreach PROVE ClientInv'
<1>1. msgQ[1].type = "breach" /\ UNCHANGED <<batch, tableVars, modemVars, used>>
  BY HeadMessage DEF HandleBreach, Base
<1>2. Flow(1, 0, {}, 0, 0, {})
  BY BreachFlows DEF Base
<1>3. Kept
  BY <1>1, KeptBySame DEF Base
<1>4. Calm
  BY <1>2, <1>3, CalmAfter
<1>. QED  BY <1>1, <1>2, <1>3, <1>4, MirrorUnmoved DEF Succeeds

LEMMA AnswerMirrors ==
    ASSUME Base, Base', ClientInv, client, HandleAnswer PROVE ClientInv'
<1>. PICK m : m = Head(msgQ)
  OBVIOUS
<1>. PICK r : r = m.back.r
  OBVIOUS
<1>. PICK i : i = m.back.i
  OBVIOUS
<1>. PICK b : b = batch[r]
  OBVIOUS
<1>1. /\ m = msgQ[1] /\ m.type = "answer" /\ m.ok \in BOOLEAN /\ (m.ok => m.hw \in HwId)
      /\ r \in DOMAIN batch /\ b # None /\ BatchItem(r, b) /\ i \in DOMAIN b.keys
  BY AnswerHead DEF HandleAnswer, Base
<1>2. Answers(r, i) /\ UNCHANGED modemVars /\ used' = used
  BY AnswerFlows DEF HandleAnswer, Base
<1>3. /\ Flow(1, 0, {}, 0, 0, {}) /\ Concludes(r, i)
      /\ m.ok => SaveOutcome(b.kind, m.hw, b, i)
      /\ ~m.ok => UNCHANGED tableVars
  BY <1>2 DEF Answers
<1>4. Kept
  BY <1>1, <1>3, KeptByEnd DEF Base
<1>5. Calm
  BY <1>3, <1>4, CalmAfter
<1>6. CASE ~m.ok
  <2>1. msgQ[1].type # "engineUp" /\ ~Succeeds(msgQ[1]) /\ UNCHANGED <<tableVars, modemVars>>
    BY <1>1, <1>2, <1>3, <1>6 DEF Succeeds
  <2>. QED  BY <1>2, <1>3, <1>4, <1>5, <2>1, MirrorUnmoved
<1>7. CASE m.ok
  <2>1. PICK V : Mirror(V)
    BY DEF ClientInv
  <2>. PICK u : u = V[1]
    OBVIOUS
  <2>. PICK g : g = [key |-> b.keys[i], mask |-> b.mask, paused |-> FALSE]
    OBVIOUS
  <2>2. Link(m, mGeofences, u)
    BY <1>1, <1>3, <2>1, MirrorHead DEF Flow
  <2>3. OpOf(m) = b.kind /\ GeofenceOf(m) = g /\ Succeeds(m)
    BY <1>1, <1>7 DEF OpOf, GeofenceOf, Succeeds
  <2>4. Change(b.kind, g, m.hw, mGeofences, u)
    BY <2>2, <2>3 DEF Link, Step
  <2>5. mGeofences' = u /\ Resolves'
    BY <1>1, <1>3, <1>7, <2>4, OutcomeResolves DEF Base, ClientInv
  <2>6. AgainInv' /\ \A n \in 1..Len(msgQ) : Level(V[n])'
    BY <1>5, <2>1, CalmLevels
  <2>. QED  BY <1>2, <1>3, <1>4, <2>1, <2>5, <2>6, MirrorHandled
<1>. QED  BY <1>6, <1>7

LEMMA RestartedMirrors ==
    ASSUME Base, Base', ClientInv, client, HandleRestarted PROVE ClientInv'
<1>. PICK m : m = Head(msgQ)
  OBVIOUS
<1>. PICK g : g = m.back.g
  OBVIOUS
<1>. PICK h : h = [g EXCEPT !.paused = FALSE]
  OBVIOUS
<1>1. /\ m = msgQ[1] /\ m.type = "restarted" /\ m.ok \in BOOLEAN /\ (m.ok => m.hw \in HwId)
      /\ g \in Geofence /\ h \in Geofence
  BY RestartedHead DEF HandleRestarted, Base
<1>2. UNCHANGED <<batch, modemVars, used>> /\ (m.ok => SaveGeofenceItem(m.hw, h))
      /\ (~m.ok => UNCHANGED tableVars)
  BY DEF HandleRestarted
<1>3. PICK c, A : /\ Flow(1, 0, {}, 0, c, A)
                  /\ A = {} \/ (m.ok /\ A = {PauseAgain(m.hw, g)})
  <2>1. Flow(1, 0, {}, 0, 0, {}) \/ (m.ok /\ Flow(1, 0, {}, 0, 1, {PauseAgain(m.hw, g)}))
    BY RestartedFlows DEF Base
  <2>. QED  BY <2>1
<1>4. ASSUME NEW x \in A
      PROVE  Foreseen(x) /\ NoLeaving(x) /\ (x.type = "call" => x.back.type # "restarted")
  <2>1. x.type = "call" /\ x.back.type = "ignored"
    BY <1>1, <1>3, <1>4, PauseTypes
  <2>2. Plain(x)
    BY <2>1 DEF Plain
  <2>. QED  BY <2>1, <2>2, PlainForeseen DEF NoLeaving
<1>5. Kept
  BY <1>2, KeptBySame DEF Base
<1>6. Calm
  BY <1>3, <1>4, <1>5, CalmAfter
<1>7. CASE ~m.ok
  <2>1. msgQ[1].type # "engineUp" /\ ~Succeeds(msgQ[1]) /\ UNCHANGED <<tableVars, modemVars>>
        /\ used' = used
    BY <1>1, <1>2, <1>7 DEF Succeeds
  <2>. QED  BY <1>3, <1>4, <1>5, <1>6, <2>1, MirrorUnmoved
<1>8. CASE m.ok
  <2>1. PICK V : Mirror(V)
    BY DEF ClientInv
  <2>. PICK u : u = V[1]
    OBVIOUS
  <2>2. Link(m, mGeofences, u)
    BY <1>1, <1>3, <2>1, MirrorHead DEF Flow
  <2>3. OpOf(m) = "add" /\ GeofenceOf(m) = h /\ Succeeds(m)
    BY <1>1, <1>8 DEF OpOf, GeofenceOf, Succeeds
  <2>4. Change("add", h, m.hw, mGeofences, u)
    BY <2>2, <2>3 DEF Link, Step
  <2>5. mGeofences[m.hw] = None /\ h.key \notin Keys(mGeofences)
        /\ u = [mGeofences EXCEPT ![m.hw] = h]
    BY <2>4 DEF Change
  <2>6. mGeofences' = u /\ Resolves'
    BY <1>1, <1>2, <1>8, <2>5, SavedResolves DEF Base, ClientInv, SaveGeofenceItem
  <2>7. AgainInv' /\ \A n \in 1..Len(msgQ) : Level(V[n])'
    BY <1>6, <2>1, CalmLevels
  <2>8. UNCHANGED modemVars /\ used' = used
    BY <1>2
  <2>. QED  BY <1>3, <1>4, <1>5, <2>1, <2>6, <2>7, <2>8, MirrorHandled
<1>. QED  BY <1>7, <1>8

\* The tables are emptied; each geofence is to be added again.
LEMMA EngineUpMirrors ==
    ASSUME Base, Base', ClientInv, client, HandleEngineUp PROVE ClientInv'
<1>. PICK old : old = mGeofences
  OBVIOUS
<1>. PICK L : L = Len(apiQ)
  OBVIOUS
<1>0. Typed /\ AgainInv
  BY DEF Base, ClientInv
<1>1. PICK c \in Nat : \E f \in [1..c -> Geofences(old)] :
                /\ Flow(1, 0, {}, 0, c, {Again(g) : g \in Watched}) /\ L \in Nat
                /\ \A n \in 1..c : apiQ'[L + n] = Again(old[f[n]])
                /\ \A m, n \in 1..c : f[m] = f[n] => m = n
  BY <1>0, EngineUpFlows
<1>2. PICK f \in [1..c -> Geofences(old)] :
                /\ Flow(1, 0, {}, 0, c, {Again(g) : g \in Watched}) /\ L \in Nat
                /\ \A n \in 1..c : apiQ'[L + n] = Again(old[f[n]])
                /\ \A m, n \in 1..c : f[m] = f[n] => m = n
  BY <1>1
<1>. PICK A : A = {Again(g) : g \in Watched}
  OBVIOUS
<1>3. Flow(1, 0, {}, 0, c, A)
  BY <1>2
<1>4. /\ msgQ[1].type = "engineUp" /\ UNCHANGED <<batch, modemVars, used>>
      /\ mGeofences' = [hw \in HwId |-> None] /\ mGeofenceIds' = [s \in Session |-> 0]
  BY HeadMessage DEF HandleEngineUp, Base
<1>5. ASSUME NEW g \in Watched
      PROVE  Plain(Again(g)) /\ NoLeaving(Again(g))
             /\ \A s : Readds(Again(g), s) => s = g.key
  <2>1. g \in Geofence
    BY TablesTyped DEF Watched, Geofences, Base
  <2>. QED  BY <2>1, AgainTypes DEF Plain, NoLeaving, Readds
<1>6. \A x \in A : Plain(x) /\ NoLeaving(x)
  BY <1>5
<1>7. Kept
  BY <1>4, KeptBySame DEF Base
<1>8. DueKept
  <2>1. \A x \in {} \union A : Foreseen(x)
    BY <1>6, PlainForeseen
  <2>. QED  BY <1>0, <1>3, <2>1, DueStep
<1>9. PICK V : Mirror(V)
  BY DEF ClientInv
<1>10. Link(msgQ[1], mGeofences, V[1]) /\ Unique(old) /\ Bounded(old) /\ V[0] = old
       /\ 1 \in DOMAIN msgQ
  <2>1. V[0] = old /\ Level(V[0])
    <3>1. 0 \in 0..Len(msgQ)
      BY <1>3 DEF Flow, Shifted
    <3>. QED  BY <1>9, <3>1, MirrorParts
  <2>2. Link(msgQ[1], mGeofences, V[1])
    BY <1>3, <1>9, MirrorHead DEF Flow
  <2>3. 1 \in DOMAIN msgQ
    BY <1>3 DEF Flow, Shifted
  <2>. QED  BY <2>1, <2>2, <2>3 DEF Level
<1>11. mGeofences' = V[1]
  BY <1>4, <1>10 DEF Link, Step
<1>12. Resolves'
  BY <1>4 DEF Resolves
\* A call to add s again is an old one, or one of these.
<1>13. ASSUME NEW s, NEW n \in DOMAIN apiQ', Readds(apiQ'[n], s)
       PROVE  \/ n \in DOMAIN apiQ /\ Readds(apiQ[n], s)
              \/ n - L \in 1..c /\ n > L /\ s = old[f[n - L]].key /\ s \in Keys(old)
  <2>1. /\ DOMAIN apiQ = 1..L /\ DOMAIN apiQ' = 1..((L - 0) + c)
        /\ \A k \in 1..L : k > 0 => apiQ'[k - 0] = apiQ[k]
    BY <1>3 DEF Flow, Shifted
  <2>2. L \in Nat /\ c \in Nat
    BY <1>2
  <2>3. CASE n \in 1..L
    <3>1. n > 0 /\ n - 0 = n
      BY <2>2, <2>3
    <3>. QED  BY <1>13, <2>1, <2>3, <3>1
  <2>4. CASE n > L
    <3>. PICK k : k = n - L
      OBVIOUS
    <3>1. k \in 1..c /\ L + k = n
      BY <2>1, <2>2, <2>4
    <3>. PICK g : g = old[f[k]]
      OBVIOUS
    <3>2. apiQ'[n] = Again(g)
      BY <1>2, <3>1
    <3>3. f[k] \in Geofences(old)
      BY <3>1
    <3>4. g \in Watched /\ g.key \in Keys(old)
      BY <3>3 DEF Watched, Keys
    <3>. QED  BY <1>5, <1>13, <2>4, <3>1, <3>2, <3>4
  <2>5. n \in 1..L \/ n > L
    BY <2>1, <2>2
  <2>. QED  BY <2>3, <2>4, <2>5
<1>14. \A s : DueAgain(s)' => DueAgain(s) \/ s \in Keys(old)
  <2>. SUFFICES ASSUME NEW s, DueAgain(s)' PROVE DueAgain(s) \/ s \in Keys(old)
    OBVIOUS
  <2>1. PICK n \in DOMAIN apiQ' : Readds(apiQ'[n], s)
    BY DEF DueAgain, Readds
  <2>. QED  BY <1>13, <2>1 DEF DueAgain
<1>15. AgainInv'
  <2>1. ASSUME NEW s, NEW n \in DOMAIN apiQ', Readds(apiQ'[n], s)
        PROVE  s \in 1..(2 * Len(batch')) /\ ~Due(s)'
    <3>1. DueAgain(s) => s \in 1..(2 * Len(batch)) /\ ~Due(s)
      BY <1>0 DEF AgainInv, DueAgain
    <3>2. s \in Keys(old) => s \in 1..(2 * Len(batch)) /\ ~Due(s)
      BY <1>10 DEF Bounded
    <3>3. DueAgain(s) \/ s \in Keys(old)
      BY <1>13, <2>1 DEF DueAgain
    <3>4. Len(batch') = Len(batch)
      BY <1>4
    <3>. QED  BY <1>8, <3>1, <3>2, <3>3, <3>4 DEF DueKept
  <2>2. ASSUME NEW s, NEW n \in DOMAIN apiQ', NEW m \in DOMAIN apiQ',
               Readds(apiQ'[n], s), Readds(apiQ'[m], s)
        PROVE  m = n
    <3>1. CASE s \in Keys(old)
      <4>1. ~DueAgain(s)
        BY <1>10, <3>1 DEF Bounded
      <4>. PICK k : k = n - L
        OBVIOUS
      <4>. PICK l : l = m - L
        OBVIOUS
      <4>2. /\ k \in 1..c /\ s = old[f[k]].key /\ k = n - L
            /\ l \in 1..c /\ s = old[f[l]].key /\ l = m - L
        BY <1>13, <2>2, <4>1 DEF DueAgain
      <4>3. f[k] \in Geofences(old) /\ f[l] \in Geofences(old)
        BY <4>2
      <4>4. f[k] = f[l]
        BY <1>10, <4>2, <4>3 DEF Unique
      <4>5. k = l
        BY <1>2, <4>2, <4>4
      <4>6. m \in Nat /\ n \in Nat /\ L \in Nat
        BY <1>2, <1>3 DEF Flow, Shifted
      <4>. QED  BY <4>2, <4>5, <4>6
    <3>2. CASE s \notin Keys(old)
      <4>1. /\ n \in DOMAIN apiQ /\ Readds(apiQ[n], s)
            /\ m \in DOMAIN apiQ /\ Readds(apiQ[m], s)
        BY <1>13, <2>2, <3>2
      <4>. QED  BY <1>0, <4>1 DEF AgainInv
    <3>. QED  BY <3>1, <3>2
  <2>. QED  BY <2>1, <2>2 DEF AgainInv, Readds
<1>16. ASSUME NEW n \in 1..Len(msgQ) PROVE Level(V[n])'
  <2>. PICK t : t = V[n]
    OBVIOUS
  <2>1. n \in 0..Len(msgQ) /\ 0 \in 0..Len(msgQ) /\ 0 < 1 /\ 1 <= n
    BY <1>3 DEF Flow, Shifted
  <2>2. Level(t)
    BY <1>9, <2>1, MirrorParts
  <2>3. Apart(V[0], V[n])
    BY <1>4, <1>9, <1>10, <2>1, MirrorParts
  <2>4. ASSUME NEW s \in Keys(t)
        PROVE  s \in 1..(2 * Len(batch')) /\ ~Due(s)' /\ ~DueAgain(s)'
    <3>1. s \in 1..(2 * Len(batch)) /\ ~Due(s) /\ ~DueAgain(s)
      BY <2>2 DEF Level, Bounded
    <3>2. s \notin Keys(old)
      BY <1>10, <2>3 DEF Apart
    <3>3. Len(batch') = Len(batch)
      BY <1>4
    <3>. QED  BY <1>8, <1>14, <3>1, <3>2, <3>3 DEF DueKept
  <2>5. Bounded(t)'
    BY <2>4 DEF Bounded, Keys, Geofences
  <2>6. Level(t)'
    BY <2>2, <2>5 DEF Level, Table, Unique, Geofences, Geofence, Session, HwId
  <2>. QED  BY <2>6
<1>17. UNCHANGED modemVars /\ used' = used
  BY <1>4
<1>. QED  BY <1>3, <1>6, <1>7, <1>9, <1>11, <1>12, <1>15, <1>16, <1>17, MirrorHandled

-----------------------------------------------------------------------------
(* A message is queued *)

\* The message alters no table.
LEMMA MirrorQueued ==
    ASSUME Base, Base', ClientInv, client, Kept, Calm,
           UNCHANGED <<tableVars, modemVars>>, used \subseteq used',
           NEW x, NEW da, NEW ca, NEW A, Flow(0, 1, {x}, da, ca, A),
           NoLeaving(x), \A y \in A : NoLeaving(y), x.type # "engineUp", ~Succeeds(x),
           \A t \in Table : Obeyed(t) /\ engine = "up" => RightOwner(x, t),
           x.type = "breach" => engine = "up"
    PROVE  ClientInv'
<1>1. PICK V : Mirror(V)
  BY DEF ClientInv
<1>. PICK N : N = Len(msgQ)
  OBVIOUS
<1>. PICK t : t = V[N]
  OBVIOUS
<1>2. Level(t) /\ Obeyed(t)
  <2>1. N \in 0..N
    BY DEF Flow, Shifted
  <2>. QED  BY <1>1, <2>1, MirrorParts
<1>3. Level(t)' /\ Obeyed(t)'
  BY <1>2, LevelKept, ObeyedKept
<1>4. Step(x, t, t)' /\ RightOwner(x, t)
  BY <1>2 DEF Step, Succeeds, Level, RightOwner
<1>5. Link(x, t, t)'
  BY <1>4 DEF Link, RightOwner
<1>6. (\E W : Mirror(W))'
  <2>1. \A n \in 0..N : Keys(V[n]) \intersect Keys(t) \subseteq Keys(t)
    OBVIOUS
  <2>2. UNCHANGED mGeofences
    BY DEF tableVars
  <2>. QED  BY <1>1, <1>3, <1>5, <2>1, <2>2, MirrorExtended
<1>7. Staying'
  <2>1. Staying /\ \A y \in {x} \union A : NoLeaving(y)
    BY DEF ClientInv
  <2>. QED  BY <2>1, StayingStep
<1>8. Resolves'
  BY DEF ClientInv, Resolves, tableVars
<1>. QED  BY <1>6, <1>7, <1>8, ClientNext DEF Calm

\* Nothing is queued.
LEMMA MirrorUnqueued ==
    ASSUME Base, Base', ClientInv, client, Kept, Calm, UNCHANGED <<tableVars, msgQ>>,
           NEW da, NEW ca, NEW A, Flow(0, 0, {}, da, ca, A), \A y \in A : NoLeaving(y),
           \A t \in Table : Obeyed(t) => Obeyed(t)'
    PROVE  ClientInv'
<1>1. PICK V : Mirror(V)
  BY DEF ClientInv
<1>. PICK N : N = Len(msgQ)
  OBVIOUS
<1>. PICK t : t = V[N]
  OBVIOUS
<1>2. t \in Table /\ Obeyed(t)
  <2>1. N \in 0..N
    BY DEF Flow, Shifted
  <2>. QED  BY <1>1, <2>1, MirrorParts DEF Level
<1>3. Obeyed(V[N])'
  <2>1. Obeyed(t)'
    BY <1>2
  <2>. QED  BY <2>1
<1>4. (\E W : Mirror(W))'
  <2>1. UNCHANGED <<msgQ, mGeofences>>
    BY DEF tableVars
  <2>. QED  BY <1>1, <1>3, <2>1, MirrorStood
<1>5. Staying'
  <2>1. Staying /\ \A y \in {} \union A : NoLeaving(y)
    BY DEF ClientInv
  <2>. QED  BY <2>1, StayingStep
<1>6. Resolves'
  BY DEF ClientInv, Resolves, tableVars
<1>. QED  BY <1>4, <1>5, <1>6, ClientNext DEF Calm

LEMMA PostedMirrors ==
    ASSUME Base, Base', ClientInv, client, Request PROVE ClientInv'
<1>. PICK x : x = Command(Len(batch) + 1)
  OBVIOUS
<1>1. Flow(0, 1, {x}, 0, 0, {}) /\ Posted
  BY PostedFlows DEF Base
<1>2. x.type = "command" /\ x.r = Len(batch) + 1
  BY DEF Command
<1>3. UNCHANGED <<tableVars, modemVars>> /\ used' = used
  BY <1>1 DEF Posted
<1>4. Kept
  BY <1>1, KeptByPost DEF Base
<1>5. Foreseen(x)
  <2>1. Len(batch) \in Nat
    BY DEF Base, Typed, BatchOK
  <2>2. \A r, i : Holds(x, r, i) => r > Len(batch)
    BY <1>2, <2>1 DEF Holds
  <2>. QED  BY <2>2 DEF Foreseen
<1>6. Calm
  BY <1>1, <1>4, <1>5, CalmAfter
<1>7. NoLeaving(x) /\ ~Succeeds(x) /\ \A t : RightOwner(x, t)
  BY <1>2 DEF NoLeaving, Succeeds, RightOwner
<1>. QED  BY <1>1, <1>2, <1>3, <1>4, <1>6, <1>7, MirrorQueued

LEMMA LocApiTurnMirrors ==
    ASSUME Base, Base', ClientInv, client, LocApiTurn PROVE ClientInv'
<1>. PICK x : x = Head(apiQ)
  OBVIOUS
<1>1. Flow(0, 1, {x}, 1, 0, {}) /\ x = apiQ[1] /\ 1 \in DOMAIN apiQ /\ x.type = "turn"
  BY LocApiTurnFlows DEF Base
<1>2. UNCHANGED <<batch, tableVars, modemVars>> /\ used' = used
  BY DEF LocApiTurn
<1>3. Kept
  BY <1>2, KeptBySame DEF Base
<1>4. Foreseen(x)
  <2>1. At(1, 1, x.r, x.i)
    BY <1>1 DEF At, InApi, Holds
  <2>2. \A l, q, j : Holds(x, q, j) => q = x.r /\ j = x.i
    BY <1>1 DEF Holds
  <2>. QED  BY <2>1, <2>2, OnHand
<1>5. Calm
  BY <1>1, <1>3, <1>4, CalmAfter
<1>6. NoLeaving(x) /\ ~Succeeds(x) /\ \A t : RightOwner(x, t)
  BY <1>1 DEF NoLeaving, Succeeds, RightOwner
<1>. QED  BY <1>1, <1>2, <1>3, <1>5, <1>6, MirrorQueued

LEMMA ModemBreachMirrors ==
    ASSUME Base, Base', ClientInv, client, ModemBreach PROVE ClientInv'
<1>1. PICK hw \in Geofences(modem) : Flow(0, 1, {BreachOf(hw)}, 0, 0, {})
  BY ModemBreachFlows DEF Base
<1>. PICK x : x = BreachOf(hw)
  OBVIOUS
<1>2. x.type = "breach" /\ x.hw = hw /\ x.key = modem[hw].key
  BY DEF BreachOf
<1>3. UNCHANGED <<batch, tableVars, modemVars>> /\ used \subseteq used' /\ engine = "up"
  BY DEF ModemBreach, Use
<1>4. Kept
  BY <1>3, KeptBySame DEF Base
<1>5. Plain(x) /\ NoLeaving(x) /\ ~Succeeds(x)
  BY <1>2 DEF Plain, NoLeaving, Succeeds
<1>6. Calm
  BY <1>1, <1>4, <1>5, PlainForeseen, CalmAfter
<1>7. hw \in HwId /\ modem[hw] \in Geofence
  BY DEF Geofences, Base, Typed, TypeOK
<1>8. ASSUME NEW t \in Table, Obeyed(t) PROVE RightOwner(x, t)
  <2>. SUFFICES ASSUME t[hw] # None PROVE t[hw].key = modem[hw].key
    BY <1>2 DEF RightOwner
  <2>1. Same(t[hw], modem[hw])
    BY <1>3, <1>7, <1>8 DEF Obeyed
  <2>2. [modem[hw] EXCEPT !.paused = FALSE].key = modem[hw].key
    BY <1>7 DEF Geofence
  <2>. QED  BY <2>1, <2>2 DEF Same
<1>. QED  BY <1>1, <1>2, <1>3, <1>4, <1>5, <1>6, <1>8, MirrorQueued

LEMMA ModemRestartMirrors ==
    ASSUME Base, Base', ClientInv, client, ModemRestart PROVE ClientInv'
<1>. PICK x : x = [type |-> "reopen"]
  OBVIOUS
<1>1. Flow(0, 0, {}, 0, 1, {x}) /\ x.type = "reopen"
  BY ModemRestartFlows DEF Base
<1>2. UNCHANGED <<batch, tableVars, msgQ>> /\ engine' = "down"
  BY DEF ModemRestart
<1>3. Kept
  BY <1>2, KeptBySame DEF Base
<1>4. Plain(x) /\ NoLeaving(x)
  BY <1>1 DEF Plain, NoLeaving
<1>5. Calm
  BY <1>1, <1>3, <1>4, PlainForeseen, CalmAfter
<1>6. \A t : Obeyed(t)'
  BY <1>2 DEF Obeyed
<1>. QED  BY <1>1, <1>2, <1>3, <1>4, <1>5, <1>6, MirrorUnqueued

LEMMA ReopenMirrors ==
    ASSUME Base, Base', EngineInv, ClientInv, client, LocApiReopens PROVE ClientInv'
<1>. PICK x : x = [type |-> "engineUp"]
  OBVIOUS
<1>. PICK u : u = [hw \in HwId |-> None]
  OBVIOUS
<1>1. Flow(0, 1, {x}, 1, 0, {}) /\ x.type = "engineUp" /\ 1 \in DOMAIN apiQ
      /\ apiQ[1].type = "reopen"
  BY ReopenFlows DEF Base
<1>2. UNCHANGED <<batch, tableVars, modem, used>>
  BY DEF LocApiReopens
<1>3. modem' = u
  BY <1>1, <1>2 DEF EngineInv
<1>4. Kept
  BY <1>2, KeptBySame DEF Base
<1>5. Plain(x) /\ NoLeaving(x)
  BY <1>1 DEF Plain, NoLeaving
<1>6. Calm
  BY <1>1, <1>4, <1>5, PlainForeseen, CalmAfter
<1>7. PICK V : Mirror(V)
  BY DEF ClientInv
<1>. PICK N : N = Len(msgQ)
  OBVIOUS
<1>. PICK t : t = V[N]
  OBVIOUS
<1>8. u \in Table /\ Unique(u) /\ Keys(u) = {} /\ \A hw \in HwId : u[hw] = None
  BY EmptyTable
<1>9. Level(u)' /\ Obeyed(u)' /\ Link(x, t, u)'
  <2>1. Bounded(u)
    BY <1>8 DEF Bounded
  <2>2. Level(u)'
    BY <1>6, <1>8, <2>1, LevelKept DEF Level
  <2>3. Obeyed(u)'
    BY <1>3 DEF Obeyed, Same
  <2>4. Link(x, t, u)'
    BY <1>1 DEF Link, Step, Succeeds, RightOwner
  <2>. QED  BY <2>2, <2>3, <2>4
<1>10. (\E W : Mirror(W))'
  <2>1. \A n \in 0..N : Keys(V[n]) \intersect Keys(u) \subseteq Keys(t)
    BY <1>8
  <2>2. UNCHANGED mGeofences
    BY <1>2 DEF tableVars
  <2>. QED  BY <1>1, <1>4, <1>6, <1>7, <1>8, <1>9, <2>1, <2>2, MirrorExtended
<1>11. Staying'
  <2>1. Staying /\ \A y \in {x} \union {} : NoLeaving(y)
    BY <1>5 DEF ClientInv
  <2>. QED  BY <1>1, <2>1, StayingStep
<1>12. Resolves'
  BY <1>2 DEF ClientInv, Resolves, tableVars
<1>. QED  BY <1>6, <1>10, <1>11, <1>12, ClientNext DEF Calm

-----------------------------------------------------------------------------
(* LocApi and the modem answer a call *)

LEMMA OnePlaceNext ==
    ASSUME Typed', OrderInv', NEW r \in Nat, NEW i \in Stage, NEW k \in 0..4, NEW n \in Nat,
           NEW l \in 0..4, NEW m \in Nat, At(k, n, r, i)', At(l, m, r, i)'
    PROVE  k = l /\ n = m
<1>1. Upto(r, i, r, i)
  BY DEF Upto, Stage
<1>2. k > l \/ (k = l /\ n <= m)
  BY <1>1, Zenon DEF OrderInv, Upto
<1>3. l > k \/ (l = k /\ m <= n)
  BY <1>1, Zenon DEF OrderInv, Upto
<1>. QED  BY <1>2, <1>3

LEMMA SessionsDiffer ==
    ASSUME NEW r \in Nat, NEW q \in Nat, NEW i \in Stage, NEW j \in Stage,
           SessionOf(r, i) = SessionOf(q, j)
    PROVE  r = q /\ i = j
  BY DEF SessionOf, Stage

\* The session that has just been added was to be added, and now no longer is.
LEMMA AddedOnce ==
    ASSUME Base, Base', AgainInv, DueKept, DueAgainKept, Kept, 1 \in DOMAIN apiQ,
           NEW c, c = apiQ[1], c.type = "call", c.op = "add", c.back \in Back,
           c.back.type \in {"answer", "restarted"}, ItemOK(c),
           NEW x, Flow(0, 1, {x}, 1, 0, {}), x.type = c.back.type, x.back = c.back,
           NEW s, s = c.g.key
    PROVE  /\ Due(s) \/ DueAgain(s)
           /\ s \in 1..(2 * Len(batch')) /\ ~Due(s)' /\ ~DueAgain(s)'
<1>0. Typed /\ OrderInv /\ CarriedOK(c) /\ Typed' /\ OrderInv'
      /\ Len(batch) \in Nat /\ DOMAIN batch = 1..Len(batch)
      /\ Len(batch') \in Nat /\ Len(batch) <= Len(batch')
  BY DEF Base, CarriedInv, Kept
<1>1. CASE c.back.type = "answer"
  <2>. PICK r : r = c.back.r
    OBVIOUS
  <2>. PICK i : i = c.back.i
    OBVIOUS
  <2>1. /\ r \in Nat /\ i \in Stage /\ r \in DOMAIN batch /\ batch[r] # None
        /\ i \in DOMAIN batch[r].keys /\ batch[r].kind = "add"
        /\ c.g.key = batch[r].keys[i]
    <3>1. r \in Nat /\ i \in Stage
      BY <1>1, BackFields
    <3>2. Open(r, i)
      BY <1>0, <1>1 DEF CarriedOK
    <3>3. /\ batch[r].kind = "add"
          /\ c.g = [key |-> batch[r].keys[i], mask |-> batch[r].mask, paused |-> FALSE]
      BY <1>0, <1>1 DEF CarriedOK
    <3>. QED  BY <3>1, <3>2, <3>3 DEF Open
  <2>2. s = SessionOf(r, i)
    <3>1. BatchItem(r, batch[r])
      BY <2>1 DEF Base, Typed, BatchOK
    <3>2. \A j \in DOMAIN batch[r].keys : batch[r].keys[j] = SessionOf(r, j)
      BY <2>1, <3>1 DEF BatchItem
    <3>. QED  BY <2>1, <3>2
  <2>3. At(3, 1, r, i)
    BY <1>1 DEF At, InApi, Holds
  <2>4. Due(s)
    <3>1. 3 \in 0..3 /\ 1 \in Nat
      OBVIOUS
    <3>. QED  BY <2>1, <2>2, <2>3, <3>1, Zenon DEF Due
  <2>5. s \in 1..(2 * Len(batch'))
    <3>1. r \in 1..Len(batch') /\ i \in 1..2
      BY <1>0, <2>1 DEF Stage
    <3>. QED  BY <1>0, <2>2, <3>1 DEF SessionOf
  <2>. PICK N : N = Len(msgQ')
    OBVIOUS
  <2>6. At(4, N, r, i)' /\ N \in Nat
    <3>1. N = (Len(msgQ) - 0) + 1 /\ N \in DOMAIN msgQ' /\ N \in Nat /\ Len(msgQ) \in Nat
          /\ DOMAIN msgQ = 1..Len(msgQ)
          /\ (N + 0 \in DOMAIN msgQ \/ msgQ'[N] \in {x})
      BY DEF Flow, Shifted
    <3>2. msgQ'[N] = x
      BY <3>1
    <3>. QED  BY <1>1, <3>1, <3>2 DEF At, InMsg, Holds
  <2>7. ~Due(s)'
    <3>. SUFFICES ASSUME Due(s)' PROVE FALSE
      OBVIOUS
    <3>1. PICK k \in 0..3, n \in Nat, q \in Nat, j \in Stage :
              At(k, n, q, j)' /\ s = SessionOf(q, j)
      BY DEF Due, SessionOf
    <3>2. q = r /\ j = i
      <4>1. SessionOf(q, j) = SessionOf(r, i)
        BY <2>2, <3>1
      <4>2. r \in Nat /\ i \in Stage
        BY <2>1
      <4>. QED  BY <4>1, <4>2, SessionsDiffer
    <3>3. At(k, n, r, i)' /\ k \in 0..4 /\ 4 \in 0..4 /\ k # 4
      BY <3>1, <3>2
    <3>. QED  BY <1>0, <2>1, <2>6, <3>3, OnePlaceNext
  <2>8. ~DueAgain(s)'
    <3>1. ~DueAgain(s)
      BY <2>4 DEF AgainInv, DueAgain
    <3>. QED  BY <3>1 DEF DueAgainKept
  <2>. QED  BY <2>4, <2>5, <2>7, <2>8
<1>2. CASE c.back.type = "restarted"
  <2>1. Readds(c, s)
    BY <1>2 DEF Readds
  <2>2. DueAgain(s) /\ s \in 1..(2 * Len(batch)) /\ ~Due(s)
        /\ \A m \in DOMAIN apiQ : Readds(apiQ[m], s) => m = 1
    BY <2>1 DEF DueAgain, AgainInv
  <2>3. s \in 1..(2 * Len(batch')) /\ ~Due(s)'
    BY <1>0, <2>2 DEF DueKept
  <2>4. ~DueAgain(s)'
    <3>. SUFFICES ASSUME DueAgain(s)' PROVE FALSE
      OBVIOUS
    <3>1. PICK n \in DOMAIN apiQ' : Readds(apiQ'[n], s)
      BY DEF DueAgain, Readds
    <3>2. n + 1 \in DOMAIN apiQ /\ apiQ'[n] = apiQ[n + 1] /\ n \in Nat /\ n >= 1
      BY DEF Flow, Shifted
    <3>3. n + 1 = 1
      BY <2>2, <3>1, <3>2
    <3>. QED  BY <3>2, <3>3
  <2>. QED  BY <2>2, <2>3, <2>4
<1>. QED  BY <1>1, <1>2

LEMMA StepSame ==
    ASSUME UNCHANGED batch, NEW x, NEW t, NEW u, Step(x, t, u) PROVE Step(x, t, u)'
<1>. PICK op : op = OpOf(x)
  OBVIOUS
<1>. PICK g : g = GeofenceOf(x)
  OBVIOUS
<1>1. OpOf(x)' = op /\ GeofenceOf(x)' = g
  BY DEF OpOf, GeofenceOf
<1>2. Succeeds(x) => Change(op, g, x.hw, t, u)
  BY DEF Step
<1>3. Succeeds(x) => Change(OpOf(x), GeofenceOf(x), x.hw, t, u)'
  BY <1>1, <1>2 DEF Change, Keys, Geofences, Altered
<1>. QED  BY <1>3 DEF Step, Succeeds

LEMMA ObeyedFrom ==
    ASSUME NEW u, used \subseteq used', engine' = "up" => \A h \in HwId : Same(u[h], modem'[h])
    PROVE  Obeyed(u)'
  BY DEF Obeyed, Same


\* What an answer carries has come all the way.
LEMMA ReplyTypes ==
    ASSUME NEW x, x.type \in {"answer", "restarted"} PROVE Foreseen(x) /\ NoLeaving(x)
<1>1. Foreseen(x)
  BY DEF Foreseen, InMsg, InApi
<1>2. NoLeaving(x)
  BY DEF NoLeaving
<1>. QED  BY <1>1, <1>2

\* A call at the head of LocApi's queue
Called(c) ==
    /\ 1 \in DOMAIN apiQ /\ c = apiQ[1] /\ c.type = "call" /\ ItemOK(c) /\ CarriedOK(c)
    /\ c.op \in {"add", "remove", "modify", "pause", "resume"}
    /\ c.hw \in {0} \union HwId /\ c.g \in Asked /\ c.back \in Back
    /\ c.back.type \in {"answer", "restarted", "ignored"}

LEMMA CalledFlows ==
    ASSUME Base, ClientInv, client, LocApiCall
    PROVE  \E c : /\ Called(c) /\ (Refuses(c) \/ \E hw \in HwId : Does(c, hw))
                  /\ UNCHANGED <<batch, tableVars, engine>> /\ used \subseteq used'
<1>. PICK c : c = Head(apiQ)
  OBVIOUS
<1>1. /\ c = apiQ[1] /\ 1 \in DOMAIN apiQ /\ c.type = "call" /\ ItemOK(c) /\ CarriedOK(c)
      /\ c.op \in {"add", "remove", "modify", "pause", "resume"}
      /\ c.hw \in {0} \union HwId /\ c.g \in Asked /\ c.back \in Back
  BY CallHead DEF LocApiCall, Base
<1>2. Refuses(c) \/ \E hw \in HwId : Does(c, hw)
  BY CallFlows DEF Base
<1>3. c.back.type \in {"answer", "restarted", "ignored"}
  <2>1. c.back.type # "stopped"
    BY <1>1 DEF ClientInv, Staying
  <2>. QED  BY <1>1, <2>1, BackFields
<1>4. UNCHANGED <<batch, tableVars, engine>> /\ used \subseteq used'
  BY DEF LocApiCall, ModemDoes, ModemRefuses, Use
<1>. QED  BY <1>1, <1>2, <1>3, <1>4 DEF Called

\* The answer that is handed to the adapter, if one is
Handed(c, x) ==
    /\ Flow(0, 1, {x}, 1, 0, {})
    /\ x.type = c.back.type /\ x.back = c.back /\ x.type \in {"answer", "restarted"}

LEMMA RefusedFlows ==
    ASSUME NEW c, Called(c), Refuses(c)
    PROVE  \/ c.back.type = "ignored" /\ Flow(0, 0, {}, 1, 0, {}) /\ UNCHANGED msgQ
           \/ \E x : Handed(c, x) /\ ~x.ok
<1>. PICK x : x = Reply(c.back, c.hw, FALSE)
  OBVIOUS
<1>1. x.type = c.back.type /\ x.back = c.back /\ ~x.ok
  BY DEF Reply
<1>2. c.back.type # "ignored" => x.type \in {"answer", "restarted"}
  BY <1>1 DEF Called
<1>. QED  BY <1>1, <1>2 DEF Refuses, Replies, Handed

LEMMA DoneFlows ==
    ASSUME NEW c, Called(c), NEW hw, Does(c, hw)
    PROVE  \/ c.back.type = "ignored" /\ Flow(0, 0, {}, 1, 0, {}) /\ UNCHANGED msgQ
           \/ \E x : Handed(c, x) /\ x.ok /\ x.hw = hw
<1>. PICK x : x = Reply(c.back, hw, TRUE)
  OBVIOUS
<1>1. x.type = c.back.type /\ x.back = c.back /\ x.ok /\ x.hw = hw
  BY DEF Reply
<1>2. c.back.type # "ignored" => x.type \in {"answer", "restarted"}
  BY <1>1 DEF Called
<1>. QED  BY <1>1, <1>2 DEF Does, Replies, Handed

LEMMA RefusedMirrors ==
    ASSUME Base, Base', ClientInv, client, NEW c, Called(c), Refuses(c),
           UNCHANGED <<batch, tableVars, engine>>, used \subseteq used'
    PROVE  ClientInv'
<1>1. Kept
  BY KeptBySame DEF Base
<1>2. UNCHANGED <<tableVars, modemVars>>
  BY DEF Refuses, modemVars
<1>3. CASE Flow(0, 0, {}, 1, 0, {}) /\ UNCHANGED msgQ
  <2>1. Calm
    BY <1>1, <1>3, CalmAfter
  <2>2. \A t \in Table : Obeyed(t) => Obeyed(t)'
    BY <1>2, ObeyedKept
  <2>. QED  BY <1>1, <1>2, <1>3, <2>1, <2>2, MirrorUnqueued
<1>4. ASSUME NEW x, Handed(c, x), ~x.ok PROVE ClientInv'
  <2>1. Flow(0, 1, {x}, 1, 0, {}) /\ x.type \in {"answer", "restarted"}
    BY <1>4 DEF Handed
  <2>2. Foreseen(x) /\ NoLeaving(x)
    BY <2>1, ReplyTypes
  <2>3. Calm
    BY <1>1, <2>1, <2>2, CalmAfter
  <2>4. ~Succeeds(x) /\ \A t : RightOwner(x, t)
    BY <1>4, <2>1 DEF Succeeds, RightOwner
  <2>. QED  BY <1>1, <1>2, <2>1, <2>2, <2>3, <2>4, MirrorQueued
<1>. QED  BY <1>3, <1>4, RefusedFlows

\* What call c asks for, as its answer will say
LEMMA AnswerOf ==
    ASSUME Base, NEW c, Called(c), NEW x, x.type = c.back.type, x.back = c.back,
           x.type \in {"answer", "restarted"}
    PROVE  /\ OpOf(x) = c.op /\ GeofenceOf(x).key = c.g.key
           /\ GeofenceOf(x) = c.g
           /\ c.op \in {"add", "modify"} => c.g.mask \in Mask
           /\ c.op = "add" => c.g \in Geofence
<1>1. OpOf(x) = c.op /\ GeofenceOf(x) = c.g
  BY DEF Called, CarriedOK, ItemOK, OpOf, GeofenceOf
<1>2. c.op \in {"add", "modify"} => c.g.mask \in Mask
  BY DEF Called, ItemOK
<1>3. c.op = "add" => c.g \in Geofence
  BY <1>2, AskedFields DEF Called
<1>. QED  BY <1>1, <1>2, <1>3

\* What call c makes of a table that the modem obeys
LEMMA ChangedLevel ==
    ASSUME Base, NEW c, Called(c), c.op = "add" => c.g \in Geofence,
           c.op \in {"add", "modify"} => c.g.mask \in Mask,
           NEW hw, Does(c, hw), NEW t, Level(t), Obeyed(t), NEW m, m = modem[hw],
           c.op = "add" => c.g.key \notin Keys(t)
    PROVE  \E u : /\ Change(c.op, c.g, hw, t, u) /\ u \in Table /\ Unique(u)
                  /\ Keys(u) \subseteq Keys(t) \union (IF c.op = "add" THEN {c.g.key} ELSE {})
                  /\ Same(u[hw], After(c, hw))
                  /\ \A h \in HwId : h # hw => u[h] = t[h]
<1>0. /\ t \in Table /\ Unique(t) /\ hw \in HwId /\ Same(t[hw], m)
      /\ m # None => m \in Geofence
  <2>1. hw \in HwId /\ engine = "up"
    BY DEF Does
  <2>2. m # None => m \in Geofence
    BY <2>1 DEF Base, Typed, TypeOK
  <2>. QED  BY <2>1, <2>2 DEF Level, Obeyed
<1>1. CASE c.op = "add"
  <2>1. t[hw] = None
    <3>1. m = None
      BY <1>1 DEF Does
    <3>. QED  BY <1>0, <3>1 DEF Same
  <2>. PICK g : g = c.g
    OBVIOUS
  <2>0. g \in Geofence /\ g.key \notin Keys(t)
    BY <1>1
  <2>2. PICK u : /\ u = [t EXCEPT ![hw] = g] /\ u \in Table /\ Unique(u)
                 /\ Keys(u) \subseteq Keys(t) \union {g.key} /\ u[hw] = g
                 /\ \A h \in HwId : h # hw => u[h] = t[h]
    BY <1>0, <2>0, TablePut
  <2>3. Same(u[hw], After(c, hw))
    BY <1>1, <2>2 DEF Same, After
  <2>4. Change(c.op, c.g, hw, t, u)
    BY <1>1, <2>1, <2>2 DEF Change
  <2>. QED  BY <1>1, <2>2, <2>3, <2>4
<1>2. CASE c.op = "remove"
  <2>1. PICK u : /\ u = [t EXCEPT ![hw] = None] /\ u \in Table /\ Unique(u)
                 /\ Keys(u) \subseteq Keys(t) /\ u[hw] = None
                 /\ \A h \in HwId : h # hw => u[h] = t[h]
    BY <1>0, TableDrop
  <2>2. Same(u[hw], After(c, hw))
    BY <1>2, <2>1 DEF Same, After
  <2>3. Change(c.op, c.g, hw, t, u)
    BY <1>2, <2>1 DEF Change
  <2>. QED  BY <1>2, <2>1, <2>2, <2>3
<1>3. CASE c.op \in {"modify", "pause", "resume"}
  <2>. PICK h : h = t[hw]
    OBVIOUS
  <2>. PICK v : v = Altered(c.op, c.g, h)
    OBVIOUS
  <2>1. m # None /\ m \in Geofence
    BY <1>0, <1>3 DEF Does
  <2>2. h # None /\ h \in Geofence /\ h.key \in Keys(t)
    <3>1. h # None
      BY <1>0, <2>1 DEF Same
    <3>. QED  BY <1>0, <3>1, TableFields
  <2>3. v \in Geofence /\ v.key = h.key
    BY <1>3, <2>2, AlteredTypes
  <2>4. PICK u : /\ u = [t EXCEPT ![hw] = v] /\ u \in Table /\ Unique(u)
                 /\ Keys(u) \subseteq Keys(t) \union {v.key} /\ u[hw] = v
                 /\ \A j \in HwId : j # hw => u[j] = t[j]
    BY <1>0, <2>2, <2>3, TablePut
  <2>5. Same(v, Altered(c.op, c.g, m))
    BY <1>0, <1>3, <2>1, <2>2, AlteredSame
  <2>6. After(c, hw) = Altered(c.op, c.g, m)
    BY <1>3 DEF After, Altered
  <2>7. Change(c.op, c.g, hw, t, u)
    BY <1>3, <2>2, <2>4 DEF Change
  <2>8. Keys(u) \subseteq Keys(t)
    BY <2>2, <2>3, <2>4
  <2>. QED  BY <1>3, <2>4, <2>5, <2>6, <2>7, <2>8
<1>. QED  BY <1>1, <1>2, <1>3 DEF Called


LEMMA ObeyedAfter ==
    ASSUME Base, NEW c, NEW hw \in HwId, Does(c, hw), used \subseteq used',
           NEW t, Obeyed(t), NEW u, Same(u[hw], After(c, hw)),
           \A h \in HwId : h # hw => u[h] = t[h]
    PROVE  Obeyed(u)'
<1>. PICK a : a = After(c, hw)
  OBVIOUS
<1>1. modem' = [modem EXCEPT ![hw] = a] /\ engine = "up" /\ DOMAIN modem = HwId
  BY DEF Does, Base, Typed, TypeOK
<1>2. modem'[hw] = a /\ \A h \in HwId : h # hw => modem'[h] = modem[h]
  BY <1>1
<1>3. \A h \in HwId : Same(t[h], modem[h])
  BY <1>1 DEF Obeyed
<1>4. \A h \in HwId : Same(u[h], modem'[h])
  <2>. TAKE h \in HwId
  <2>1. CASE h = hw
    <3>1. Same(u[hw], a)
      OBVIOUS
    <3>2. u[h] = u[hw] /\ modem'[h] = a
      BY <1>2, <2>1
    <3>. QED  BY <3>1, <3>2
  <2>2. CASE h # hw
    <3>1. u[h] = t[h] /\ modem'[h] = modem[h]
      BY <1>2, <2>2
    <3>. QED  BY <1>3, <3>1
  <2>. QED  BY <2>1, <2>2
<1>. QED  BY <1>4, ObeyedFrom

\* A geofence that was added again is paused again; the adapter is told nothing.
LEMMA RepausedMirrors ==
    ASSUME Base, Base', EngineInv, ClientInv, client, NEW c, Called(c), c.back.type = "ignored",
           NEW hw \in HwId, Does(c, hw), Flow(0, 0, {}, 1, 0, {}), UNCHANGED msgQ,
           UNCHANGED <<batch, tableVars, engine>>, used \subseteq used'
    PROVE  ClientInv'
<1>1. Kept
  BY KeptBySame DEF Base
<1>2. Calm
  BY <1>1, CalmAfter
<1>. PICK m : m = modem[hw]
  OBVIOUS
<1>3. c.op = "pause" /\ "restart" \in used /\ m # None /\ m \in Geofence /\ engine = "up"
  <2>1. c.op = "pause" /\ "restart" \in used
    BY DEF Called, ItemOK, EngineInv
  <2>2. m # None /\ engine = "up"
    BY <2>1 DEF Does
  <2>3. m \in Geofence
    BY <2>2 DEF Base, Typed, TypeOK
  <2>. QED  BY <2>1, <2>2, <2>3
<1>4. ASSUME NEW t \in Table, Obeyed(t) PROVE Obeyed(t)'
  <2>. PICK x : x = t[hw]
    OBVIOUS
  <2>1. Same(x, m)
    BY <1>3, <1>4 DEF Obeyed
  <2>2. x # None
    BY <1>3, <2>1 DEF Same
  <2>3. x \in Geofence
    BY <2>2 DEF Table
  <2>4. Same(x, Altered("pause", c.g, m))
    BY <1>3, <2>1, <2>3, PausedAgain
  <2>5. After(c, hw) = Altered("pause", c.g, m)
    BY <1>3 DEF After, Altered
  <2>6. Same(t[hw], After(c, hw))
    BY <2>4, <2>5
  <2>. QED  BY <1>4, <2>6, ObeyedAfter
<1>5. UNCHANGED <<tableVars, msgQ>>
  OBVIOUS
<1>. QED  BY <1>1, <1>2, <1>4, <1>5, MirrorUnqueued

\* The modem does as it is told and answers.
LEMMA DoneMirrors ==
    ASSUME Base, Base', ClientInv, client, NEW c, Called(c),
           NEW hw \in HwId, Does(c, hw), NEW x, Handed(c, x), x.ok, x.hw = hw,
           UNCHANGED <<batch, tableVars, engine>>, used \subseteq used'
    PROVE  ClientInv'
<1>1. Kept
  BY KeptBySame DEF Base
<1>2. /\ Flow(0, 1, {x}, 1, 0, {}) /\ x.type \in {"answer", "restarted"}
      /\ x.type = c.back.type /\ x.back = c.back
  BY DEF Handed
<1>3. Foreseen(x) /\ NoLeaving(x)
  BY <1>2, ReplyTypes
<1>4. Calm
  BY <1>1, <1>2, <1>3, CalmAfter
<1>5. PICK V : Mirror(V)
  BY DEF ClientInv
<1>. PICK N : N = Len(msgQ)
  OBVIOUS
<1>. PICK t : t = V[N]
  OBVIOUS
<1>6. Level(t) /\ Obeyed(t) /\ \A n \in 0..N : Level(V[n])
  <2>1. N \in 0..N
    BY <1>2 DEF Flow, Shifted
  <2>. QED  BY <1>5, <2>1, MirrorParts
<1>. PICK s : s = c.g.key
  OBVIOUS
<1>7. /\ OpOf(x) = c.op /\ GeofenceOf(x) = c.g /\ Succeeds(x)
      /\ c.op \in {"add", "modify"} => c.g.mask \in Mask
      /\ c.op = "add" => c.g \in Geofence
  BY <1>2, AnswerOf DEF Succeeds
\* An added session is none of those in the tables to come, and no longer to be added.
<1>8. c.op = "add" =>
         /\ \A n \in 0..N : s \notin Keys(V[n])
         /\ s \in 1..(2 * Len(batch')) /\ ~Due(s)' /\ ~DueAgain(s)'
  <2>. SUFFICES ASSUME c.op = "add"
                PROVE  /\ \A n \in 0..N : s \notin Keys(V[n])
                       /\ s \in 1..(2 * Len(batch')) /\ ~Due(s)' /\ ~DueAgain(s)'
    OBVIOUS
  <2>1. AgainInv /\ DueKept /\ DueAgainKept
    BY <1>4 DEF ClientInv, Calm
  <2>2. /\ 1 \in DOMAIN apiQ /\ c = apiQ[1] /\ c.type = "call" /\ c.back \in Back
        /\ ItemOK(c) /\ c.back.type \in {"answer", "restarted"}
    BY <1>2 DEF Called
  <2>3. /\ Due(s) \/ DueAgain(s)
        /\ s \in 1..(2 * Len(batch')) /\ ~Due(s)' /\ ~DueAgain(s)'
    BY <1>1, <1>2, <2>1, <2>2, AddedOnce
  <2>4. \A n \in 0..N : s \notin Keys(V[n])
    BY <1>6, <2>3 DEF Level, Bounded
  <2>. QED  BY <2>3, <2>4
<1>9. c.op = "add" => c.g.key \notin Keys(t)
  <2>1. N \in 0..N
    BY <1>2 DEF Flow, Shifted
  <2>. QED  BY <1>8, <2>1
<1>10. PICK u : /\ Change(c.op, c.g, hw, t, u) /\ u \in Table /\ Unique(u)
                /\ Keys(u) \subseteq Keys(t) \union (IF c.op = "add" THEN {c.g.key} ELSE {})
                /\ Same(u[hw], After(c, hw))
                /\ \A h \in HwId : h # hw => u[h] = t[h]
  BY <1>6, <1>7, <1>9, ChangedLevel
<1>11. Obeyed(u)'
  BY <1>6, <1>10, ObeyedAfter
<1>12. \A k \in Keys(u) : k \in Keys(t) \/ (c.op = "add" /\ k = s)
  BY <1>10
<1>13. Level(u)'
  <2>1. Bounded(t)'
    BY <1>4, <1>6 DEF Calm, Level
  <2>2. ASSUME NEW k \in Keys(u)
        PROVE  k \in 1..(2 * Len(batch')) /\ ~Due(k)' /\ ~DueAgain(k)'
    <3>1. CASE k \in Keys(t)
      <4>1. \A j \in Keys(t) : j \in 1..(2 * Len(batch')) /\ ~Due(j)' /\ ~DueAgain(j)'
        BY <2>1 DEF Bounded, Keys, Geofences
      <4>. QED  BY <3>1, <4>1
    <3>2. CASE c.op = "add" /\ k = s
      BY <1>8, <3>2
    <3>. QED  BY <1>12, <2>2, <3>1, <3>2
  <2>3. Bounded(u)'
    BY <2>2 DEF Bounded, Keys, Geofences
  <2>. QED  BY <1>10, <2>3 DEF Level, Table, Unique, Geofences, Geofence, Session, HwId
<1>14. Link(x, t, u)'
  <2>1. Change(OpOf(x), GeofenceOf(x), x.hw, t, u)
    BY <1>7, <1>10
  <2>2. Step(x, t, u)
    BY <1>2, <1>7, <2>1 DEF Step
  <2>3. Step(x, t, u)'
    BY <2>2, StepSame
  <2>. QED  BY <1>2, <2>3 DEF Link, RightOwner
<1>15. \A n \in 0..N : Keys(V[n]) \intersect Keys(u) \subseteq Keys(t)
  BY <1>8, <1>12
<1>16. (\E W : Mirror(W))'
  <2>1. UNCHANGED mGeofences /\ x.type # "engineUp"
    BY <1>2 DEF tableVars
  <2>. QED  BY <1>1, <1>2, <1>4, <1>5, <1>11, <1>13, <1>14, <1>15, <2>1, MirrorExtended
<1>17. Staying'
  <2>1. Staying /\ \A y \in {x} \union {} : NoLeaving(y)
    BY <1>3 DEF ClientInv
  <2>. QED  BY <1>2, <2>1, StayingStep
<1>18. Resolves'
  BY DEF ClientInv, Resolves, tableVars
<1>. QED  BY <1>4, <1>16, <1>17, <1>18, ClientNext DEF Calm

LEMMA CallMirrors ==
    ASSUME Base, Base', EngineInv, ClientInv, client, LocApiCall PROVE ClientInv'
<1>1. PICK c : /\ Called(c) /\ (Refuses(c) \/ \E hw \in HwId : Does(c, hw))
               /\ UNCHANGED <<batch, tableVars, engine>> /\ used \subseteq used'
  BY CalledFlows
<1>2. CASE Refuses(c)
  BY <1>1, <1>2, RefusedMirrors
<1>3. ASSUME NEW hw \in HwId, Does(c, hw) PROVE ClientInv'
  <2>1. \/ c.back.type = "ignored" /\ Flow(0, 0, {}, 1, 0, {}) /\ UNCHANGED msgQ
        \/ \E x : Handed(c, x) /\ x.ok /\ x.hw = hw
    BY <1>1, <1>3, DoneFlows
  <2>2. CASE c.back.type = "ignored" /\ Flow(0, 0, {}, 1, 0, {}) /\ UNCHANGED msgQ
    BY <1>1, <1>3, <2>2, RepausedMirrors
  <2>3. ASSUME NEW x, Handed(c, x), x.ok, x.hw = hw PROVE ClientInv'
    BY <1>1, <1>3, <2>3, DoneMirrors
  <2>. QED  BY <2>1, <2>2, <2>3
<1>. QED  BY <1>1, <1>2, <1>3

-----------------------------------------------------------------------------
(* The engine's part of the invariant *)

\* The adapter's steps
LEMMA EngineAdapter ==
    ASSUME Base, EngineInv, Adapter PROVE EngineInv'
<1>1. UNCHANGED modemVars /\ used' = used
  BY DEF Adapter, HandleCommand, HandleTurn, HandleAnswer, HandleEngineUp, HandleRestarted,
         HandleRemoveClient, HandleStopped, HandleBreach
<1>2. UNCHANGED engine /\ UNCHANGED modem /\ used \subseteq used'
  BY <1>1 DEF modemVars
<1>3. ASSUME NEW c, NEW A, Flow(1, 0, {}, 0, c, A),
             \A x \in A : NoRestart(x) \/ (x.type # "reopen" /\ "restart" \in used)
      PROVE  EngineInv'
  <2>1. \A x \in {} \union A : NoRestart(x) \/ (x.type # "reopen" /\ "restart" \in used)
    BY <1>3
  <2>. QED  BY <1>2, <1>3, <2>1, EngineStep
<1>4. CASE HandleCommand
  <2>. PICK r : r = Head(msgQ).r
    OBVIOUS
  <2>. PICK A : A = {Turn(r, i) : i \in DOMAIN batch[r].keys}
    OBVIOUS
  <2>1. \E c : Flow(1, 0, {}, 0, c, A)
    BY <1>4, CommandFlows DEF Base
  <2>2. \A x \in A : NoRestart(x)
    BY DEF NoRestart, Turn
  <2>. QED  BY <1>3, <2>1, <2>2
<1>5. CASE HandleTurn
  <2>. PICK r : r = Head(msgQ).r
    OBVIOUS
  <2>. PICK i : i = Head(msgQ).i
    OBVIOUS
  <2>1. TurnCalls(r, i) \/ TurnFails(r, i)
    BY <1>5, TurnFlows DEF Base
  <2>2. CASE TurnCalls(r, i)
    <3>. PICK x : x = CallFor(r, i)
      OBVIOUS
    <3>1. Flow(1, 0, {}, 0, 1, {x})
      BY <2>2 DEF TurnCalls
    <3>2. NoRestart(x)
      BY DEF NoRestart, CallFor, Call
    <3>. QED  BY <1>3, <3>1, <3>2
  <2>3. CASE TurnFails(r, i)
    <3>1. Flow(1, 0, {}, 0, 0, {})
      BY <2>3 DEF TurnFails
    <3>. QED  BY <1>3, <3>1
  <2>. QED  BY <2>1, <2>2, <2>3
<1>6. CASE HandleAnswer
  <2>1. Flow(1, 0, {}, 0, 0, {})
    BY <1>6, AnswerFlows DEF Base, Answers
  <2>. QED  BY <1>3, <2>1
<1>7. CASE HandleEngineUp
  <2>1. msgQ[1].type = "engineUp" /\ 1 \in DOMAIN msgQ
    BY <1>7, HeadMessage DEF HandleEngineUp, Base
  <2>2. "restart" \in used
    BY <2>1 DEF EngineInv
  <2>. PICK A : A = {Again(g) : g \in Watched}
    OBVIOUS
  <2>3. \E c : Flow(1, 0, {}, 0, c, A)
    BY <1>7, EngineUpFlows DEF Base
  <2>4. \A x \in A : x.type # "reopen"
    BY DEF Again, Call
  <2>. QED  BY <1>3, <2>2, <2>3, <2>4
<1>8. CASE HandleRestarted
  <2>1. msgQ[1].type = "restarted" /\ 1 \in DOMAIN msgQ
    BY <1>8, HeadMessage DEF HandleRestarted, Base
  <2>2. "restart" \in used
    BY <2>1 DEF EngineInv
  <2>. PICK x : x = PauseAgain(Head(msgQ).hw, Head(msgQ).back.g)
    OBVIOUS
  <2>3. Flow(1, 0, {}, 0, 0, {}) \/ Flow(1, 0, {}, 0, 1, {x})
    BY <1>8, RestartedFlows DEF Base
  <2>4. x.type # "reopen"
    BY DEF PauseAgain, Call
  <2>. QED  BY <1>3, <2>2, <2>3, <2>4
<1>9. CASE HandleRemoveClient
  <2>. PICK A : A = {Stopping(s) : s \in Session}
    OBVIOUS
  <2>1. \E c : Flow(1, 0, {}, 0, c, A)
    BY <1>9, RemoveClientFlows DEF Base
  <2>2. \A x \in A : NoRestart(x)
    BY DEF NoRestart, Stopping, Call
  <2>. QED  BY <1>3, <2>1, <2>2
<1>10. CASE HandleStopped
  <2>1. Flow(1, 0, {}, 0, 0, {})
    BY <1>10, StoppedFlows DEF Base
  <2>. QED  BY <1>3, <2>1
<1>11. CASE HandleBreach
  <2>1. Flow(1, 0, {}, 0, 0, {})
    BY <1>11, BreachFlows DEF Base
  <2>. QED  BY <1>3, <2>1
<1>. QED  BY <1>4, <1>5, <1>6, <1>7, <1>8, <1>9, <1>10, <1>11 DEF Adapter

\* The modem is open again, and its restart is over.
LEMMA EngineReopens ==
    ASSUME Base, EngineInv, LocApiReopens PROVE EngineInv'
<1>. PICK x : x = [type |-> "engineUp"]
  OBVIOUS
<1>1. Flow(0, 1, {x}, 1, 0, {}) /\ 1 \in DOMAIN apiQ /\ apiQ[1].type = "reopen"
      /\ x.type = "engineUp"
  BY ReopenFlows DEF Base
<1>2. engine' = "up" /\ used' = used
  BY DEF LocApiReopens
<1>3. "restart" \in used
  BY <1>1 DEF EngineInv
<1>4. \A n \in DOMAIN apiQ' : n + 1 \in DOMAIN apiQ /\ n + 1 # 1 /\ apiQ'[n] = apiQ[n + 1]
  BY <1>1 DEF Flow, Shifted
<1>5. \A n \in DOMAIN apiQ' : apiQ'[n].type # "reopen"
  BY <1>1, <1>4 DEF EngineInv
<1>. QED  BY <1>2, <1>3, <1>5 DEF EngineInv

\* The modem restarts, and is to be opened again.
LEMMA EngineRestarts ==
    ASSUME Base, EngineInv, ModemRestart PROVE EngineInv'
<1>. PICK x : x = [type |-> "reopen"]
  OBVIOUS
<1>1. Flow(0, 0, {}, 0, 1, {x})
  BY ModemRestartFlows DEF Base
<1>2. /\ engine = "up" /\ engine' = "down" /\ modem' = [hw \in HwId |-> None]
      /\ "restart" \in used'
  BY DEF ModemRestart, Use
<1>3. \A n \in DOMAIN apiQ : apiQ[n].type # "reopen"
  BY <1>2 DEF EngineInv
<1>4. \A n \in DOMAIN apiQ' : apiQ'[n].type = "reopen" => n > Len(apiQ) /\ n <= Len(apiQ) + 1
  <2>. SUFFICES ASSUME NEW n \in DOMAIN apiQ', apiQ'[n].type = "reopen"
                PROVE  n > Len(apiQ) /\ n <= Len(apiQ) + 1
    OBVIOUS
  <2>1. /\ n \in Nat /\ Len(apiQ) \in Nat /\ n <= (Len(apiQ) - 0) + 1
        /\ DOMAIN apiQ = 1..Len(apiQ)
        /\ (n + 0 \in DOMAIN apiQ /\ apiQ'[n] = apiQ[n + 0]) \/ n + 0 > Len(apiQ)
    BY <1>1 DEF Flow, Shifted
  <2>2. n + 0 > Len(apiQ)
    BY <1>3, <2>1
  <2>. QED  BY <2>1, <2>2
<1>5. \A m, n \in DOMAIN apiQ' : apiQ'[m].type = "reopen" /\ apiQ'[n].type = "reopen" => m = n
  <2>. SUFFICES ASSUME NEW m \in DOMAIN apiQ', NEW n \in DOMAIN apiQ',
                       apiQ'[m].type = "reopen", apiQ'[n].type = "reopen"
                PROVE  m = n
    OBVIOUS
  <2>1. m \in Nat /\ n \in Nat /\ Len(apiQ) \in Nat
    BY <1>1 DEF Flow, Shifted
  <2>2. m > Len(apiQ) /\ m <= Len(apiQ) + 1 /\ n > Len(apiQ) /\ n <= Len(apiQ) + 1
    BY <1>4
  <2>. QED  BY <2>1, <2>2
<1>. QED  BY <1>2, <1>5 DEF EngineInv

\* The client's steps, and the others of LocApi and the modem
LEMMA EngineOthers ==
    ASSUME Base, EngineInv,
           Request \/ Destroy \/ LocApiTurn \/ LocApiCall \/ ModemBreach \/ UNCHANGED vars
    PROVE  EngineInv'
<1>0. UNCHANGED engine /\ used \subseteq used'
  <2>1. CASE Request
    BY <2>1, PostedFlows DEF Base, Posted, modemVars
  <2>2. CASE Destroy
    BY <2>2 DEF Destroy, Use, modemVars
  <2>3. CASE LocApiTurn
    BY <2>3 DEF LocApiTurn, modemVars
  <2>4. CASE LocApiCall
    BY <2>4 DEF LocApiCall, ModemDoes, ModemRefuses, Use
  <2>5. CASE ModemBreach
    BY <2>5 DEF ModemBreach, Use, modemVars
  <2>6. CASE UNCHANGED vars
    BY <2>6 DEF vars, modemVars
  <2>. QED  BY <2>1, <2>2, <2>3, <2>4, <2>5, <2>6
<1>1. engine = "down" => UNCHANGED modem
  <2>1. CASE Request
    BY <2>1, PostedFlows DEF Base, Posted, modemVars
  <2>2. CASE Destroy
    BY <2>2 DEF Destroy, modemVars
  <2>3. CASE LocApiTurn
    BY <2>3 DEF LocApiTurn, modemVars
  <2>4. CASE LocApiCall
    BY <2>4 DEF LocApiCall, ModemDoes, ModemRefuses
  <2>5. CASE ModemBreach
    BY <2>5 DEF ModemBreach, modemVars
  <2>6. CASE UNCHANGED vars
    BY <2>6 DEF vars, modemVars
  <2>. QED  BY <2>1, <2>2, <2>3, <2>4, <2>5, <2>6
<1>2. ASSUME NEW cm, NEW M, NEW da, Flow(0, cm, M, da, 0, {}),
             \A x \in M : NoRestart(x) \/ (x.type # "reopen" /\ "restart" \in used)
      PROVE  EngineInv'
  <2>1. \A x \in M \union {} : NoRestart(x) \/ (x.type # "reopen" /\ "restart" \in used)
    BY <1>2
  <2>. QED  BY <1>0, <1>1, <1>2, <2>1, EngineStep
<1>3. CASE Request
  <2>. PICK x : x = Command(Len(batch) + 1)
    OBVIOUS
  <2>1. Flow(0, 1, {x}, 0, 0, {})
    BY <1>3, PostedFlows DEF Base
  <2>2. NoRestart(x)
    BY DEF NoRestart, Command
  <2>. QED  BY <1>2, <2>1, <2>2
<1>4. CASE Destroy
  <2>. PICK x : x = [type |-> "removeClient"]
    OBVIOUS
  <2>1. Flow(0, 1, {x}, 0, 0, {})
    BY <1>4, DestroyFlows DEF Base
  <2>2. NoRestart(x)
    BY DEF NoRestart
  <2>. QED  BY <1>2, <2>1, <2>2
<1>5. CASE LocApiTurn
  <2>. PICK x : x = Head(apiQ)
    OBVIOUS
  <2>1. Flow(0, 1, {x}, 1, 0, {}) /\ x.type = "turn"
    BY <1>5, LocApiTurnFlows DEF Base
  <2>2. NoRestart(x)
    BY <2>1 DEF NoRestart
  <2>. QED  BY <1>2, <2>1, <2>2
<1>6. CASE LocApiCall
  <2>. PICK c : c = Head(apiQ)
    OBVIOUS
  <2>1. c = apiQ[1] /\ 1 \in DOMAIN apiQ /\ c.type = "call" /\ c.back \in Back
    BY <1>6, CallHead DEF Base, LocApiCall
  <2>2. Flow(0, 0, {}, 1, 0, {}) \/ \E x : Flow(0, 1, {x}, 1, 0, {}) /\ x.type = c.back.type
    <3>1. Refuses(c) \/ \E hw \in HwId : Does(c, hw)
      BY <1>6, CallFlows DEF Base
    <3>2. \E hw, ok : Replies(c, hw, ok)
      BY <3>1 DEF Refuses, Does
    <3>3. PICK hw, ok : Replies(c, hw, ok)
      BY <3>2
    <3>. PICK x : x = Reply(c.back, hw, ok)
      OBVIOUS
    <3>4. x.type = c.back.type
      BY DEF Reply
    <3>. QED  BY <3>3, <3>4 DEF Replies
  <2>3. CASE Flow(0, 0, {}, 1, 0, {})
    BY <1>2, <2>3
  <2>4. ASSUME NEW x, Flow(0, 1, {x}, 1, 0, {}), x.type = c.back.type PROVE EngineInv'
    <3>1. x.type = "restarted" => "restart" \in used
      BY <2>1, <2>4 DEF EngineInv
    <3>2. x.type \in {"answer", "restarted", "ignored", "stopped"}
      BY <2>1, <2>4, BackFields
    <3>3. NoRestart(x) \/ (x.type # "reopen" /\ "restart" \in used)
      BY <3>1, <3>2 DEF NoRestart
    <3>. QED  BY <1>2, <2>4, <3>3
  <2>. QED  BY <2>2, <2>3, <2>4
<1>7. CASE ModemBreach
  <2>1. PICK hw : Flow(0, 1, {BreachOf(hw)}, 0, 0, {})
    BY <1>7, ModemBreachFlows DEF Base
  <2>. PICK x : x = BreachOf(hw)
    OBVIOUS
  <2>2. NoRestart(x)
    BY DEF NoRestart, BreachOf
  <2>. QED  BY <1>2, <2>1, <2>2
<1>8. CASE UNCHANGED vars
  <2>1. Flow(0, 0, {}, 0, 0, {})
    BY <1>8, MsgSame, ApiSame DEF Flow, vars, Base
  <2>. QED  BY <1>2, <2>1
<1>. QED  BY <1>3, <1>4, <1>5, <1>6, <1>7, <1>8

LEMMA EngineNext ==
    ASSUME Base, EngineInv, [Next]_vars PROVE EngineInv'
  BY EngineAdapter, EngineReopens, EngineRestarts, EngineOthers DEF Next

-----------------------------------------------------------------------------
(* The client's part, and the theorems *)

LEMMA StoodMirrors ==
    ASSUME Base, Base', ClientInv, client, UNCHANGED vars PROVE ClientInv'
<1>1. UNCHANGED <<batch, tableVars, msgQ, apiQ, modemVars>> /\ used' = used
  BY DEF vars
<1>2. Flow(0, 0, {}, 0, 0, {})
  BY <1>1, MsgSame, ApiSame DEF Flow, Base
<1>3. Kept
  BY <1>1, KeptBySame DEF Base
<1>4. Calm
  BY <1>2, <1>3, CalmAfter
<1>5. \A t \in Table : Obeyed(t) => Obeyed(t)'
  BY <1>1, ObeyedKept
<1>. QED  BY <1>1, <1>2, <1>3, <1>4, <1>5, MirrorUnqueued

\* Once it is gone a client does not come back.
LEMMA ClientGone == ASSUME Typed, [Next]_vars, client' PROVE client
<1>1. CASE Request
  BY <1>1, PostedFlows DEF Posted
<1>2. CASE HandleTurn
  BY <1>2 DEF HandleTurn
<1>3. CASE HandleAnswer
  BY <1>3 DEF HandleAnswer
<1>. QED  BY <1>1, <1>2, <1>3 DEF Next, Adapter, vars, clientVars, Destroy, HandleCommand,
             HandleEngineUp, HandleRestarted, HandleRemoveClient, HandleStopped, HandleBreach,
             LocApiTurn, LocApiCall, LocApiReopens, ModemRestart, ModemBreach

LEMMA ClientStep ==
    ASSUME Base, Base', EngineInv, ClientInv, [Next]_vars PROVE ClientInv'
<1>. SUFFICES ASSUME client' PROVE ClientInv'
  BY DEF ClientInv
<1>1. client
  BY ClientGone DEF Base
<1>2. ~Destroy
  BY DEF Destroy
<1>3. ~HandleRemoveClient
  <2>1. HandleRemoveClient => 1 \in DOMAIN msgQ /\ msgQ[1].type = "removeClient"
    BY HeadMessage DEF HandleRemoveClient, Base
  <2>. QED  BY <1>1, <2>1 DEF ClientInv, Staying
<1>4. ~HandleStopped
  <2>1. HandleStopped => 1 \in DOMAIN msgQ /\ msgQ[1].type = "stopped"
    BY HeadMessage DEF HandleStopped, Base
  <2>. QED  BY <1>1, <2>1 DEF ClientInv, Staying
<1>5. CASE Adapter
  BY <1>1, <1>3, <1>4, <1>5, CommandMirrors, TurnMirrors, AnswerMirrors, EngineUpMirrors,
     RestartedMirrors, BreachMirrors DEF Adapter
<1>6. CASE Request \/ UNCHANGED vars
  BY <1>1, <1>6, PostedMirrors, StoodMirrors
<1>7. CASE LocApiTurn \/ LocApiCall \/ LocApiReopens \/ ModemRestart \/ ModemBreach
  BY <1>1, <1>7, LocApiTurnMirrors, CallMirrors, ReopenMirrors, ModemRestartMirrors,
     ModemBreachMirrors
<1>. QED  BY <1>2, <1>5, <1>6, <1>7 DEF Next

\* A breach that is handled is of the geofence its hwId leads to.
LEMMA BreachNext ==
    ASSUME Base, ClientInv, BreachReachesOwner, [Next]_vars PROVE BreachReachesOwner'
<1>1. CASE HandleBreach
  <2>. PICK m : m = msgQ[1]
    OBVIOUS
  <2>1. m = Head(msgQ) /\ m.type = "breach" /\ m.hw \in HwId
    BY <1>1, HeadMessage, MessageFields DEF HandleBreach, Base
  <2>2. ASSUME client, mGeofences[m.hw] # None PROVE mGeofences[m.hw].key = m.key
    <3>1. PICK V : Mirror(V)
      BY <2>2 DEF ClientInv
    <3>2. Shifted(msgQ, msgQ', 1, 0, {})
      BY <1>1, BreachFlows DEF Base, Flow
    <3>3. Link(m, mGeofences, V[1])
      BY <3>1, <3>2, MirrorHead
    <3>4. V[1] = mGeofences
      BY <2>1, <3>3 DEF Link, Step, Succeeds
    <3>. QED  BY <2>1, <2>2, <3>3, <3>4 DEF Link, RightOwner
  <2>3. wrong' = wrong
    BY <1>1, <2>1, <2>2 DEF HandleBreach
  <2>. QED  BY <2>3 DEF BreachReachesOwner
<1>2. CASE HandleTurn \/ HandleAnswer
  <2>1. wrong' \subseteq wrong \union {"request", "error", "unknown", "freed"}
    BY <1>2 DEF HandleTurn, HandleAnswer, Finish, Respond, Flag
  <2>. QED  BY <2>1 DEF BreachReachesOwner
<1>3. CASE LocApiCall
  <2>. PICK c : c = Head(apiQ)
    OBVIOUS
  <2>1. Refuses(c) \/ \E hw \in HwId : Does(c, hw)
    BY <1>3, CallFlows DEF Base
  <2>2. wrong' \subseteq wrong \union {"refused"}
    BY <2>1 DEF Refuses, Does, Flag
  <2>. QED  BY <2>2 DEF BreachReachesOwner
<1>4. CASE Request
  BY <1>4, PostedFlows DEF Posted, BreachReachesOwner, Base
<1>5. CASE HandleCommand \/ HandleEngineUp \/ HandleRestarted \/ HandleRemoveClient
             \/ HandleStopped \/ Destroy \/ LocApiTurn \/ LocApiReopens \/ ModemRestart
             \/ ModemBreach \/ UNCHANGED vars
  <2>1. wrong' = wrong
    BY <1>5 DEF HandleCommand, HandleEngineUp, HandleRestarted, HandleRemoveClient,
       HandleStopped, Destroy, LocApiTurn, LocApiReopens, ModemRestart, ModemBreach, vars
  <2>. QED  BY <2>1 DEF BreachReachesOwner
<1>. QED  BY <1>1, <1>2, <1>3, <1>4, <1>5 DEF Next, Adapter

LEMMA ClientInit == ASSUME Init PROVE EngineInv /\ ClientInv /\ BreachReachesOwner
<1>1. /\ DOMAIN msgQ = {} /\ DOMAIN apiQ = {} /\ Len(msgQ) = 0 /\ engine = "up"
      /\ mGeofences = [hw \in HwId |-> None] /\ modem = [hw \in HwId |-> None]
      /\ mGeofenceIds = [s \in Session |-> 0] /\ wrong = {}
  BY DEF Init
<1>2. EngineInv /\ Staying /\ AgainInv
  BY <1>1 DEF EngineInv, Staying, AgainInv
<1>3. Resolves
  BY <1>1 DEF Resolves
<1>4. \E V : Mirror(V)
  <2>. PICK u : u = mGeofences
    OBVIOUS
  <2>. PICK V : V = [n \in Nat |-> u]
    OBVIOUS
  <2>1. V[0] = u
    OBVIOUS
  <2>2. u \in Table /\ Unique(u) /\ Keys(u) = {}
    BY <1>1, EmptyTable
  <2>3. Bounded(u)
    BY <2>2 DEF Bounded
  <2>4. Obeyed(u)
    BY <1>1 DEF Obeyed, Same
  <2>5. \A n \in 0..0 : n = 0
    OBVIOUS
  <2>6. Mirror(V)
    BY <1>1, <2>1, <2>2, <2>3, <2>4, <2>5 DEF Mirror
  <2>. QED  BY <2>6
<1>. QED  BY <1>1, <1>2, <1>3, <1>4 DEF ClientInv, BreachReachesOwner

\* The inductive invariant behind the tables
Mirrored == Base /\ LiveInv /\ EngineInv /\ ClientInv /\ BreachReachesOwner

LEMMA MirrorInvariant == Spec => []Mirrored
<1>1. Init => Mirrored
  BY BaseInit, ClientInit DEF Mirrored
<1>2. Mirrored /\ [Next]_vars => Mirrored'
  <2>. SUFFICES ASSUME Mirrored, [Next]_vars PROVE Mirrored'
    OBVIOUS
  <2>1. Base' /\ LiveInv'
    BY BaseNext DEF Mirrored
  <2>2. EngineInv' /\ ClientInv' /\ BreachReachesOwner'
    BY <2>1, EngineNext, ClientStep, BreachNext DEF Mirrored
  <2>. QED  BY <2>1, <2>2 DEF Mirrored
<1>. QED  BY <1>1, <1>2, PTL DEF Spec

\* The two maps agree while the client stays: the key of a geofence leads to the
\* geofence with that key, through removals, restarts of the modem and hwIds the
\* modem gives again.
THEOREM KeysAgree == Spec => []KeysResolve
<1>1. Mirrored => KeysResolve
  BY DEF Mirrored, ClientInv, Resolves, KeysResolve
<1>. QED  BY <1>1, MirrorInvariant, PTL

\* When nothing is under way the adapter's table is what the modem watches, also
\* after it restarted and the geofences were added again.
THEOREM TableMatchesModem == Spec => []AdapterMatchesModem
<1>1. Mirrored => AdapterMatchesModem
  <2>. SUFFICES ASSUME Mirrored, Quiet, client, NEW hw \in HwId
                PROVE  Same(mGeofences[hw], modem[hw])
    BY DEF AdapterMatchesModem, Same
  <2>1. PICK V : Mirror(V)
    BY DEF Mirrored, ClientInv
  <2>2. Len(msgQ) = 0 /\ engine = "up"
    BY DEF Quiet
  <2>3. V[0] = mGeofences /\ Obeyed(V[0])
    BY <2>1, <2>2, MirrorParts
  <2>4. Obeyed(mGeofences)
    BY <2>3
  <2>. QED  BY <2>2, <2>4 DEF Obeyed
<1>. QED  BY <1>1, MirrorInvariant, PTL

\* A breach is reported for the geofence that was breached, though it carries an
\* hwId only, which is resolved when its message is handled.
THEOREM BreachOwned == Spec => []BreachReachesOwner
<1>1. Mirrored => BreachReachesOwner
  BY DEF Mirrored
<1>. QED  BY <1>1, MirrorInvariant, PTL

=============================================================================

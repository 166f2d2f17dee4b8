------------------------- MODULE ClientRequestsProofs -------------------------
(***************************************************************************)
(* Proofs about ClientRequests, for any names of sessions and any number   *)
(* of requests.  An owner whose response the client waits for has one      *)
(* request under way.  It is in a queue, and then one of the calls under   *)
(* way has its number and the session its owner stands for, or the         *)
(* location API's thread has it in hand.  Sessions of different owners     *)
(* differ, and the sessions that calls made on the side are to stop belong *)
(* to no owner any more: so the session in a response tells the queue, and *)
(* the order of the calls tells the place in the queue.  A call that gets  *)
(* no answer and a second answer leave this as it is only where no request *)
(* is touched: else lost holds from then on.                               *)
(***************************************************************************)
EXTENDS ClientRequests, SequenceTheorems, TLAPS

USE ClientAssumption DEF ClientAssumption

(* Types that TypeOK leaves open *)
Op == {"start", "stop", "update", "get"}
Owner == Ids \union {"tracking"}
Adapters == {"GnssAdapter", "BatchingAdapter"}
CallRec == [op : Op, session : 0..MaxRequests, n : 0..MaxRequests, adapter : Adapters]
RequestRec == [op : Op, owner : Owner, n : Numbers]
EntityRec == [session : 0..MaxRequests, mode : Modes]

Handling == response.op # "none"
Looking == client.op # "none"

MapTo(f, S) == f \in [DOMAIN f -> S]

DictTyped ==
    /\ MapTo(forward, 0..MaxRequests) /\ DOMAIN forward \subseteq Ids
    /\ MapTo(backward, Ids) /\ DOMAIN backward \subseteq Numbers \union {0}
    /\ MapTo(ext, EntityRec) /\ DOMAIN ext = DOMAIN backward

CallTyped(c) == c \in CallRec /\ (c.op = "start" => c.session \in Numbers)
CallsTyped == calls \in Seq(CallRec) /\ \A j \in 1..Len(calls) : CallTyped(calls[j])
QueueTyped == queue \in [Queues -> Seq(RequestRec)]

CountTyped ==
    /\ mSession \in 0..MaxRequests /\ nextSession \in 1..(MaxRequests + 1)
    /\ requests \in 0..MaxRequests
    /\ mSession < nextSession /\ nextSession <= requests + 1

UserTyped ==
    /\ mTracking \in BOOLEAN /\ lost \in BOOLEAN /\ waits \in {"id", "all"}
    /\ waiting \subseteq Owner /\ believed \subseteq Owner /\ running \subseteq Numbers
    /\ restarts \subseteq [session : Numbers, n : 0..MaxRequests]

ThreadTyped ==
    /\ response.op \in Op \union {"none", "remove"}
    /\ Handling => response \in [op : Op \union {"remove"}, owner : Owner,
                                 session : 0..MaxRequests, error : BOOLEAN]
    /\ client.op \in {"none", "stop", "get", "update"}
    /\ Looking => /\ client \in [op : {"stop", "get", "update"}, id : Ids,
                                 mode : Modes \union {"none"}]
                  /\ client.op = "update" => client.mode \in Modes
                  /\ requests < MaxRequests

TypeInv == DictTyped /\ CallsTyped /\ QueueTyped /\ CountTyped /\ UserTyped /\ ThreadTyped

(* Where an owner's requests wait, and the session it stands for now *)
QueueOf(o) == IF o = "tracking" THEN "tracking" ELSE "session"
SessionOf(o) == IF o = "tracking" THEN mSession ELSE forward[o]

(* The maps agree, and name neither the tracking session nor one that is    *)
(* still to come; who is waited for has a session.                          *)
DictInv ==
    /\ \A id \in DOMAIN forward : forward[id] \in DOMAIN backward /\ backward[forward[id]] = id
    /\ \A s \in DOMAIN backward :
           /\ backward[s] \in DOMAIN forward /\ forward[backward[s]] = s
           /\ ext[s].session = s
           /\ 0 < s /\ s < nextSession /\ s # mSession
    /\ \A o \in waiting \ {"tracking"} : o \in DOMAIN forward
    /\ waits = "all" => \A o1, o2 \in waiting : o1 = o2

(* A call that answers a request is numbered like one in a queue; one on the *)
(* side stops a session that nobody names.  Numbers rise.                    *)
Calling(c) ==
    /\ c.session < nextSession /\ c.n <= requests
    /\ c.n = 0 => c.op = "stop" /\ c.session \notin DOMAIN backward /\ c.session # mSession
    /\ c.n # 0 => \E q \in Queues : \E k \in 1..Len(queue[q]) : queue[q][k].n = c.n

CallInv ==
    /\ \A j \in 1..Len(calls) : Calling(calls[j])
    /\ \A i, j \in 1..Len(calls) : i < j /\ calls[i].n # 0 /\ calls[j].n # 0
                                        => calls[i].n < calls[j].n

(* A request in a queue has an owner that waits, and a call under way for    *)
(* the session of that owner.                                                *)
Entry(e, q) ==
    /\ e.owner \in waiting /\ QueueOf(e.owner) = q
    /\ e.n <= requests
    /\ \E j \in 1..Len(calls) :
           /\ calls[j].n = e.n /\ calls[j].session = SessionOf(e.owner)
           /\ e.op \in {"start", "stop"} => calls[j].op = e.op

QueueInv ==
    \A q \in Queues :
        /\ \A k \in 1..Len(queue[q]) : Entry(queue[q][k], q)
        /\ \A k, l \in 1..Len(queue[q]) : k < l =>
               queue[q][k].n < queue[q][l].n /\ queue[q][k].owner # queue[q][l].owner

(* The response in hand is for an owner that waits and has no request in a   *)
(* queue, until the client is told; then for a session it takes to be ended. *)
ResponseInv ==
    Handling =>
    /\ response.session < nextSession
    /\ \A j \in 1..Len(calls) : calls[j].op = "start" => calls[j].session # response.session
    /\ response.op # "remove" =>
           /\ response.owner \in waiting /\ response.session = SessionOf(response.owner)
           /\ \A q \in Queues : \A k \in 1..Len(queue[q]) : queue[q][k].owner # response.owner
    /\ response.op = "remove" /\ response.session \in DOMAIN backward =>
           backward[response.session] \notin believed \union waiting
    /\ response.op = "start" /\ response.error => response.session \notin running
    /\ response.op = "stop" /\ ~response.error => response.session \notin running
    /\ response.op = "remove" => response.session \notin running

(* The session of the request that is being made stays.                      *)
ClientInv ==
    Looking => /\ client.id \in DOMAIN forward /\ client.id \in believed
               /\ client.id \notin waiting /\ (waits = "all" => waiting = {})

(* What runs is named, or about to be stopped.                               *)
RunningInv ==
    /\ \A s \in running :
          \/ s \in DOMAIN backward
          \/ s = mSession /\ mTracking
          \/ \E j \in 1..Len(calls) : calls[j].op = "stop" /\ calls[j].session = s
    /\ \A s \in running : s < nextSession
    /\ \A j \in 1..Len(calls) : calls[j].op = "start" =>
           /\ calls[j].session \notin running
           /\ calls[j].session = mSession => mTracking

(* The request last taken was the one answered.                              *)
DeliveryInv == delivery.request # 0 => delivery.request = delivery.call

Orderly == DictInv /\ CallInv /\ QueueInv /\ ResponseInv /\ ClientInv /\ RunningInv /\ DeliveryInv

Inv == lost \/ Orderly

-----------------------------------------------------------------------------
(* Functions, sequences and the operators of the model *)

LEMMA WithFacts ==
    ASSUME NEW f, NEW x, NEW y
    PROVE  /\ DOMAIN With(f, x, y) = DOMAIN f \union {x} /\ With(f, x, y)[x] = y
           /\ \A z \in DOMAIN f : z # x => With(f, x, y)[z] = f[z]
  BY DEF With

LEMMA WithDomain ==
    ASSUME NEW f, NEW x, NEW y
    PROVE  DOMAIN With(f, x, y) = DOMAIN f \union {x}
  BY DEF With

LEMMA WithTyped ==
    ASSUME NEW S, NEW f, MapTo(f, S), NEW x, NEW y \in S
    PROVE  MapTo(With(f, x, y), S)
  BY DEF With, MapTo

LEMMA WithoutFacts ==
    ASSUME NEW f, NEW x
    PROVE  /\ DOMAIN Without(f, x) = DOMAIN f \ {x}
           /\ \A z \in DOMAIN f : z # x => Without(f, x)[z] = f[z]
  BY DEF Without

LEMMA WithoutDomain ==
    ASSUME NEW f, NEW x
    PROVE  DOMAIN Without(f, x) = DOMAIN f \ {x}
  BY DEF Without

LEMMA WithoutTyped ==
    ASSUME NEW S, NEW f, MapTo(f, S), NEW x
    PROVE  MapTo(Without(f, x), S)
  BY DEF Without, MapTo

LEMMA MapValue ==
    ASSUME NEW S, NEW f, MapTo(f, S), NEW x \in DOMAIN f
    PROVE  f[x] \in S
  BY DEF MapTo

LEMMA AppendFacts ==
    ASSUME NEW S, NEW q \in Seq(S), NEW e \in S
    PROVE  /\ Append(q, e) \in Seq(S) /\ Len(Append(q, e)) = Len(q) + 1 /\ Len(q) \in Nat
           /\ Append(q, e)[Len(q) + 1] = e
           /\ \A i \in 1..Len(q) : Append(q, e)[i] = q[i]
  OBVIOUS

LEMMA TailFacts ==
    ASSUME NEW S, NEW q \in Seq(S), q # <<>>
    PROVE  /\ Tail(q) \in Seq(S) /\ Len(Tail(q)) = Len(q) - 1
           /\ Len(q) \in Nat /\ Len(q) > 0 /\ Head(q) = q[1] /\ Head(q) \in S
           /\ \A i \in 1..Len(Tail(q)) : i + 1 \in 1..Len(q) /\ Tail(q)[i] = q[i + 1]
  OBVIOUS

Rest(q, i) == SubSeq(q, 1, i - 1) \o SubSeq(q, i + 1, Len(q))

\* Where the j-th element of q is once the i-th is gone, and what was at j
After(i, j) == IF j < i THEN j ELSE j - 1
Before(i, j) == IF j < i THEN j ELSE j + 1

LEMMA RestFacts ==
    ASSUME NEW S, NEW q \in Seq(S), NEW i \in 1..Len(q)
    PROVE  /\ Rest(q, i) \in Seq(S) /\ Len(Rest(q, i)) = Len(q) - 1 /\ Len(q) \in Nat
           /\ \A j \in 1..Len(Rest(q, i)) :
                  /\ Before(i, j) \in 1..Len(q) /\ Before(i, j) # i
                  /\ Rest(q, i)[j] = q[Before(i, j)]
           /\ \A j \in 1..Len(q) : j # i =>
                  After(i, j) \in 1..Len(Rest(q, i)) /\ Rest(q, i)[After(i, j)] = q[j]
<1>. DEFINE a == SubSeq(q, 1, i - 1)
            b == SubSeq(q, i + 1, Len(q))
<1>1. /\ a \in Seq(S) /\ Len(a) = i - 1
      /\ \A j \in 1..(i - 1) : a[j] = q[j]
  BY SubSeqProperties
<1>2. /\ b \in Seq(S) /\ Len(b) = Len(q) - i
      /\ \A j \in 1..(Len(q) - i) : b[j] = q[i + j]
  BY SubSeqProperties
<1>. HIDE DEF a, b
<1>3. /\ a \o b \in Seq(S) /\ Len(a \o b) = Len(q) - 1
      /\ \A j \in 1..Len(a \o b) : (a \o b)[j] = IF j <= Len(a) THEN a[j] ELSE b[j - Len(a)]
  <2>1. /\ a \o b \in Seq(S) /\ Len(a \o b) = Len(a) + Len(b)
        /\ \A j \in 1..(Len(a) + Len(b)) :
               (a \o b)[j] = IF j <= Len(a) THEN a[j] ELSE b[j - Len(a)]
    BY <1>1, <1>2, ConcatProperties
  <2>2. Len(a) + Len(b) = Len(q) - 1
    BY <1>1, <1>2
  <2>. QED  BY <2>1, <2>2
<1>4. \A j \in 1..(Len(q) - 1) : (a \o b)[j] = IF j < i THEN q[j] ELSE q[j + 1]
  <2>. SUFFICES ASSUME NEW j \in 1..(Len(q) - 1)
                PROVE  (a \o b)[j] = IF j < i THEN q[j] ELSE q[j + 1]
    OBVIOUS
  <2>1. CASE j < i
    BY <2>1, <1>1, <1>3
  <2>2. CASE ~(j < i)
    <3>1. j - Len(a) \in 1..(Len(q) - i) /\ i + (j - Len(a)) = j + 1 /\ ~(j <= Len(a))
      BY <2>2, <1>1
    <3>2. (a \o b)[j] = b[j - Len(a)]
      BY <3>1, <1>3
    <3>3. b[j - Len(a)] = q[i + (j - Len(a))]
      BY <3>1, <1>2
    <3>. QED  BY <2>2, <3>1, <3>2, <3>3
  <2>. QED  BY <2>1, <2>2
<1>. DEFINE r == Rest(q, i)
<1>0. r = a \o b
  BY DEF Rest, a, b
<1>. HIDE DEF r
<1>5. /\ r \in Seq(S) /\ Len(r) = Len(q) - 1 /\ Len(q) \in Nat
      /\ \A j \in 1..(Len(q) - 1) : r[j] = IF j < i THEN q[j] ELSE q[j + 1]
  BY <1>0, <1>3, <1>4
<1>6. \A j \in 1..Len(r) :
          /\ Before(i, j) \in 1..Len(q) /\ Before(i, j) # i
          /\ r[j] = q[Before(i, j)]
  BY <1>5 DEF Before
<1>7. ASSUME NEW j \in 1..Len(q), j # i
      PROVE  After(i, j) \in 1..Len(r) /\ r[After(i, j)] = q[j]
  <2>1. After(i, j) \in 1..(Len(q) - 1) /\ (j < i \/ (j > i /\ After(i, j) + 1 = j))
    BY <1>5, <1>7 DEF After
  <2>2. CASE j < i
    BY <2>1, <2>2, <1>5 DEF After
  <2>3. CASE j > i
    BY <2>1, <2>3, <1>5 DEF After
  <2>. QED  BY <2>1, <2>2, <2>3
<1>. QED  BY <1>5, <1>6, <1>7 DEF r

-----------------------------------------------------------------------------
(* Types *)

LEMMA TypesImplyTypeOK == TypeInv => TypeOK
<1>. SUFFICES ASSUME TypeInv
              PROVE  TypeOK
  OBVIOUS
<1>1. queue \in [Queues -> Seq([op : {"start", "stop", "update", "get"},
                                owner : Ids \union {"tracking"}, n : Numbers])]
  BY DEF TypeInv, QueueTyped, RequestRec, Owner, Op
<1>. QED  BY <1>1 DEF TypeInv, DictTyped, CountTyped, UserTyped, Owner, TypeOK

LEMMA TypeInit == Init => TypeInv
<1>. SUFFICES ASSUME Init
              PROVE  TypeInv
  OBVIOUS
<1>1. DictTyped
  BY DEF Init, DictTyped, MapTo
<1>2. CallsTyped
  BY DEF Init, CallsTyped
<1>3. QueueTyped
  BY DEF Init, Queues, QueueTyped
<1>4. CountTyped
  BY DEF Init, CountTyped
<1>5. UserTyped
  BY DEF Init, UserTyped
<1>6. ThreadTyped
  BY DEF Init, ThreadTyped, Handling, Looking
<1>. QED  BY <1>1, <1>2, <1>3, <1>4, <1>5, <1>6 DEF TypeInv

LEMMA PushTyped ==
    ASSUME TypeInv, NEW q \in Queues, NEW r \in RequestRec, Push(q, r)
    PROVE  QueueTyped'
<1>1. queue[q] \in Seq(RequestRec)
  BY DEF TypeInv, QueueTyped
<1>2. Append(queue[q], r) \in Seq(RequestRec)
  BY <1>1, AppendFacts
<1>. QED  BY <1>2 DEF Push, TypeInv, QueueTyped

LEMMA CalledTyped ==
    ASSUME NEW q \in Seq(CallRec), \A j \in 1..Len(q) : CallTyped(q[j]), NEW c, CallTyped(c)
    PROVE  Append(q, c) \in Seq(CallRec) /\ \A j \in 1..Len(Append(q, c)) : CallTyped(Append(q, c)[j])
<1>1. c \in CallRec
  BY DEF CallTyped
<1>. QED  BY <1>1, AppendFacts

LEMMA Counts ==
    ASSUME TypeInv
    PROVE  /\ requests \in 0..MaxRequests /\ nextSession \in 1..(MaxRequests + 1)
           /\ nextSession <= requests + 1 /\ mSession \in 0..MaxRequests /\ mSession < nextSession
           /\ requests < MaxRequests => nextSession \in Numbers /\ requests + 1 \in Numbers
  BY DEF TypeInv, CountTyped, Numbers

LEMMA AskedTyped ==
    ASSUME TypeInv, NEW o \in Owner, requests < MaxRequests, NEW op \in Op,
           Push(QueueOf(o), Request(op, o)), NEW c, CallTyped(c),
           \/ calls' = Append(calls, c)
           \/ \E z : CallTyped(z) /\ calls' = Append(Append(calls, z), c)
    PROVE  QueueTyped' /\ CallsTyped'
<1>1. Request(op, o) \in RequestRec /\ QueueOf(o) \in Queues
  BY Counts DEF Request, RequestRec, QueueOf, Queues
<1>2. QueueTyped'
  BY <1>1, PushTyped
<1>3. CallsTyped'
  <2>1. CASE calls' = Append(calls, c)
    BY <2>1, CalledTyped DEF TypeInv, CallsTyped
  <2>2. CASE \E z : CallTyped(z) /\ calls' = Append(Append(calls, z), c)
    <3>1. PICK z : CallTyped(z) /\ calls' = Append(Append(calls, z), c)
      BY <2>2
    <3>. DEFINE q == Append(calls, z)
    <3>2. q \in Seq(CallRec) /\ \A j \in 1..Len(q) : CallTyped(q[j])
      BY <3>1, CalledTyped DEF TypeInv, CallsTyped
    <3>. HIDE DEF q
    <3>3. Append(q, c) \in Seq(CallRec) /\ \A j \in 1..Len(Append(q, c)) : CallTyped(Append(q, c)[j])
      BY <3>2, CalledTyped
    <3>. QED  BY <3>1, <3>3 DEF CallsTyped, q
  <2>. QED  BY <2>1, <2>2
<1>. QED  BY <1>2, <1>3

LEMMA EntityTyped ==
    ASSUME TypeInv, NEW id
    PROVE  Entity(id) \in [session : 0..MaxRequests, mode : Modes \union {"none"}]
<1>1. CASE id \in DOMAIN forward /\ forward[id] \in DOMAIN ext
  <2>1. Entity(id) \in EntityRec
    BY <1>1, MapValue DEF Entity, TypeInv, DictTyped
  <2>. QED  BY <2>1 DEF EntityRec
<1>2. CASE ~(id \in DOMAIN forward /\ forward[id] \in DOMAIN ext)
  BY <1>2 DEF Entity, NoEntity
<1>. QED  BY <1>1, <1>2

LEMMA GotTyped ==
    ASSUME TypeInv, NEW id \in Ids
    PROVE  /\ DOMAIN Got(id) = DOMAIN forward \union {id}
           /\ MapTo(Got(id), 0..MaxRequests)
           /\ DOMAIN Got(id) \subseteq Ids
<1>1. DictTyped
  BY DEF TypeInv
<1>2. CASE id \in DOMAIN forward
  <2>1. Got(id) = forward
    BY <1>2 DEF Got
  <2>. QED  BY <1>1, <1>2, <2>1 DEF DictTyped
<1>3. CASE id \notin DOMAIN forward
  <2>1. Got(id) = With(forward, id, 0) /\ 0 \in 0..MaxRequests
    BY <1>3 DEF Got
  <2>2. MapTo(Got(id), 0..MaxRequests)
    BY <1>1, <2>1, WithTyped DEF DictTyped
  <2>3. DOMAIN Got(id) = DOMAIN forward \union {id}
    BY <2>1, WithDomain
  <2>. QED  BY <1>1, <2>2, <2>3 DEF DictTyped
<1>. QED  BY <1>2, <1>3

LEMMA RemovedTyped ==
    ASSUME DictTyped, NEW x, NEW y
    PROVE  /\ MapTo(Without(forward, x), 0..MaxRequests) /\ DOMAIN Without(forward, x) \subseteq Ids
           /\ MapTo(Without(backward, y), Ids) /\ MapTo(Without(ext, y), EntityRec)
           /\ DOMAIN Without(backward, y) \subseteq Numbers \union {0}
           /\ DOMAIN Without(ext, y) = DOMAIN Without(backward, y)
<1>1. MapTo(Without(forward, x), 0..MaxRequests)
  BY WithoutTyped DEF DictTyped
<1>2. MapTo(Without(backward, y), Ids)
  BY WithoutTyped DEF DictTyped
<1>3. MapTo(Without(ext, y), EntityRec)
  BY WithoutTyped DEF DictTyped
<1>4. DOMAIN Without(forward, x) \subseteq Ids
  BY DEF Without, DictTyped
<1>5. DOMAIN Without(backward, y) \subseteq Numbers \union {0}
  BY DEF Without, DictTyped
<1>6. DOMAIN Without(ext, y) = DOMAIN Without(backward, y)
  BY DEF Without, DictTyped
<1>. QED  BY <1>1, <1>2, <1>3, <1>4, <1>5, <1>6

LEMMA AddedTyped ==
    ASSUME NEW f, MapTo(f, 0..MaxRequests), DOMAIN f \subseteq Ids, NEW id \in Ids,
           NEW b, MapTo(b, Ids), DOMAIN b \subseteq Numbers \union {0}, NEW s \in 0..MaxRequests,
           NEW x, MapTo(x, EntityRec), DOMAIN x = DOMAIN b, NEW e \in EntityRec
    PROVE  /\ MapTo(With(f, id, s), 0..MaxRequests) /\ DOMAIN With(f, id, s) \subseteq Ids
           /\ MapTo(With(b, s, id), Ids) /\ MapTo(With(x, s, e), EntityRec)
           /\ DOMAIN With(b, s, id) \subseteq Numbers \union {0}
           /\ DOMAIN With(x, s, e) = DOMAIN With(b, s, id)
<1>1. MapTo(With(f, id, s), 0..MaxRequests)
  BY WithTyped
<1>2. MapTo(With(b, s, id), Ids)
  BY WithTyped
<1>3. MapTo(With(x, s, e), EntityRec)
  BY WithTyped
<1>4. DOMAIN With(f, id, s) \subseteq Ids
  BY DEF With
<1>5. DOMAIN With(b, s, id) \subseteq Numbers \union {0}
  BY DEF With, Numbers
<1>6. DOMAIN With(x, s, e) = DOMAIN With(b, s, id)
  BY DEF With
<1>. QED  BY <1>1, <1>2, <1>3, <1>4, <1>5, <1>6

LEMMA RmTyped ==
    ASSUME TypeInv, NEW s, RmBySession(s)
    PROVE  DictTyped'
<1>1. DictTyped
  BY DEF TypeInv
<1>2. CASE s \in DOMAIN backward
  <2>1. /\ forward' = Without(forward, backward[s])
        /\ backward' = Without(backward, s) /\ ext' = Without(ext, s)
    BY <1>2 DEF RmBySession
  <2>. QED  BY <1>1, <2>1, RemovedTyped DEF DictTyped
<1>3. CASE s \notin DOMAIN backward
  BY <1>1, <1>3 DEF RmBySession, dict, DictTyped
<1>. QED  BY <1>2, <1>3

LEMMA SetTyped ==
    ASSUME TypeInv, NEW id \in Ids, NEW s \in 0..MaxRequests, NEW e \in EntityRec,
           Set(id, s, e) \/ Replace(id, s, e)
    PROVE  DictTyped'
<1>1. DictTyped
  BY DEF TypeInv
<1>2. CASE Set(id, s, e)
  <2>1. /\ forward' = With(forward, id, s) /\ backward' = With(backward, s, id)
        /\ ext' = With(ext, s, e)
    BY <1>2 DEF Set
  <2>2. /\ MapTo(forward', 0..MaxRequests) /\ DOMAIN forward' \subseteq Ids
        /\ MapTo(backward', Ids) /\ MapTo(ext', EntityRec)
        /\ DOMAIN backward' \subseteq Numbers \union {0}
        /\ DOMAIN ext' = DOMAIN backward'
    BY <1>1, <2>1, AddedTyped DEF DictTyped
  <2>. QED  BY <2>2 DEF DictTyped
<1>3. CASE Replace(id, s, e)
  <2>. DEFINE b == Without(backward, Got(id)[id])
              x == Without(ext, Got(id)[id])
  <2>1. /\ forward' = With(forward, id, s) /\ backward' = With(b, s, id) /\ ext' = With(x, s, e)
    BY <1>3 DEF Replace
  <2>2. /\ MapTo(b, Ids) /\ DOMAIN b \subseteq Numbers \union {0}
        /\ MapTo(x, EntityRec) /\ DOMAIN x = DOMAIN b
    BY <1>1, RemovedTyped
  <2>. HIDE DEF b, x
  <2>3. /\ MapTo(forward', 0..MaxRequests) /\ DOMAIN forward' \subseteq Ids
        /\ MapTo(backward', Ids) /\ MapTo(ext', EntityRec)
        /\ DOMAIN backward' \subseteq Numbers \union {0}
        /\ DOMAIN ext' = DOMAIN backward'
    BY <1>1, <2>1, <2>2, AddedTyped DEF DictTyped
  <2>. QED  BY <2>3 DEF DictTyped
<1>. QED  BY <1>2, <1>3


LEMMA TypeStartTracking == TypeInv /\ LocAPIStartTracking => TypeInv'
<1>. SUFFICES ASSUME TypeInv, LocAPIStartTracking
              PROVE  TypeInv'
  OBVIOUS
<1>. DEFINE r == Request("start", "tracking")
            c == Call("start", nextSession, requests + 1, "fix")
<1>1. /\ client.op = "none" /\ requests < MaxRequests /\ requests' = requests + 1
      /\ mSession' = nextSession /\ nextSession' = nextSession + 1
      /\ queue' = [queue EXCEPT !["tracking"] = <<r>>] /\ calls' = Append(calls, c)
      /\ mTracking' = TRUE /\ waiting' = waiting \union {"tracking"}
      /\ UNCHANGED <<dict, client, response, running, restarts, waits, believed, lost>>
  BY DEF LocAPIStartTracking, Free, Asks, Made
<1>2. r \in RequestRec /\ CallTyped(c)
  BY <1>1, Counts DEF Request, RequestRec, Owner, Op, Call, CallTyped, CallRec, Adapters, Numbers
<1>. HIDE DEF r, c
<1>3. QueueTyped'
  <2>1. <<r>> \in Seq(RequestRec)
    BY <1>2
  <2>. QED  BY <1>1, <2>1 DEF TypeInv, QueueTyped
<1>4. CallsTyped'
  BY <1>1, <1>2, CalledTyped DEF TypeInv, CallsTyped
<1>5. DictTyped' /\ ThreadTyped'
  BY <1>1 DEF TypeInv, DictTyped, dict, ThreadTyped, Handling, Looking
<1>6. CountTyped'
  BY <1>1, Counts DEF CountTyped, Numbers
<1>7. UserTyped'
  BY <1>1 DEF TypeInv, UserTyped, Owner
<1>. QED  BY <1>3, <1>4, <1>5, <1>6, <1>7 DEF TypeInv

LEMMA TypeStopTracking == TypeInv /\ LocAPIStopTracking => TypeInv'
<1>. SUFFICES ASSUME TypeInv, LocAPIStopTracking
              PROVE  TypeInv'
  OBVIOUS
<1>. DEFINE c == Call("stop", mSession, requests + 1, "fix")
<1>1. /\ client.op = "none" /\ requests < MaxRequests /\ requests' = requests + 1
      /\ mTracking' = FALSE /\ waiting' = waiting \union {"tracking"}
      /\ Push("tracking", Request("stop", "tracking")) /\ calls' = Append(calls, c)
      /\ UNCHANGED <<mSession, nextSession, dict, client, response, running, restarts, waits,
                     believed, lost>>
  BY DEF LocAPIStopTracking, Free, Asks, Made
<1>2. CallTyped(c) /\ "tracking" \in Owner /\ "stop" \in Op /\ QueueOf("tracking") = "tracking"
  BY <1>1, Counts DEF Owner, Op, Call, CallTyped, CallRec, Adapters, Numbers, QueueOf
<1>. HIDE DEF c
<1>3. QueueTyped' /\ CallsTyped'
  BY <1>1, <1>2, AskedTyped
<1>4. DictTyped' /\ ThreadTyped'
  BY <1>1 DEF TypeInv, DictTyped, dict, ThreadTyped, Handling, Looking
<1>5. CountTyped'
  BY <1>1, Counts DEF CountTyped, Numbers
<1>6. UserTyped'
  BY <1>1 DEF TypeInv, UserTyped, Owner
<1>. QED  BY <1>3, <1>4, <1>5, <1>6 DEF TypeInv

LEMMA TypeUpdateTracking == TypeInv /\ LocAPIUpdateTrackingOptions => TypeInv'
<1>. SUFFICES ASSUME TypeInv, LocAPIUpdateTrackingOptions
              PROVE  TypeInv'
  OBVIOUS
<1>. DEFINE c == Call("update", mSession, requests + 1, "fix")
<1>1. /\ client.op = "none" /\ requests < MaxRequests /\ requests' = requests + 1
      /\ waiting' = waiting \union {"tracking"}
      /\ Push("tracking", Request("update", "tracking")) /\ calls' = Append(calls, c)
      /\ UNCHANGED <<mTracking, mSession, nextSession, dict, client, response, running,
                     restarts, waits, believed, lost>>
  BY DEF LocAPIUpdateTrackingOptions, Free, Asks, Made
<1>2. CallTyped(c) /\ "tracking" \in Owner /\ "update" \in Op /\ QueueOf("tracking") = "tracking"
  BY <1>1, Counts DEF Owner, Op, Call, CallTyped, CallRec, Adapters, Numbers, QueueOf
<1>. HIDE DEF c
<1>3. QueueTyped' /\ CallsTyped'
  BY <1>1, <1>2, AskedTyped
<1>4. DictTyped' /\ ThreadTyped'
  BY <1>1 DEF TypeInv, DictTyped, dict, ThreadTyped, Handling, Looking
<1>5. CountTyped'
  BY <1>1, Counts DEF CountTyped, Numbers
<1>6. UserTyped'
  BY <1>1 DEF TypeInv, UserTyped, Owner
<1>. QED  BY <1>3, <1>4, <1>5, <1>6 DEF TypeInv

LEMMA IdFacts ==
    ASSUME NEW id \in Ids
    PROVE  id \in Owner /\ id # "tracking" /\ QueueOf(id) = "session"
  BY DEF Owner, QueueOf

LEMMA TypeStartSession ==
    ASSUME TypeInv, NEW id \in Ids, NEW mode \in Modes, LocAPIStartSession(id, mode)
    PROVE  TypeInv'
<1>. DEFINE c == Call("start", nextSession, requests + 1, mode)
            e == [session |-> nextSession, mode |-> mode]
<1>1. /\ client.op = "none" /\ requests < MaxRequests /\ requests' = requests + 1
      /\ waiting' = waiting \union {id} /\ nextSession' = nextSession + 1
      /\ Push("session", Request("start", id)) /\ calls' = Append(calls, c)
      /\ Set(id, nextSession, e)
      /\ UNCHANGED <<mTracking, mSession, client, response, running, restarts, waits, believed,
                     lost>>
  BY DEF LocAPIStartSession, Free, Asks, Made
<1>2. /\ CallTyped(c) /\ "start" \in Op
      /\ e \in EntityRec /\ nextSession \in 0..MaxRequests
  BY <1>1, Counts DEF Op, Call, CallTyped, CallRec, Adapters, Numbers, EntityRec
<1>. HIDE DEF c, e
<1>3. QueueTyped' /\ CallsTyped'
  BY <1>1, <1>2, AskedTyped, IdFacts
<1>4. DictTyped'
  BY <1>1, <1>2, SetTyped
<1>5. ThreadTyped'
  BY <1>1 DEF TypeInv, ThreadTyped, Handling, Looking
<1>6. CountTyped'
  BY <1>1, Counts DEF CountTyped, Numbers
<1>7. UserTyped'
  BY <1>1, IdFacts DEF TypeInv, UserTyped
<1>. QED  BY <1>3, <1>4, <1>5, <1>6, <1>7 DEF TypeInv

LEMMA TypeLookUp ==
    ASSUME TypeInv, NEW id \in Ids, NEW op \in {"stop", "get", "update"},
           NEW mode \in Modes \union {"none"}, op = "update" => mode \in Modes,
           LookUp(op, id, mode)
    PROVE  TypeInv'
<1>1. /\ requests < MaxRequests
      /\ client' = [op |-> op, id |-> id, mode |-> mode]
      /\ UNCHANGED <<mTracking, mSession, queue, dict, nextSession, response, calls, running,
                     restarts, waits, requests, waiting, believed, lost>>
  BY DEF LookUp, library, user, Asks
<1>2. ThreadTyped'
  BY <1>1 DEF TypeInv, ThreadTyped, Handling, Looking
<1>3. DictTyped' /\ CallsTyped' /\ QueueTyped' /\ CountTyped' /\ UserTyped'
  BY <1>1 DEF TypeInv, DictTyped, dict, CallsTyped, QueueTyped, CountTyped, UserTyped
<1>. QED  BY <1>2, <1>3 DEF TypeInv

\* The request the client's thread is making
LEMMA MakingTyped ==
    ASSUME TypeInv, NEW op \in {"stop", "get", "update"}, Making(op), response' = response
    PROVE  /\ requests < MaxRequests
           /\ client.id \in Ids /\ (op = "update" => client.mode \in Modes)
           /\ Entity(client.id).session \in 0..MaxRequests /\ ThreadTyped'
<1>1. client.op = op /\ client' = [op |-> "none"] /\ Looking
  BY DEF Making, Looking
<1>2. requests < MaxRequests /\ client.id \in Ids /\ (op = "update" => client.mode \in Modes)
  BY <1>1 DEF TypeInv, ThreadTyped
<1>3. ThreadTyped'
  BY <1>1 DEF TypeInv, ThreadTyped, Handling, Looking
<1>4. Entity(client.id).session \in 0..MaxRequests
  BY EntityTyped
<1>. QED  BY <1>2, <1>3, <1>4

\* What getExtById leaves
LEMMA GotDict ==
    ASSUME TypeInv, NEW id \in Ids, forward' = Got(id), UNCHANGED <<backward, ext>>
    PROVE  DictTyped'
  BY GotTyped DEF TypeInv, DictTyped

LEMMA TypeStopSession == TypeInv /\ LocAPIStopSession => TypeInv'
<1>. SUFFICES ASSUME TypeInv, LocAPIStopSession
              PROVE  TypeInv'
  OBVIOUS
<1>. DEFINE id == client.id
            c == Call("stop", Entity(id).session, requests + 1, Entity(id).mode)
<1>1. /\ Making("stop") /\ requests' = requests + 1 /\ waiting' = waiting \union {id}
      /\ Push("session", Request("stop", id)) /\ calls' = Append(calls, c)
      /\ forward' = Got(id) /\ UNCHANGED <<backward, ext>>
      /\ UNCHANGED <<mTracking, mSession, nextSession, response, running, restarts, waits,
                     believed, lost>>
  BY DEF LocAPIStopSession, Made
<1>2. requests < MaxRequests /\ id \in Ids /\ Entity(id).session \in 0..MaxRequests /\ ThreadTyped'
  BY <1>1, MakingTyped
<1>3. CallTyped(c) /\ "stop" \in Op
  BY <1>2, Counts DEF Op, Call, CallTyped, CallRec, Adapters, Numbers
<1>. HIDE DEF id, c
<1>4. QueueTyped' /\ CallsTyped'
  BY <1>1, <1>2, <1>3, AskedTyped, IdFacts
<1>5. DictTyped'
  BY <1>1, <1>2, GotDict
<1>6. CountTyped'
  BY <1>1, <1>2, Counts DEF CountTyped, Numbers
<1>7. UserTyped'
  BY <1>1, <1>2, IdFacts DEF TypeInv, UserTyped
<1>. QED  BY <1>2, <1>4, <1>5, <1>6, <1>7 DEF TypeInv

LEMMA TypeGet == TypeInv /\ LocAPIGetBatchedLocations => TypeInv'
<1>. SUFFICES ASSUME TypeInv, LocAPIGetBatchedLocations
              PROVE  TypeInv'
  OBVIOUS
<1>. DEFINE id == client.id
            c == Call("get", Entity(id).session, requests + 1, Entity(id).mode)
<1>1. /\ Making("get") /\ forward' = Got(id) /\ UNCHANGED <<backward, ext>>
      /\ UNCHANGED <<mTracking, mSession, nextSession, response, running, restarts, waits,
                     believed, lost>>
      /\ \/ /\ requests' = requests + 1 /\ waiting' = waiting \union {id}
            /\ Push("session", Request("get", id)) /\ calls' = Append(calls, c)
         \/ UNCHANGED <<queue, calls, requests, waiting>>
  BY DEF LocAPIGetBatchedLocations, Made, user
<1>2. requests < MaxRequests /\ id \in Ids /\ Entity(id).session \in 0..MaxRequests /\ ThreadTyped'
  BY <1>1, MakingTyped
<1>3. CallTyped(c) /\ "get" \in Op
  BY <1>2, Counts DEF Op, Call, CallTyped, CallRec, Adapters, Numbers
<1>. HIDE DEF id, c
<1>4. QueueTyped' /\ CallsTyped'
  <2>1. CASE Push("session", Request("get", id)) /\ calls' = Append(calls, c)
    BY <2>1, <1>2, <1>3, AskedTyped, IdFacts
  <2>2. CASE UNCHANGED <<queue, calls>>
    BY <2>2 DEF TypeInv, QueueTyped, CallsTyped
  <2>. QED  BY <1>1, <2>1, <2>2
<1>5. DictTyped'
  BY <1>1, <1>2, GotDict
<1>6. CountTyped'
  BY <1>1, <1>2, Counts DEF CountTyped, Numbers
<1>7. UserTyped'
  BY <1>1, <1>2, IdFacts DEF TypeInv, UserTyped
<1>. QED  BY <1>2, <1>4, <1>5, <1>6, <1>7 DEF TypeInv

LEMMA TypeUpdateSession == TypeInv /\ LocAPIUpdateSessionOptions => TypeInv'
<1>. SUFFICES ASSUME TypeInv, LocAPIUpdateSessionOptions
              PROVE  TypeInv'
  OBVIOUS
<1>. DEFINE id == client.id
            entity == Entity(id)
            switch == (entity.mode = "fix") # (client.mode = "fix")
            s == IF switch THEN nextSession ELSE entity.session
            z == Call("stop", entity.session, 0, entity.mode)
            c == Call(IF switch THEN "start" ELSE "update", s, requests + 1, client.mode)
            e == [session |-> s, mode |-> client.mode]
<1>1. /\ Making("update") /\ requests' = requests + 1 /\ waiting' = waiting \union {id}
      /\ Push("session", Request("update", id))
      /\ calls' = calls \o IF switch THEN <<z, c>> ELSE <<c>>
      /\ nextSession' = IF switch THEN nextSession + 1 ELSE nextSession
      /\ Replace(id, s, e)
      /\ UNCHANGED <<mTracking, mSession, response, running, restarts, waits, believed, lost>>
  BY DEF LocAPIUpdateSessionOptions, Made
<1>2. /\ requests < MaxRequests /\ id \in Ids /\ client.mode \in Modes
      /\ entity.session \in 0..MaxRequests /\ ThreadTyped'
  BY <1>1, MakingTyped
<1>3. s \in 0..MaxRequests /\ (switch => s \in Numbers)
  BY <1>2, Counts DEF Numbers
<1>4. CallTyped(z) /\ CallTyped(c) /\ e \in EntityRec /\ "update" \in Op
  BY <1>2, <1>3, Counts DEF Op, Call, CallTyped, CallRec, Adapters, Numbers, EntityRec
<1>5. calls' = Append(calls, c) \/ calls' = Append(Append(calls, z), c)
  BY <1>1, <1>4 DEF TypeInv, CallsTyped, CallTyped
<1>6. nextSession' \in {nextSession, nextSession + 1}
  BY <1>1
<1>. HIDE DEF id, entity, switch, s, z, c, e
<1>7. QueueTyped' /\ CallsTyped'
  BY <1>1, <1>2, <1>4, <1>5, AskedTyped, IdFacts
<1>8. DictTyped'
  BY <1>1, <1>2, <1>3, <1>4, SetTyped
<1>9. CountTyped'
  BY <1>1, <1>2, <1>6, Counts DEF CountTyped, Numbers
<1>10. UserTyped'
  BY <1>1, <1>2, IdFacts DEF TypeInv, UserTyped
<1>. QED  BY <1>2, <1>7, <1>8, <1>9, <1>10 DEF TypeInv

\* What a call that is done leaves
LEMMA DoneWithFacts ==
    ASSUME TypeInv, NEW i \in DOMAIN calls, DoneWith(i)
    PROVE  /\ i \in 1..Len(calls) /\ CallTyped(calls[i])
           /\ calls' = Rest(calls, i) /\ CallsTyped' /\ (waits = "id" => i = 1)
<1>1. i \in 1..Len(calls) /\ CallTyped(calls[i]) /\ calls \in Seq(CallRec)
  BY DEF TypeInv, CallsTyped
<1>2. calls' = Rest(calls, i) /\ (waits = "id" => i = 1)
  BY DEF DoneWith, Rest
<1>3. CallsTyped'
  <2>1. /\ Rest(calls, i) \in Seq(CallRec)
        /\ \A j \in 1..Len(Rest(calls, i)) :
               Before(i, j) \in 1..Len(calls) /\ Rest(calls, i)[j] = calls[Before(i, j)]
    BY <1>1, RestFacts
  <2>. QED  BY <1>2, <2>1 DEF TypeInv, CallsTyped
<1>. QED  BY <1>1, <1>2, <1>3

LEMMA DoneFacts ==
    ASSUME TypeInv, NEW i \in DOMAIN calls, NEW error \in BOOLEAN, Done(i, error)
    PROVE  /\ i \in 1..Len(calls) /\ CallTyped(calls[i])
           /\ calls' = Rest(calls, i) /\ CallsTyped' /\ (waits = "id" => i = 1)
           /\ running' \subseteq running \union (IF calls[i].op = "start" /\ ~error
                                                 THEN {calls[i].session} ELSE {})
           /\ calls[i].op = "start" => running' = IF error THEN running
                                                  ELSE running \union {calls[i].session}
           /\ calls[i].op = "stop" /\ ~error => running' = running \ {calls[i].session}
           /\ lost' \in BOOLEAN /\ (lost => lost')
           /\ calls[i].op = "stop" /\ ~lost' => calls[i].session \notin running' \ DOMAIN backward
           /\ restarts' \subseteq [session : Numbers, n : 0..MaxRequests]
<1>. DEFINE c == calls[i]
<1>1. /\ i \in 1..Len(calls) /\ CallTyped(c)
      /\ calls' = Rest(calls, i) /\ CallsTyped' /\ (waits = "id" => i = 1)
  <2>1. DoneWith(i)
    BY DEF Done
  <2>. QED  BY <2>1, DoneWithFacts
<1>2. c.op = "start" => running' = IF error THEN running ELSE running \union {c.session}
  BY DEF Done
<1>3. c.op = "stop" => running' \in {running \ {c.session}} \union (IF error THEN {running} ELSE {})
  BY DEF Done
<1>4. c.op \notin {"start", "stop"} => running' = running
  BY DEF Done
<1>5. lost' = (lost \/ (c.op = "stop" /\ c.session \in running' \ DOMAIN backward))
  BY DEF Done
<1>6. \/ restarts' = restarts
      \/ /\ restarts' = restarts \union {[session |-> c.session, n |-> c.n]}
         /\ c.session \in running
  BY DEF Done
<1>7. restarts' \subseteq [session : Numbers, n : 0..MaxRequests]
  <2>1. c.n \in 0..MaxRequests /\ running \subseteq Numbers
        /\ restarts \subseteq [session : Numbers, n : 0..MaxRequests]
    BY <1>1 DEF CallTyped, CallRec, TypeInv, UserTyped
  <2>. HIDE DEF c
  <2>. QED  BY <1>6, <2>1
<1>8. lost \in BOOLEAN
  BY DEF TypeInv, UserTyped
<1>. HIDE DEF c
<1>9. running' \subseteq running \union (IF c.op = "start" /\ ~error THEN {c.session} ELSE {})
  BY <1>2, <1>3, <1>4
<1>10. c.op = "stop" /\ ~error => running' = running \ {c.session}
  BY <1>3
<1>11. /\ lost' \in BOOLEAN /\ (lost => lost')
       /\ c.op = "stop" /\ ~lost' => c.session \notin running' \ DOMAIN backward
  BY <1>5, <1>8
<1>. QED  BY <1>1, <1>2, <1>7, <1>9, <1>10, <1>11 DEF c

LEMMA TakenFacts ==
    ASSUME TypeInv, NEW s
    PROVE  Taken(s) \in Queues \union {"none"} /\ (Taken(s) # "none" => queue[Taken(s)] # <<>>)
  BY DEF Taken, Queues

LEMMA TakeTyped ==
    ASSUME TypeInv, NEW t \in 0..MaxRequests, NEW n, NEW error \in BOOLEAN, Take(t, n, error),
           response.op = "none", client.op = "none", client' = client
    PROVE  QueueTyped' /\ ThreadTyped'
<1>1. CASE Taken(t) = "none"
  <2>1. UNCHANGED <<queue, response>>
    BY <1>1 DEF Take
  <2>. QED  BY <2>1 DEF TypeInv, QueueTyped, ThreadTyped, Handling, Looking
<1>2. CASE Taken(t) # "none"
  <2>. DEFINE q == Taken(t)
  <2>1. /\ queue' = [queue EXCEPT ![q] = Tail(@)]
        /\ response' = [op |-> Head(queue[q]).op, owner |-> Head(queue[q]).owner,
                        session |-> t, error |-> error]
    BY <1>2 DEF Take
  <2>2. q \in Queues /\ queue[q] # <<>> /\ queue[q] \in Seq(RequestRec)
    BY <1>2, TakenFacts DEF TypeInv, QueueTyped
  <2>. HIDE DEF q
  <2>3. Tail(queue[q]) \in Seq(RequestRec) /\ Head(queue[q]) \in RequestRec
    BY <2>2, TailFacts
  <2>4. QueueTyped'
    BY <2>1, <2>2, <2>3 DEF TypeInv, QueueTyped
  <2>5. response' \in [op : Op \union {"remove"}, owner : Owner,
                       session : 0..MaxRequests, error : BOOLEAN] /\ response'.op \in Op
    BY <2>1, <2>3 DEF RequestRec
  <2>6. ThreadTyped'
    BY <2>5 DEF TypeInv, ThreadTyped, Handling, Looking
  <2>. QED  BY <2>4, <2>6
<1>. QED  BY <1>1, <1>2

LEMMA TypeOnResponse ==
    ASSUME TypeInv, NEW i \in DOMAIN calls, NEW error \in BOOLEAN, OnResponseCb(i, error)
    PROVE  TypeInv'
<1>. DEFINE c == calls[i]
<1>1. /\ Done(i, error) /\ response.op = "none" /\ client.op = "none"
      /\ Take(c.session, c.n, error)
      /\ UNCHANGED <<mTracking, mSession, dict, nextSession, client, waits, requests, waiting,
                     believed>>
  BY DEF OnResponseCb, Free, user
<1>2. /\ CallTyped(c) /\ CallsTyped' /\ lost' \in BOOLEAN
      /\ running' \subseteq running \union (IF c.op = "start" /\ ~error THEN {c.session} ELSE {})
      /\ restarts' \subseteq [session : Numbers, n : 0..MaxRequests]
  BY <1>1, DoneFacts
<1>3. QueueTyped' /\ ThreadTyped'
  <2>1. c.session \in 0..MaxRequests
    BY <1>2 DEF CallTyped, CallRec
  <2>. QED  BY <1>1, <2>1, TakeTyped
<1>4. DictTyped' /\ CountTyped'
  BY <1>1 DEF TypeInv, DictTyped, dict, CountTyped
<1>5. UserTyped'
  BY <1>1, <1>2 DEF TypeInv, UserTyped, CallTyped
<1>. QED  BY <1>2, <1>3, <1>4, <1>5 DEF TypeInv

LEMMA TypeRestarted ==
    ASSUME TypeInv, NEW u \in restarts, NEW error \in BOOLEAN, Restarted(u, error)
    PROVE  TypeInv'
<1>1. /\ response.op = "none" /\ client.op = "none" /\ Take(u.session, u.n, error)
      /\ restarts' = restarts \ {u} /\ running' \subseteq running
      /\ lost' = (lost \/ Taken(u.session) # "none")
      /\ UNCHANGED <<mTracking, mSession, dict, nextSession, client, calls, waits, requests,
                     waiting, believed>>
  BY DEF Restarted, Free, user
<1>2. QueueTyped' /\ ThreadTyped'
  <2>1. u.session \in 0..MaxRequests
    BY DEF TypeInv, UserTyped, Numbers
  <2>. QED  BY <1>1, <2>1, TakeTyped
<1>3. DictTyped' /\ CountTyped' /\ CallsTyped'
  BY <1>1 DEF TypeInv, DictTyped, dict, CountTyped, CallsTyped
<1>4. lost' \in BOOLEAN
  BY <1>1 DEF TypeInv, UserTyped
<1>5. UserTyped'
  BY <1>1, <1>4 DEF TypeInv, UserTyped
<1>. QED  BY <1>2, <1>3, <1>5 DEF TypeInv

LEMMA TypeRefused ==
    ASSUME TypeInv, NEW i \in DOMAIN calls, Refused(i)
    PROVE  TypeInv'
<1>1. /\ DoneWith(i) /\ lost' = (lost \/ calls[i].n # 0 \/ calls[i].session \in running)
      /\ UNCHANGED <<mTracking, mSession, queue, dict, nextSession, client, response, running,
                     restarts, waits, requests, waiting, believed>>
  BY DEF Refused, library, user
<1>2. CallsTyped'
  BY <1>1, DoneWithFacts
<1>3. lost' \in BOOLEAN
  BY <1>1 DEF TypeInv, UserTyped
<1>4. DictTyped' /\ CountTyped' /\ QueueTyped' /\ ThreadTyped'
  BY <1>1 DEF TypeInv, DictTyped, dict, CountTyped, QueueTyped, ThreadTyped, Handling, Looking
<1>5. UserTyped'
  BY <1>1, <1>3 DEF TypeInv, UserTyped
<1>. QED  BY <1>2, <1>4, <1>5 DEF TypeInv

\* The owner of the response in hand
LEMMA ResponseTyped ==
    ASSUME TypeInv, Handling
    PROVE  /\ response.owner \in Owner /\ response.session \in 0..MaxRequests
           /\ response.error \in BOOLEAN /\ response.op \in Op \union {"remove"}
  BY DEF TypeInv, ThreadTyped

LEMMA TypeOnStart == TypeInv /\ OnStart => TypeInv'
<1>. SUFFICES ASSUME TypeInv, OnStart
              PROVE  TypeInv'
  OBVIOUS
<1>1. /\ response.op = "start" /\ response' = [op |-> "none"]
      /\ RmBySession(response.session) \/ UNCHANGED dict
      /\ waiting' \subseteq waiting /\ believed' \subseteq believed \union {response.owner}
      /\ UNCHANGED <<mTracking, mSession, queue, nextSession, client, calls, running, restarts,
                     waits, requests, lost>>
  BY DEF OnStart, Told
<1>2. response.owner \in Owner
  BY <1>1, ResponseTyped DEF Handling
<1>3. DictTyped'
  <2>1. CASE RmBySession(response.session)
    BY <2>1, RmTyped
  <2>2. CASE UNCHANGED dict
    BY <2>2 DEF TypeInv, DictTyped, dict
  <2>. QED  BY <1>1, <2>1, <2>2
<1>4. ThreadTyped'
  BY <1>1 DEF TypeInv, ThreadTyped, Handling, Looking
<1>5. CallsTyped' /\ QueueTyped' /\ CountTyped'
  BY <1>1 DEF TypeInv, CallsTyped, QueueTyped, CountTyped
<1>6. UserTyped'
  BY <1>1, <1>2 DEF TypeInv, UserTyped
<1>. QED  BY <1>3, <1>4, <1>5, <1>6 DEF TypeInv

LEMMA TypeOnStop == TypeInv /\ OnStop => TypeInv'
<1>. SUFFICES ASSUME TypeInv, OnStop
              PROVE  TypeInv'
  OBVIOUS
<1>1. /\ response.op = "stop"
      /\ response' = IF response.error THEN [op |-> "none"] ELSE [response EXCEPT !.op = "remove"]
      /\ waiting' \subseteq waiting /\ believed' \subseteq believed
      /\ UNCHANGED <<mTracking, mSession, queue, dict, nextSession, client, calls, running,
                     restarts, waits, requests, lost>>
  BY DEF OnStop, Told, library
<1>2. response \in [op : Op \union {"remove"}, owner : Owner,
                    session : 0..MaxRequests, error : BOOLEAN]
  BY <1>1 DEF TypeInv, ThreadTyped, Handling
<1>3. ThreadTyped'
  <2>1. CASE response.error
    BY <1>1, <2>1 DEF TypeInv, ThreadTyped, Handling, Looking
  <2>2. CASE ~response.error
    <3>1. /\ response' \in [op : Op \union {"remove"}, owner : Owner,
                            session : 0..MaxRequests, error : BOOLEAN]
          /\ response'.op = "remove"
      BY <1>1, <1>2, <2>2
    <3>. QED  BY <1>1, <3>1 DEF TypeInv, ThreadTyped, Handling, Looking
  <2>. QED  BY <2>1, <2>2
<1>4. DictTyped' /\ CallsTyped' /\ QueueTyped' /\ CountTyped'
  BY <1>1 DEF TypeInv, DictTyped, dict, CallsTyped, QueueTyped, CountTyped
<1>5. UserTyped'
  BY <1>1 DEF TypeInv, UserTyped
<1>. QED  BY <1>3, <1>4, <1>5 DEF TypeInv

LEMMA TypeAfterStop == TypeInv /\ AfterStop => TypeInv'
<1>. SUFFICES ASSUME TypeInv, AfterStop
              PROVE  TypeInv'
  OBVIOUS
<1>1. /\ response' = [op |-> "none"] /\ RmBySession(response.session)
      /\ UNCHANGED <<mTracking, mSession, queue, nextSession, client, calls, running, restarts,
                     waits, requests, waiting, believed, lost>>
  BY DEF AfterStop, user
<1>2. DictTyped'
  BY <1>1, RmTyped
<1>3. ThreadTyped'
  BY <1>1 DEF TypeInv, ThreadTyped, Handling, Looking
<1>4. CallsTyped' /\ QueueTyped' /\ CountTyped' /\ UserTyped'
  BY <1>1 DEF TypeInv, CallsTyped, QueueTyped, CountTyped, UserTyped
<1>. QED  BY <1>2, <1>3, <1>4 DEF TypeInv

LEMMA TypeOnOther == TypeInv /\ OnOther => TypeInv'
<1>. SUFFICES ASSUME TypeInv, OnOther
              PROVE  TypeInv'
  OBVIOUS
<1>1. /\ response' = [op |-> "none"] /\ waiting' \subseteq waiting
      /\ UNCHANGED <<mTracking, mSession, queue, dict, nextSession, client, calls, running,
                     restarts, waits, requests, believed, lost>>
  BY DEF OnOther, Told, library
<1>2. ThreadTyped'
  BY <1>1 DEF TypeInv, ThreadTyped, Handling, Looking
<1>3. DictTyped' /\ CallsTyped' /\ QueueTyped' /\ CountTyped'
  BY <1>1 DEF TypeInv, DictTyped, dict, CallsTyped, QueueTyped, CountTyped
<1>4. UserTyped'
  BY <1>1 DEF TypeInv, UserTyped
<1>. QED  BY <1>2, <1>3, <1>4 DEF TypeInv

LEMMA TypeBatching ==
    ASSUME TypeInv, NEW s \in running, BeforeBatchingStatusCb(s)
    PROVE  TypeInv'
<1>1. /\ response.op = "none" /\ RmBySession(s)
      /\ running' \subseteq running /\ believed' \subseteq believed /\ lost' \in BOOLEAN
      /\ UNCHANGED <<mTracking, mSession, queue, nextSession, client, response, calls, restarts,
                     waits, requests, waiting>>
  BY DEF BeforeBatchingStatusCb, TypeInv, UserTyped
<1>2. DictTyped'
  BY <1>1, RmTyped
<1>3. ThreadTyped' /\ CallsTyped' /\ QueueTyped' /\ CountTyped'
  BY <1>1 DEF TypeInv, ThreadTyped, Handling, Looking, CallsTyped, QueueTyped, CountTyped
<1>4. UserTyped'
  BY <1>1 DEF TypeInv, UserTyped
<1>. QED  BY <1>2, <1>3, <1>4 DEF TypeInv

LEMMA TypeUnchanged == TypeInv /\ UNCHANGED vars => TypeInv'
<1>. SUFFICES ASSUME TypeInv, UNCHANGED vars
              PROVE  TypeInv'
  OBVIOUS
<1>1. UNCHANGED <<forward, backward, ext, mTracking, mSession, queue, nextSession, client, response,
                  calls, running, restarts, waits, requests, waiting, believed, lost>>
  BY DEF vars, library, dict, user
<1>. QED  BY <1>1 DEF TypeInv, DictTyped, CallsTyped, QueueTyped, CountTyped, UserTyped,
                      ThreadTyped, Handling, Looking

LEMMA TypeStep == TypeInv /\ [Next]_vars => TypeInv'
<1>. SUFFICES ASSUME TypeInv, [Next]_vars
              PROVE  TypeInv'
  OBVIOUS
<1>1. CASE LocAPIStartTracking
  BY <1>1, TypeStartTracking
<1>2. CASE LocAPIStopTracking
  BY <1>2, TypeStopTracking
<1>3. CASE LocAPIUpdateTrackingOptions
  BY <1>3, TypeUpdateTracking
<1>4. CASE \E id \in Ids, mode \in Modes : LocAPIStartSession(id, mode)
  BY <1>4, TypeStartSession
<1>5. CASE \E id \in Ids, op \in {"stop", "get"} : LookUp(op, id, "none")
  BY <1>5, TypeLookUp
<1>6. CASE \E id \in Ids, mode \in Modes : LookUp("update", id, mode)
  BY <1>6, TypeLookUp
<1>7. CASE LocAPIStopSession
  BY <1>7, TypeStopSession
<1>8. CASE LocAPIGetBatchedLocations
  BY <1>8, TypeGet
<1>9. CASE LocAPIUpdateSessionOptions
  BY <1>9, TypeUpdateSession
<1>10. CASE \E i \in DOMAIN calls, error \in BOOLEAN : OnResponseCb(i, error)
  BY <1>10, TypeOnResponse
<1>11. CASE OnStart
  BY <1>11, TypeOnStart
<1>12. CASE OnStop
  BY <1>12, TypeOnStop
<1>13. CASE AfterStop
  BY <1>13, TypeAfterStop
<1>14. CASE OnOther
  BY <1>14, TypeOnOther
<1>15. CASE \E s \in running : BeforeBatchingStatusCb(s)
  BY <1>15, TypeBatching
<1>16. CASE UNCHANGED vars
  BY <1>16, TypeUnchanged
<1>17. CASE \E r \in restarts, error \in BOOLEAN : Restarted(r, error)
  BY <1>17, TypeRestarted
<1>18. CASE \E i \in DOMAIN calls : Refused(i)
  BY <1>18, TypeRefused
<1>. QED
  BY <1>1, <1>2, <1>3, <1>4, <1>5, <1>6, <1>7, <1>8, <1>9, <1>10, <1>11, <1>12, <1>13, <1>14, <1>15,
     <1>16, <1>17, <1>18 DEF Next, Client, LocationAPI

(* The state is typed; in particular the location API's numbers and the     *)
(* requests stay within the bound on requests (locAPIStartSession,          *)
(* locAPIUpdateSessionOptions).                                             *)
THEOREM TypeCorrect == Spec => []TypeOK
<1>1. Spec => []TypeInv
  BY TypeInit, TypeStep, PTL DEF Spec
<1>. QED  BY <1>1, TypesImplyTypeOK, PTL

-----------------------------------------------------------------------------
(* Owners, their sessions and their calls *)

LEMMA WaitingOwners ==
    ASSUME TypeInv, DictInv, NEW o \in waiting
    PROVE  /\ o \in Owner
           /\ o # "tracking" => /\ o \in DOMAIN forward /\ forward[o] \in DOMAIN backward
                                /\ backward[forward[o]] = o /\ forward[o] # mSession
  BY DEF TypeInv, UserTyped, DictInv

LEMMA OwnersDiffer ==
    ASSUME TypeInv, DictInv, NEW o \in waiting, NEW p \in waiting, SessionOf(o) = SessionOf(p)
    PROVE  o = p
  BY WaitingOwners DEF SessionOf

LEMMA CallFields ==
    ASSUME TypeInv, NEW j \in 1..Len(calls)
    PROVE  /\ calls[j] \in CallRec /\ CallTyped(calls[j])
           /\ calls[j].n \in 0..MaxRequests /\ calls[j].session \in 0..MaxRequests
           /\ calls[j].op \in Op /\ Len(calls) \in Nat
<1>1. calls[j] \in CallRec /\ Len(calls) \in Nat /\ CallTyped(calls[j])
  BY DEF TypeInv, CallsTyped
<1>. QED  BY <1>1 DEF CallRec

LEMMA EntryFields ==
    ASSUME TypeInv, NEW q \in Queues, NEW k \in 1..Len(queue[q])
    PROVE  /\ queue[q] \in Seq(RequestRec) /\ queue[q][k] \in RequestRec
           /\ queue[q][k].n \in Numbers /\ queue[q][k].n \in Nat \ {0}
           /\ queue[q][k].op \in Op /\ queue[q][k].owner \in Owner /\ Len(queue[q]) \in Nat
<1>1. queue[q] \in Seq(RequestRec)
  BY DEF TypeInv, QueueTyped
<1>2. queue[q][k] \in RequestRec /\ Len(queue[q]) \in Nat
  BY <1>1
<1>. QED  BY <1>1, <1>2 DEF RequestRec, Numbers

LEMMA SameNumber ==
    ASSUME TypeInv, CallInv, NEW i \in 1..Len(calls), NEW j \in 1..Len(calls),
           calls[i].n # 0, calls[i].n = calls[j].n
    PROVE  i = j
<1>1. calls[i].n \in Nat /\ calls[j].n \in Nat /\ i \in Nat /\ j \in Nat
  BY CallFields
<1>2. ~(i < j) /\ ~(j < i)
  BY <1>1 DEF CallInv
<1>. QED  BY <1>1, <1>2

\* The j-th call answers the k-th request in queue q.
Answers(j, q, k) ==
    /\ queue[q][k].n = calls[j].n
    /\ queue[q][k].owner \in waiting /\ QueueOf(queue[q][k].owner) = q
    /\ calls[j].session = SessionOf(queue[q][k].owner)
    /\ queue[q][k].op \in {"start", "stop"} => calls[j].op = queue[q][k].op

\* A numbered call answers a request
LEMMA CallOfRequest ==
    ASSUME TypeInv, CallInv, QueueInv, NEW j \in 1..Len(calls), calls[j].n # 0
    PROVE  \E q \in Queues : \E k \in 1..Len(queue[q]) : Answers(j, q, k)
<1>1. PICK q \in Queues : \E k \in 1..Len(queue[q]) : queue[q][k].n = calls[j].n
  BY DEF CallInv, Calling
<1>2. PICK k \in 1..Len(queue[q]) : queue[q][k].n = calls[j].n
  BY <1>1
<1>3. Entry(queue[q][k], q)
  BY <1>2 DEF QueueInv
<1>4. PICK i \in 1..Len(calls) :
          /\ calls[i].n = queue[q][k].n /\ calls[i].session = SessionOf(queue[q][k].owner)
          /\ queue[q][k].op \in {"start", "stop"} => calls[i].op = queue[q][k].op
  BY <1>3 DEF Entry
<1>5. i = j
  BY <1>2, <1>4, SameNumber
<1>. QED  BY <1>2, <1>3, <1>4, <1>5 DEF Entry, Answers

\* No other call is for the session of a numbered one.
LEMMA CallsApart ==
    ASSUME TypeInv, DictInv, CallInv, QueueInv, NEW i \in 1..Len(calls), NEW j \in 1..Len(calls),
           i # j, calls[i].n # 0
    PROVE  calls[i].session # calls[j].session
<1>. SUFFICES ASSUME calls[i].session = calls[j].session
              PROVE  FALSE
  OBVIOUS
<1>1. PICK q \in Queues : \E k \in 1..Len(queue[q]) : Answers(i, q, k)
  BY CallOfRequest
<1>2. PICK k \in 1..Len(queue[q]) : Answers(i, q, k)
  BY <1>1
<1>3. calls[j].n # 0
  <2>1. calls[i].session \in DOMAIN backward \/ calls[i].session = mSession
    BY <1>2, WaitingOwners DEF SessionOf, Answers
  <2>. QED  BY <2>1 DEF CallInv, Calling
<1>4. PICK p \in Queues : \E l \in 1..Len(queue[p]) : Answers(j, p, l)
  BY <1>3, CallOfRequest
<1>5. PICK l \in 1..Len(queue[p]) : Answers(j, p, l)
  BY <1>4
<1>6. queue[q][k].owner = queue[p][l].owner
  BY <1>2, <1>5, OwnersDiffer DEF Answers
<1>7. p = q
  BY <1>2, <1>5, <1>6 DEF Answers
<1>8. k = l
  <2>1. ~(k < l) /\ ~(l < k)
    BY <1>6, <1>7 DEF QueueInv
  <2>. QED  BY <2>1, <1>7, EntryFields
<1>9. calls[i].n = calls[j].n
  BY <1>2, <1>5, <1>7, <1>8 DEF Answers
<1>. QED  BY <1>9, SameNumber

-----------------------------------------------------------------------------
(* A request is made: what its call and its place in a queue keep *)

SessionNext(o) == IF o = "tracking" THEN mSession' ELSE forward'[o]

\* A call on the side, for a session that nobody names any more
Aside(c) ==
    /\ c.n = 0 /\ c.op = "stop" /\ c.session < nextSession'
    /\ c.session \notin DOMAIN backward' /\ c.session # mSession'

\* Calling and Entry in the next state
CallingNext(c) ==
    /\ c.session < nextSession' /\ c.n <= requests'
    /\ c.n = 0 => c.op = "stop" /\ c.session \notin DOMAIN backward' /\ c.session # mSession'
    /\ c.n # 0 => \E q \in Queues : \E k \in 1..Len(queue'[q]) : queue'[q][k].n = c.n

EntryNext(e, q) ==
    /\ e.owner \in waiting' /\ QueueOf(e.owner) = q
    /\ e.n <= requests'
    /\ \E j \in 1..Len(calls') :
           /\ calls'[j].n = e.n /\ calls'[j].session = SessionNext(e.owner)
           /\ e.op \in {"start", "stop"} => calls'[j].op = e.op

LEMMA CallsNext ==
    ASSUME \A j \in 1..Len(calls') : CallingNext(calls'[j]),
           \A i, j \in 1..Len(calls') : i < j /\ calls'[i].n # 0 /\ calls'[j].n # 0
                                              => calls'[i].n < calls'[j].n
    PROVE  CallInv'
  BY DEF CallInv, Calling, CallingNext

LEMMA QueuesNext ==
    ASSUME \A q \in Queues : \A k \in 1..Len(queue'[q]) : EntryNext(queue'[q][k], q),
           \A q \in Queues : \A k, l \in 1..Len(queue'[q]) : k < l =>
               queue'[q][k].n < queue'[q][l].n /\ queue'[q][k].owner # queue'[q][l].owner
    PROVE  QueueInv'
  BY DEF QueueInv, Entry, EntryNext, SessionOf, SessionNext

\* What a queue and the calls are after a request of o, of which c is the last call
Grown(o, c) ==
    /\ \A q \in Queues : \A k \in 1..Len(queue'[q]) :
           \/ \E l \in 1..Len(queue[q]) : queue'[q][k] = queue[q][l]
           \/ queue'[q][k].owner = o
    /\ \A j \in 1..Len(calls) : j \in 1..Len(calls') /\ calls'[j] = calls[j]
    /\ \A j \in 1..Len(calls') :
           \/ \E i \in 1..Len(calls) : calls'[j] = calls[i]
           \/ calls'[j].op = "stop" \/ calls'[j] = c
    /\ \E j \in 1..Len(calls') : calls'[j] = c

LEMMA RequestQueued ==
    ASSUME TypeInv, TypeInv', CallInv, QueueInv,
           NEW o \in Owner, o \notin waiting, waiting' = waiting \union {o},
           requests' = requests + 1, nextSession <= nextSession',
           NEW op \in Op, Push(QueueOf(o), Request(op, o)),
           NEW c \in CallRec, c.n = requests + 1, c.session = SessionNext(o),
           c.session < nextSession', op \in {"start", "stop"} => c.op = op,
           NEW mid \in Seq(CallRec), calls' = Append(mid, c), Len(calls) <= Len(mid),
           \A j \in 1..Len(calls) : mid[j] = calls[j] /\ (calls[j].n = 0 => Aside(calls[j])),
           \A j \in 1..Len(mid) : Len(calls) < j => Aside(mid[j]),
           \A p \in waiting : SessionNext(p) = SessionOf(p)
    PROVE  /\ CallInv' /\ QueueInv' /\ Grown(o, c)
           /\ \A j \in 1..Len(mid) : j \in 1..Len(calls') /\ calls'[j] = mid[j]
<1>. DEFINE r == Request(op, o)
            to == QueueOf(o)
<1>1. /\ requests \in Nat /\ nextSession \in Nat /\ nextSession' \in Nat
      /\ Len(calls) \in Nat /\ Len(mid) \in Nat
  BY Counts DEF TypeInv, CountTyped, CallsTyped
<1>2. /\ r.n = requests + 1 /\ r.owner = o /\ r.op = op /\ to \in Queues
      /\ r \in RequestRec
  BY Counts DEF Request, QueueOf, Queues, RequestRec, TypeInv, CountTyped, Numbers
<1>3. \A q \in Queues : queue[q] \in Seq(RequestRec) /\ Len(queue[q]) \in Nat /\ Len(queue'[q]) \in Nat
  BY DEF TypeInv, QueueTyped
<1>4. queue' = [queue EXCEPT ![to] = Append(queue[to], r)]
  BY DEF Push
<1>. HIDE DEF r, to
\* the queues
<1>5. \A q \in Queues \ {to} : queue'[q] = queue[q]
  BY <1>4 DEF TypeInv, QueueTyped
<1>6. /\ Len(queue'[to]) = Len(queue[to]) + 1 /\ queue'[to][Len(queue[to]) + 1] = r
      /\ \A k \in 1..Len(queue[to]) : queue'[to][k] = queue[to][k]
  <2>1. queue'[to] = Append(queue[to], r)
    BY <1>2, <1>4 DEF TypeInv, QueueTyped
  <2>. QED  BY <2>1, <1>2, <1>3, AppendFacts
<1>7. \A q \in Queues : /\ Len(queue[q]) <= Len(queue'[q])
                        /\ \A k \in 1..Len(queue[q]) : queue'[q][k] = queue[q][k]
  <2>1. ASSUME NEW q \in Queues, q = to
        PROVE  /\ Len(queue[q]) <= Len(queue'[q])
               /\ \A k \in 1..Len(queue[q]) : queue'[q][k] = queue[q][k]
    BY <2>1, <1>3, <1>6
  <2>2. ASSUME NEW q \in Queues, q # to
        PROVE  /\ Len(queue[q]) <= Len(queue'[q])
               /\ \A k \in 1..Len(queue[q]) : queue'[q][k] = queue[q][k]
    BY <2>2, <1>3, <1>5
  <2>. QED  BY <2>1, <2>2
<1>8. \A q \in Queues : \A k \in 1..Len(queue'[q]) :
          \/ k \in 1..Len(queue[q]) /\ queue'[q][k] = queue[q][k]
          \/ q = to /\ k = Len(queue[to]) + 1 /\ queue'[q][k] = r
  <2>1. ASSUME NEW k \in 1..Len(queue'[to])
        PROVE  \/ k \in 1..Len(queue[to]) /\ queue'[to][k] = queue[to][k]
               \/ k = Len(queue[to]) + 1 /\ queue'[to][k] = r
    <3>1. Len(queue[to]) \in Nat
      BY <1>2, <1>3
    <3>2. k \in 1..Len(queue[to]) \/ k = Len(queue[to]) + 1
      BY <3>1, <1>6
    <3>. QED  BY <3>2, <1>6
  <2>2. \A q \in Queues \ {to} : \A k \in 1..Len(queue'[q]) :
            k \in 1..Len(queue[q]) /\ queue'[q][k] = queue[q][k]
    BY <1>5
  <2>. QED  BY <2>1, <2>2
\* the calls
<1>9. /\ Len(calls') = Len(mid) + 1 /\ calls'[Len(mid) + 1] = c
      /\ \A j \in 1..Len(mid) : calls'[j] = mid[j]
  BY AppendFacts
<1>10. \A j \in 1..Len(calls) : j \in 1..Len(calls') /\ calls'[j] = calls[j]
  BY <1>1, <1>9
<1>11. \A j \in 1..Len(calls') :
           \/ j \in 1..Len(calls) /\ calls'[j] = calls[j]
           \/ Aside(calls'[j])
           \/ j = Len(mid) + 1 /\ calls'[j] = c
  BY <1>1, <1>9
<1>12. \A j \in 1..Len(calls) : /\ calls[j].n \in Nat /\ calls[j].session \in Nat
                                /\ calls[j].n <= requests /\ calls[j].session < nextSession
  BY CallFields DEF CallInv, Calling
<1>13. \A j \in 1..Len(calls') : CallingNext(calls'[j])
  <2>. SUFFICES ASSUME NEW j \in 1..Len(calls'), NEW d, d = calls'[j]
                PROVE  /\ d.session < nextSession' /\ d.n <= requests'
                       /\ d.n = 0 => Aside(d)
                       /\ d.n # 0 => \E q \in Queues : \E k \in 1..Len(queue'[q]) :
                                                           queue'[q][k].n = d.n
    BY DEF CallingNext, Aside
  <2>1. CASE j \in 1..Len(calls) /\ d = calls[j]
    <3>1. d.session < nextSession' /\ d.n <= requests' /\ (d.n = 0 => Aside(d))
      BY <2>1, <1>1, <1>12
    <3>2. ASSUME d.n # 0
          PROVE  \E q \in Queues : \E k \in 1..Len(queue'[q]) : queue'[q][k].n = d.n
      <4>1. PICK q \in Queues : \E k \in 1..Len(queue[q]) : queue[q][k].n = d.n
        BY <2>1, <3>2 DEF CallInv, Calling
      <4>2. PICK k \in 1..Len(queue[q]) : queue[q][k].n = d.n
        BY <4>1
      <4>3. k \in 1..Len(queue'[q]) /\ queue'[q][k].n = d.n
        BY <4>2, <1>3, <1>7
      <4>. QED  BY <4>3
    <3>. QED  BY <3>1, <3>2
  <2>2. CASE Aside(d)
    BY <2>2, <1>1 DEF Aside
  <2>3. CASE d = c
    <3>1. Len(queue[to]) + 1 \in 1..Len(queue'[to])
      BY <1>2, <1>3, <1>6
    <3>2. queue'[to][Len(queue[to]) + 1].n = d.n /\ d.n # 0
      BY <2>3, <1>1, <1>2, <1>6
    <3>3. d.session < nextSession' /\ d.n <= requests'
      BY <2>3, <1>1
    <3>4. \E q \in Queues : \E k \in 1..Len(queue'[q]) : queue'[q][k].n = d.n
      BY <3>1, <3>2, <1>2
    <3>. QED  BY <3>2, <3>3, <3>4
  <2>4. (j \in 1..Len(calls) /\ d = calls[j]) \/ Aside(d) \/ d = c
    BY <1>11
  <2>. QED  BY <2>1, <2>2, <2>3, <2>4
<1>14. ASSUME NEW i \in 1..Len(calls'), NEW j \in 1..Len(calls'), i < j,
              calls'[i].n # 0, calls'[j].n # 0
       PROVE  calls'[i].n < calls'[j].n
  <2>1. CASE j \in 1..Len(calls) /\ calls'[j] = calls[j]
    BY <1>1, <1>10, <1>14, <2>1 DEF CallInv
  <2>2. CASE Aside(calls'[j])
    BY <1>14, <2>2 DEF Aside
  <2>3. CASE j = Len(mid) + 1 /\ calls'[j] = c
    <3>1. i \in 1..Len(calls) /\ calls'[i] = calls[i]
      BY <1>1, <1>11, <1>14, <2>3 DEF Aside
    <3>2. calls[i].n \in Nat /\ calls[i].n <= requests /\ calls'[j].n = requests + 1
      BY <3>1, <2>3, <1>12
    <3>. QED  BY <3>1, <3>2, <1>1
  <2>. QED  BY <2>1, <2>2, <2>3, <1>11
<1>15. \A q \in Queues : \A k \in 1..Len(queue'[q]) : EntryNext(queue'[q][k], q)
  <2>. SUFFICES ASSUME NEW q \in Queues, NEW k \in 1..Len(queue'[q]), NEW e, e = queue'[q][k]
                PROVE  EntryNext(e, q)
    OBVIOUS
  <2>1. CASE k \in 1..Len(queue[q]) /\ e = queue[q][k]
    <3>1. /\ e.owner \in waiting /\ QueueOf(e.owner) = q /\ e.n <= requests /\ e.n \in Nat
          /\ \E j \in 1..Len(calls) :
                 /\ calls[j].n = e.n /\ calls[j].session = SessionOf(e.owner)
                 /\ e.op \in {"start", "stop"} => calls[j].op = e.op
      <4>1. Entry(e, q) /\ e.n \in Nat
        BY <2>1, EntryFields DEF QueueInv
      <4>. QED  BY <4>1 DEF Entry
    <3>2. PICK j \in 1..Len(calls) :
                 /\ calls[j].n = e.n /\ calls[j].session = SessionOf(e.owner)
                 /\ e.op \in {"start", "stop"} => calls[j].op = e.op
      BY <3>1
    <3>3. j \in 1..Len(calls') /\ calls'[j] = calls[j] /\ SessionNext(e.owner) = SessionOf(e.owner)
      BY <3>1, <3>2, <1>10
    <3>4. \E i \in 1..Len(calls') :
              /\ calls'[i].n = e.n /\ calls'[i].session = SessionNext(e.owner)
              /\ e.op \in {"start", "stop"} => calls'[i].op = e.op
      BY <3>2, <3>3
    <3>5. e.owner \in waiting' /\ QueueOf(e.owner) = q
      BY <3>1
    <3>6. e.n <= requests'
      BY <3>1, <1>1
    <3>. QED  BY <3>4, <3>5, <3>6 DEF EntryNext
  <2>2. CASE q = to /\ e = r
    <3>1. Len(mid) + 1 \in 1..Len(calls')
      BY <1>1, <1>9
    <3>2. QueueOf(o) = to
      BY DEF to
    <3>3. \E i \in 1..Len(calls') :
              /\ calls'[i].n = e.n /\ calls'[i].session = SessionNext(e.owner)
              /\ e.op \in {"start", "stop"} => calls'[i].op = e.op
      BY <2>2, <3>1, <1>2, <1>9
    <3>4. e.owner \in waiting' /\ QueueOf(e.owner) = q /\ e.n <= requests'
      BY <2>2, <3>2, <1>1, <1>2
    <3>. QED  BY <3>3, <3>4 DEF EntryNext
  <2>. QED  BY <2>1, <2>2, <1>8
<1>16. ASSUME NEW q \in Queues, NEW k \in 1..Len(queue'[q]), NEW l \in 1..Len(queue'[q]), k < l
       PROVE  queue'[q][k].n < queue'[q][l].n /\ queue'[q][k].owner # queue'[q][l].owner
  <2>1. CASE l \in 1..Len(queue[q]) /\ queue'[q][l] = queue[q][l]
    <3>1. k \in 1..Len(queue[q]) /\ queue'[q][k] = queue[q][k]
      BY <2>1, <1>3, <1>7, <1>16
    <3>. QED  BY <2>1, <3>1, <1>16 DEF QueueInv
  <2>2. CASE q = to /\ l = Len(queue[to]) + 1 /\ queue'[q][l] = r
    <3>1. k \in 1..Len(queue[q]) /\ queue'[q][k] = queue[q][k]
      <4>1. Len(queue[to]) \in Nat /\ k < Len(queue[to]) + 1
        BY <2>2, <1>2, <1>3, <1>16
      <4>2. k \in 1..Len(queue[to])
        BY <4>1
      <4>. QED  BY <4>2, <2>2, <1>6
    <3>2. queue[q][k].owner \in waiting /\ queue[q][k].n <= requests /\ queue[q][k].n \in Nat
      BY <3>1, EntryFields DEF QueueInv, Entry
    <3>3. queue'[q][l].n = requests + 1 /\ queue'[q][l].owner = o
      BY <2>2, <1>2
    <3>4. queue[q][k].n < requests + 1 /\ queue[q][k].owner # o
      BY <3>2, <1>1
    <3>. QED  BY <3>1, <3>3, <3>4
  <2>. QED  BY <2>1, <2>2, <1>8
<1>17. CallInv'
  BY <1>13, <1>14, CallsNext
<1>18. QueueInv'
  BY <1>15, <1>16, QueuesNext
<1>19. Grown(o, c)
  <2>1. Len(mid) + 1 \in 1..Len(calls') /\ calls'[Len(mid) + 1] = c
    BY <1>1, <1>9
  <2>2. \A j \in 1..Len(calls') :
           \/ \E i \in 1..Len(calls) : calls'[j] = calls[i]
           \/ calls'[j].op = "stop" \/ calls'[j] = c
    BY <1>11 DEF Aside
  <2>3. \A q \in Queues : \A k \in 1..Len(queue'[q]) :
           \/ \E l \in 1..Len(queue[q]) : queue'[q][k] = queue[q][l]
           \/ queue'[q][k].owner = o
    BY <1>2, <1>8
  <2>. QED  BY <2>1, <2>2, <2>3, <1>10 DEF Grown
<1>20. \A j \in 1..Len(mid) : j \in 1..Len(calls') /\ calls'[j] = mid[j]
  BY <1>1, <1>9
<1>. QED  BY <1>17, <1>18, <1>19, <1>20

\* What a request keeps of the response in hand and of what runs
LEMMA RequestKeepsResponse ==
    ASSUME TypeInv, TypeInv', ResponseInv, NEW o, o \notin waiting,
           waiting' = waiting \union {o}, nextSession <= nextSession',
           NEW c, Grown(o, c), c.op = "start" => c.session = nextSession,
           \A p \in waiting : SessionNext(p) = SessionOf(p),
           UNCHANGED <<response, running, believed>>,
           response.op = "remove" /\ response.session \in DOMAIN backward' =>
               /\ response.session \in DOMAIN backward
               /\ backward'[response.session] = backward[response.session]
               /\ backward[response.session] # o
    PROVE  ResponseInv'
<1>. SUFFICES ASSUME Handling
              PROVE  ResponseInv'
  BY DEF ResponseInv, Handling
<1>1. /\ response.session < nextSession' /\ response.session < nextSession
      /\ response.session # nextSession
  <2>1. response.session \in Nat /\ nextSession \in Nat /\ nextSession' \in Nat
    BY ResponseTyped DEF TypeInv, CountTyped
  <2>. QED  BY <2>1 DEF ResponseInv
<1>2. \A j \in 1..Len(calls') : calls'[j].op = "start" => calls'[j].session # response.session
  <2>. SUFFICES ASSUME NEW j \in 1..Len(calls'), calls'[j].op = "start"
                PROVE  calls'[j].session # response.session
    OBVIOUS
  <2>1. CASE \E i \in 1..Len(calls) : calls'[j] = calls[i]
    BY <2>1 DEF ResponseInv
  <2>2. CASE calls'[j] = c
    BY <2>2, <1>1
  <2>. QED  BY <2>1, <2>2 DEF Grown
<1>3. ASSUME response.op # "remove"
      PROVE  /\ response.owner \in waiting' /\ response.session = SessionNext(response.owner)
             /\ \A q \in Queues : \A k \in 1..Len(queue'[q]) : queue'[q][k].owner # response.owner
  <2>1. /\ response.owner \in waiting /\ response.session = SessionOf(response.owner)
        /\ \A q \in Queues : \A k \in 1..Len(queue[q]) : queue[q][k].owner # response.owner
    BY <1>3 DEF ResponseInv
  <2>2. ASSUME NEW q \in Queues, NEW k \in 1..Len(queue'[q])
        PROVE  queue'[q][k].owner # response.owner
    BY <2>1 DEF Grown
  <2>. QED  BY <2>1, <2>2
<1>4. response.op = "remove" /\ response.session \in DOMAIN backward' =>
          backward'[response.session] \notin believed' \union waiting'
  BY DEF ResponseInv
<1>5. /\ response.op = "start" /\ response.error => response.session \notin running'
      /\ response.op = "stop" /\ ~response.error => response.session \notin running'
      /\ response.op = "remove" => response.session \notin running'
  BY DEF ResponseInv
<1>. QED  BY <1>1, <1>2, <1>3, <1>4, <1>5 DEF ResponseInv, SessionOf, SessionNext

LEMMA RequestKeepsRunning ==
    ASSUME TypeInv, TypeInv', RunningInv, nextSession <= nextSession',
           NEW o, NEW c, Grown(o, c), c.op = "start" => c.session = nextSession,
           running' = running,
           \A s \in running : s \in DOMAIN backward =>
               \/ s \in DOMAIN backward'
               \/ \E j \in 1..Len(calls') : calls'[j].op = "stop" /\ calls'[j].session = s,
           mTracking => /\ mSession' = mSession
                        /\ mTracking' \/ (c.op = "stop" /\ c.session = mSession),
           c.op = "start" /\ c.session = mSession' => mTracking',
           \A j \in 1..Len(calls) : calls[j].op = "start" /\ calls[j].session = mSession'
                                        => mTracking'
    PROVE  RunningInv'
<1>1. ASSUME NEW s \in running'
      PROVE  \/ s \in DOMAIN backward'
             \/ s = mSession' /\ mTracking'
             \/ \E j \in 1..Len(calls') : calls'[j].op = "stop" /\ calls'[j].session = s
  <2>1. CASE s \in DOMAIN backward
    BY <2>1, <1>1
  <2>2. CASE s = mSession /\ mTracking
    <3>1. PICK j \in 1..Len(calls') : calls'[j] = c
      BY DEF Grown
    <3>. QED  BY <2>2, <3>1
  <2>3. CASE \E j \in 1..Len(calls) : calls[j].op = "stop" /\ calls[j].session = s
    BY <2>3 DEF Grown
  <2>. QED  BY <1>1, <2>1, <2>2, <2>3 DEF RunningInv
<1>2. \A s \in running' : s < nextSession' /\ s # nextSession
  <2>1. \A s \in running : s \in Nat /\ s < nextSession
    BY DEF TypeInv, UserTyped, Numbers, RunningInv
  <2>2. nextSession \in Nat /\ nextSession' \in Nat
    BY DEF TypeInv, CountTyped
  <2>. QED  BY <2>1, <2>2
<1>3. ASSUME NEW j \in 1..Len(calls'), calls'[j].op = "start"
      PROVE  calls'[j].session \notin running' /\ (calls'[j].session = mSession' => mTracking')
  <2>1. CASE \E i \in 1..Len(calls) : calls'[j] = calls[i]
    BY <1>3, <2>1 DEF RunningInv
  <2>2. CASE calls'[j] = c
    BY <1>2, <1>3, <2>2
  <2>. QED  BY <1>3, <2>1, <2>2 DEF Grown
<1>. QED  BY <1>1, <1>2, <1>3 DEF RunningInv

-----------------------------------------------------------------------------
(* What the operations of the maps keep *)

LEMMA DictNumbers ==
    ASSUME TypeInv, DictInv
    PROVE  /\ \A s \in DOMAIN backward : s \in Nat /\ s # nextSession /\ backward[s] \in Ids
           /\ \A id \in DOMAIN forward : id \in Ids /\ forward[id] \in Nat
           /\ mSession \in Nat /\ nextSession \in Nat /\ mSession < nextSession
<1>1. /\ MapTo(backward, Ids) /\ DOMAIN backward \subseteq Numbers \union {0}
      /\ MapTo(forward, 0..MaxRequests) /\ DOMAIN forward \subseteq Ids
  BY DEF TypeInv, DictTyped
<1>2. \A s \in DOMAIN backward : backward[s] \in Ids
  BY <1>1, MapValue
<1>3. \A id \in DOMAIN forward : forward[id] \in 0..MaxRequests
  BY <1>1, MapValue
<1>4. mSession \in Nat /\ nextSession \in Nat /\ mSession < nextSession
  BY DEF TypeInv, CountTyped
<1>5. \A s \in DOMAIN backward : s \in Nat /\ s # nextSession
  BY <1>1, <1>4 DEF DictInv, Numbers
<1>. QED  BY <1>1, <1>2, <1>3, <1>4, <1>5

LEMMA DictKept ==
    ASSUME TypeInv, DictInv, UNCHANGED <<dict, waits>>, nextSession <= nextSession',
           nextSession' \in Nat, mSession' \in {mSession, nextSession},
           \A o \in waiting' \ {"tracking"} : o \in waiting \/ o \in DOMAIN forward,
           waits = "all" => \A o, p \in waiting' : o = p
    PROVE  DictInv'
<1>1. /\ forward' = forward /\ backward' = backward /\ ext' = ext /\ waits' = waits
  BY DEF dict
<1>2. \A s \in DOMAIN backward : 0 < s /\ s < nextSession' /\ s # mSession'
  BY DictNumbers DEF DictInv
<1>. QED  BY <1>1, <1>2 DEF DictInv

LEMMA SetKeepsDict ==
    ASSUME TypeInv, DictInv, NEW id \in Ids, id \notin DOMAIN forward, NEW e,
           e.session = nextSession, Set(id, nextSession, e),
           nextSession' = nextSession + 1, UNCHANGED <<mSession, waits>>,
           waiting' = waiting \union {id}, waits = "all" => waiting = {}
    PROVE  /\ DictInv'
           /\ forward'[id] = nextSession
           /\ \A p \in DOMAIN forward : forward'[p] = forward[p]
           /\ DOMAIN backward' = DOMAIN backward \union {nextSession}
           /\ \A s \in DOMAIN backward : backward'[s] = backward[s]
<1>1. /\ DOMAIN forward' = DOMAIN forward \union {id} /\ forward'[id] = nextSession
      /\ \A p \in DOMAIN forward : p # id /\ forward'[p] = forward[p]
  BY DEF Set, With
<1>2. /\ DOMAIN backward' = DOMAIN backward \union {nextSession} /\ backward'[nextSession] = id
      /\ \A s \in DOMAIN backward : backward'[s] = backward[s]
  BY DictNumbers DEF Set, With
<1>3. /\ ext'[nextSession] = e
      /\ \A s \in DOMAIN backward : ext'[s] = ext[s]
  BY DictNumbers DEF Set, With, TypeInv, DictTyped
<1>4. \A p \in DOMAIN forward' : forward'[p] \in DOMAIN backward' /\ backward'[forward'[p]] = p
  BY <1>1, <1>2 DEF DictInv
<1>5. \A s \in DOMAIN backward' :
          /\ backward'[s] \in DOMAIN forward' /\ forward'[backward'[s]] = s
          /\ ext'[s].session = s
  BY <1>1, <1>2, <1>3 DEF DictInv
<1>6. \A s \in DOMAIN backward' : 0 < s /\ s < nextSession' /\ s # mSession'
  BY <1>2, DictNumbers DEF DictInv, TypeInv, CountTyped
<1>7. /\ \A o \in waiting' \ {"tracking"} : o \in DOMAIN forward'
      /\ waits' = "all" => \A o, p \in waiting' : o = p
  BY <1>1 DEF DictInv
<1>8. DictInv'
  BY <1>4, <1>5, <1>6, <1>7 DEF DictInv
<1>. QED  BY <1>1, <1>2, <1>8

LEMMA ReplaceKeepsDict ==
    ASSUME TypeInv, DictInv, NEW id \in DOMAIN forward, NEW s \in {forward[id], nextSession}, NEW e,
           e.session = s, Replace(id, s, e), nextSession <= nextSession', nextSession' \in Nat,
           s < nextSession', UNCHANGED <<mSession, waits>>,
           waiting' = waiting \union {id}, waits = "all" => waiting = {}
    PROVE  /\ DictInv'
           /\ forward'[id] = s /\ DOMAIN forward' = DOMAIN forward
           /\ \A p \in DOMAIN forward : p # id => forward'[p] = forward[p]
           /\ DOMAIN backward' = (DOMAIN backward \ {forward[id]}) \union {s}
           /\ \A t \in DOMAIN backward' : t # s => backward'[t] = backward[t]
           /\ backward'[s] = id
<1>1. Got(id)[id] = forward[id] /\ id \in Ids
  BY DictNumbers DEF Got
<1>2. /\ DOMAIN forward' = DOMAIN forward /\ forward'[id] = s
      /\ \A p \in DOMAIN forward : p # id => forward'[p] = forward[p]
  BY DEF Replace, With
<1>3. /\ DOMAIN backward' = (DOMAIN backward \ {forward[id]}) \union {s} /\ backward'[s] = id
      /\ \A t \in DOMAIN backward' : t # s => backward'[t] = backward[t]
  BY <1>1 DEF Replace, With, Without
<1>4. /\ ext'[s] = e /\ \A t \in DOMAIN backward' : t # s => ext'[t] = ext[t]
  BY <1>1, <1>3 DEF Replace, With, Without, TypeInv, DictTyped
<1>5. s \in Nat /\ 0 < s /\ s # mSession /\ (s \notin DOMAIN backward \/ s = forward[id])
  BY DictNumbers DEF DictInv, TypeInv, CountTyped
<1>6. ASSUME NEW p \in DOMAIN forward'
      PROVE  forward'[p] \in DOMAIN backward' /\ backward'[forward'[p]] = p
  <2>1. CASE p = id
    BY <2>1, <1>2, <1>3
  <2>2. CASE p # id
    <3>1. forward'[p] = forward[p] /\ forward[p] \in DOMAIN backward /\ backward[forward[p]] = p
      BY <1>2, <1>6, <2>2 DEF DictInv
    <3>2. forward[p] # forward[id] /\ forward[p] # s
      BY <3>1, <2>2, <1>5 DEF DictInv
    <3>. QED  BY <3>1, <3>2, <1>3
  <2>. QED  BY <2>1, <2>2
<1>7. ASSUME NEW t \in DOMAIN backward'
      PROVE  /\ backward'[t] \in DOMAIN forward' /\ forward'[backward'[t]] = t
             /\ ext'[t].session = t
             /\ 0 < t /\ t < nextSession' /\ t # mSession'
  <2>1. CASE t = s
    BY <2>1, <1>2, <1>3, <1>4, <1>5
  <2>2. CASE t # s
    <3>1. t \in DOMAIN backward /\ t # forward[id] /\ backward'[t] = backward[t] /\ ext'[t] = ext[t]
      BY <1>3, <1>4, <1>7, <2>2
    <3>2. /\ backward[t] \in DOMAIN forward /\ forward[backward[t]] = t
          /\ ext[t].session = t /\ 0 < t /\ t < nextSession /\ t # mSession
      BY <3>1 DEF DictInv
    <3>3. backward[t] # id
      BY <3>1, <3>2
    <3>. QED  BY <3>1, <3>2, <3>3, <1>2, DictNumbers
  <2>. QED  BY <2>1, <2>2
<1>8. /\ \A o \in waiting' \ {"tracking"} : o \in DOMAIN forward'
      /\ waits' = "all" => \A o, p \in waiting' : o = p
  BY <1>2 DEF DictInv
<1>9. DictInv'
  BY <1>6, <1>7, <1>8 DEF DictInv
<1>. QED  BY <1>2, <1>3, <1>9

LEMMA RmKeepsDict ==
    ASSUME TypeInv, DictInv, NEW s, RmBySession(s), UNCHANGED <<mSession, nextSession, waits>>,
           waiting' \subseteq waiting, s \in DOMAIN backward => backward[s] \notin waiting'
    PROVE  /\ DictInv'
           /\ \A p \in DOMAIN forward : (s \in DOMAIN backward => p # backward[s]) =>
                  p \in DOMAIN forward' /\ forward'[p] = forward[p]
           /\ DOMAIN backward' = DOMAIN backward \ {s}
           /\ \A t \in DOMAIN backward' : backward'[t] = backward[t]
<1>1. CASE s \in DOMAIN backward
  <2>1. /\ DOMAIN forward' = DOMAIN forward \ {backward[s]}
        /\ \A p \in DOMAIN forward : p # backward[s] => forward'[p] = forward[p]
    BY <1>1 DEF RmBySession, Without
  <2>2. /\ DOMAIN backward' = DOMAIN backward \ {s}
        /\ \A t \in DOMAIN backward' : backward'[t] = backward[t]
    BY <1>1 DEF RmBySession, Without
  <2>3. \A t \in DOMAIN backward' : ext'[t] = ext[t]
    BY <1>1, <2>2 DEF RmBySession, Without, TypeInv, DictTyped
  <2>4. ASSUME NEW p \in DOMAIN forward'
        PROVE  forward'[p] \in DOMAIN backward' /\ backward'[forward'[p]] = p
    <3>1. p \in DOMAIN forward /\ forward'[p] = forward[p] /\ forward[p] # s
      BY <2>1, <2>4 DEF DictInv
    <3>. QED  BY <3>1, <2>2 DEF DictInv
  <2>5. ASSUME NEW t \in DOMAIN backward'
        PROVE  /\ backward'[t] \in DOMAIN forward' /\ forward'[backward'[t]] = t
               /\ ext'[t].session = t
               /\ 0 < t /\ t < nextSession' /\ t # mSession'
    <3>1. t \in DOMAIN backward /\ t # s /\ backward'[t] = backward[t] /\ ext'[t] = ext[t]
      BY <2>2, <2>3, <2>5
    <3>2. backward[t] # backward[s]
      BY <1>1, <3>1 DEF DictInv
    <3>. QED  BY <3>1, <3>2, <2>1 DEF DictInv
  <2>6. /\ \A o \in waiting' \ {"tracking"} : o \in DOMAIN forward'
        /\ waits' = "all" => \A o, p \in waiting' : o = p
    BY <1>1, <2>1 DEF DictInv
  <2>7. DictInv'
    BY <2>4, <2>5, <2>6 DEF DictInv
  <2>. QED  BY <1>1, <2>1, <2>2, <2>7
<1>2. CASE s \notin DOMAIN backward
  <2>1. UNCHANGED <<forward, backward, ext>>
    BY <1>2 DEF RmBySession, dict
  <2>2. DictInv'
    BY <2>1 DEF DictInv
  <2>. QED  BY <1>2, <2>1, <2>2
<1>. QED  BY <1>1, <1>2

-----------------------------------------------------------------------------
(* The client's requests *)

LEMMA ClientDone ==
    ASSUME client'.op = "none", UNCHANGED delivery, DeliveryInv
    PROVE  ClientInv' /\ DeliveryInv'
  BY DEF ClientInv, Looking, DeliveryInv

\* A call that is on the side stays so.
LEMMA StaysAside ==
    ASSUME TypeInv, DictInv, CallInv, nextSession <= nextSession', nextSession' \in Nat,
           mSession' \in {mSession, nextSession},
           DOMAIN backward' \subseteq DOMAIN backward \union {nextSession}
    PROVE  \A j \in 1..Len(calls) : calls[j].n = 0 => Aside(calls[j])
<1>. SUFFICES ASSUME NEW j \in 1..Len(calls), calls[j].n = 0
              PROVE  Aside(calls[j])
  OBVIOUS
<1>1. /\ calls[j].session < nextSession /\ calls[j].op = "stop"
      /\ calls[j].session \notin DOMAIN backward /\ calls[j].session # mSession
  BY DEF CallInv, Calling
<1>2. calls[j].session \in Nat /\ nextSession \in Nat
  BY CallFields DEF TypeInv, CountTyped
<1>. QED  BY <1>1, <1>2 DEF Aside

\* A start under way for the tracking session is waited for.
LEMMA StartOfTracking ==
    ASSUME TypeInv, DictInv, CallInv, QueueInv, NEW j \in 1..Len(calls),
           calls[j].op # "stop", calls[j].session = mSession
    PROVE  "tracking" \in waiting
<1>1. calls[j].n # 0
  BY DEF CallInv, Calling
<1>2. PICK q \in Queues : \E k \in 1..Len(queue[q]) : Answers(j, q, k)
  BY <1>1, CallOfRequest
<1>3. PICK k \in 1..Len(queue[q]) : Answers(j, q, k)
  BY <1>2
<1>. QED  BY <1>3, WaitingOwners DEF Answers, SessionOf

\* RequestQueued for a request of a single call
LEMMA OneCallQueued ==
    ASSUME TypeInv, TypeInv', CallInv, QueueInv,
           NEW o \in Owner, o \notin waiting, waiting' = waiting \union {o},
           requests' = requests + 1, nextSession <= nextSession',
           NEW op \in Op, Push(QueueOf(o), Request(op, o)),
           NEW c \in CallRec, c.n = requests + 1, c.session = SessionNext(o),
           c.session < nextSession', op \in {"start", "stop"} => c.op = op,
           calls' = Append(calls, c),
           \A j \in 1..Len(calls) : calls[j].n = 0 => Aside(calls[j]),
           \A p \in waiting : SessionNext(p) = SessionOf(p)
    PROVE  CallInv' /\ QueueInv' /\ Grown(o, c)
<1>1. /\ calls \in Seq(CallRec) /\ Len(calls) <= Len(calls)
      /\ \A j \in 1..Len(calls) : ~(Len(calls) < j)
  BY DEF TypeInv, CallsTyped
<1>2. \A j \in 1..Len(calls) : calls[j] = calls[j] /\ (calls[j].n = 0 => Aside(calls[j]))
  OBVIOUS
<1>. QED  BY <1>1, <1>2, RequestQueued

LEMMA StartTrackingKeeps ==
    ASSUME TypeInv, TypeInv', Orderly, LocAPIStartTracking
    PROVE  Orderly'
<1>. DEFINE o == "tracking"
            c == Call("start", nextSession, requests + 1, "fix")
<1>1. /\ client.op = "none" /\ o \notin waiting /\ (waits = "all" => waiting = {}) /\ ~mTracking
      /\ requests' = requests + 1 /\ waiting' = waiting \union {o}
      /\ mSession' = nextSession /\ nextSession' = nextSession + 1 /\ mTracking' = TRUE
      /\ queue' = [queue EXCEPT !["tracking"] = <<Request("start", o)>>]
      /\ calls' = Append(calls, c)
      /\ UNCHANGED <<dict, client, response, running, waits, believed, delivery>>
  BY DEF LocAPIStartTracking, Free, Asks, Made
<1>2. DictInv /\ CallInv /\ QueueInv /\ ResponseInv /\ RunningInv /\ DeliveryInv
  BY DEF Orderly
<1>3. /\ requests \in Nat /\ nextSession \in Nat /\ nextSession' \in Nat /\ mSession \in Nat
      /\ nextSession <= nextSession' /\ nextSession < nextSession' /\ nextSession \in Numbers
      /\ requests' \in Numbers
  BY <1>1 DEF TypeInv, CountTyped, Numbers
<1>4. queue["tracking"] = <<>>
  <2>1. "tracking" \in Queues /\ queue["tracking"] \in Seq(RequestRec)
    BY DEF Queues, TypeInv, QueueTyped
  <2>2. ASSUME NEW k \in 1..Len(queue["tracking"])
        PROVE  FALSE
    <3>1. /\ queue["tracking"][k].owner \in waiting
          /\ QueueOf(queue["tracking"][k].owner) = "tracking"
      BY <1>2, <2>1 DEF QueueInv, Entry
    <3>. QED  BY <1>1, <3>1 DEF QueueOf
  <2>. QED  BY <2>1, <2>2
<1>5. Push(QueueOf(o), Request("start", o)) /\ o \in Owner /\ "start" \in Op
  <2>1. <<Request("start", o)>> = Append(queue["tracking"], Request("start", o))
    BY <1>4
  <2>. QED  BY <1>1, <2>1 DEF Push, QueueOf, Owner, Op
<1>6. c \in CallRec /\ c.n = requests + 1 /\ c.session = nextSession /\ c.op = "start"
  BY <1>3, <1>1 DEF Call, CallRec, Adapters, Op, Numbers
<1>. HIDE DEF c
<1>7. DictInv'
  BY <1>1, <1>2, <1>3, DictKept
<1>8. \A j \in 1..Len(calls) : calls[j].n = 0 => Aside(calls[j])
  BY <1>1, <1>2, <1>3, StaysAside DEF dict
<1>9. \A p \in waiting : SessionNext(p) = SessionOf(p)
  BY <1>1 DEF SessionNext, SessionOf, dict
<1>10. /\ CallInv' /\ QueueInv' /\ Grown(o, c)
  <2>1. c.session = SessionNext(o) /\ c.session < nextSession'
    BY <1>1, <1>3, <1>6 DEF SessionNext
  <2>. QED  BY <1>1, <1>2, <1>3, <1>5, <1>6, <1>8, <1>9, <2>1, OneCallQueued
<1>11. ResponseInv'
  BY <1>1, <1>2, <1>3, <1>6, <1>9, <1>10, RequestKeepsResponse, DictNumbers DEF dict
<1>12. RunningInv'
  <2>1. mTracking'
    BY <1>1
  <2>. QED  BY <1>1, <1>2, <1>3, <1>6, <1>10, <2>1, RequestKeepsRunning DEF dict
<1>13. ClientInv' /\ DeliveryInv'
  BY <1>1, <1>2, ClientDone
<1>. QED  BY <1>7, <1>10, <1>11, <1>12, <1>13 DEF Orderly

LEMMA StopTrackingKeeps ==
    ASSUME TypeInv, TypeInv', Orderly, LocAPIStopTracking
    PROVE  Orderly'
<1>. DEFINE o == "tracking"
            c == Call("stop", mSession, requests + 1, "fix")
<1>1. /\ client.op = "none" /\ o \notin waiting /\ (waits = "all" => waiting = {})
      /\ requests' = requests + 1 /\ waiting' = waiting \union {o} /\ mTracking' = FALSE
      /\ Push("tracking", Request("stop", o)) /\ calls' = Append(calls, c)
      /\ UNCHANGED <<mSession, nextSession, dict, client, response, running, waits, believed,
                     delivery>>
  BY DEF LocAPIStopTracking, Free, Asks, Made
<1>2. DictInv /\ CallInv /\ QueueInv /\ ResponseInv /\ RunningInv /\ DeliveryInv
  BY DEF Orderly
<1>3. /\ requests \in Nat /\ nextSession \in Nat /\ nextSession' \in Nat /\ mSession \in Nat
      /\ nextSession <= nextSession' /\ mSession < nextSession' /\ mSession \in 0..MaxRequests
      /\ requests' \in Numbers
  BY <1>1 DEF TypeInv, CountTyped, Numbers
<1>4. Push(QueueOf(o), Request("stop", o)) /\ o \in Owner /\ "stop" \in Op
  BY <1>1 DEF QueueOf, Owner, Op
<1>5. c \in CallRec /\ c.n = requests + 1 /\ c.session = mSession /\ c.op = "stop"
  BY <1>3, <1>1 DEF Call, CallRec, Adapters, Op, Numbers
<1>. HIDE DEF c
<1>6. DictInv'
  BY <1>1, <1>2, <1>3, DictKept
<1>7. \A j \in 1..Len(calls) : calls[j].n = 0 => Aside(calls[j])
  BY <1>1, <1>2, <1>3, StaysAside DEF dict
<1>8. \A p \in waiting : SessionNext(p) = SessionOf(p)
  BY <1>1 DEF SessionNext, SessionOf, dict
<1>9. CallInv' /\ QueueInv' /\ Grown(o, c)
  <2>1. c.session = SessionNext(o) /\ c.session < nextSession'
    BY <1>1, <1>3, <1>5 DEF SessionNext
  <2>. QED  BY <1>1, <1>2, <1>3, <1>4, <1>5, <1>7, <1>8, <2>1, OneCallQueued
<1>10. ResponseInv'
  BY <1>1, <1>2, <1>3, <1>5, <1>8, <1>9, RequestKeepsResponse, DictNumbers DEF dict
<1>11. RunningInv'
  <2>1. \A j \in 1..Len(calls) : ~(calls[j].op = "start" /\ calls[j].session = mSession')
    BY <1>1, <1>2, StartOfTracking
  <2>. QED  BY <1>1, <1>2, <1>3, <1>5, <1>9, <2>1, RequestKeepsRunning DEF dict
<1>12. ClientInv' /\ DeliveryInv'
  BY <1>1, <1>2, ClientDone
<1>. QED  BY <1>6, <1>9, <1>10, <1>11, <1>12 DEF Orderly

LEMMA UpdateTrackingKeeps ==
    ASSUME TypeInv, TypeInv', Orderly, LocAPIUpdateTrackingOptions
    PROVE  Orderly'
<1>. DEFINE o == "tracking"
            c == Call("update", mSession, requests + 1, "fix")
<1>1. /\ client.op = "none" /\ o \notin waiting /\ (waits = "all" => waiting = {})
      /\ requests' = requests + 1 /\ waiting' = waiting \union {o}
      /\ Push("tracking", Request("update", o)) /\ calls' = Append(calls, c)
      /\ UNCHANGED <<mTracking, mSession, nextSession, dict, client, response, running, waits,
                     believed, delivery>>
  BY DEF LocAPIUpdateTrackingOptions, Free, Asks, Made
<1>2. DictInv /\ CallInv /\ QueueInv /\ ResponseInv /\ RunningInv /\ DeliveryInv
  BY DEF Orderly
<1>3. /\ requests \in Nat /\ nextSession \in Nat /\ nextSession' \in Nat /\ mSession \in Nat
      /\ nextSession <= nextSession' /\ mSession < nextSession' /\ mSession \in 0..MaxRequests
      /\ requests' \in Numbers
  BY <1>1 DEF TypeInv, CountTyped, Numbers
<1>4. Push(QueueOf(o), Request("update", o)) /\ o \in Owner /\ "update" \in Op
  BY <1>1 DEF QueueOf, Owner, Op
<1>5. c \in CallRec /\ c.n = requests + 1 /\ c.session = mSession /\ c.op = "update"
  BY <1>3, <1>1 DEF Call, CallRec, Adapters, Op, Numbers
<1>. HIDE DEF c
<1>6. DictInv'
  BY <1>1, <1>2, <1>3, DictKept
<1>7. \A j \in 1..Len(calls) : calls[j].n = 0 => Aside(calls[j])
  BY <1>1, <1>2, <1>3, StaysAside DEF dict
<1>8. \A p \in waiting : SessionNext(p) = SessionOf(p)
  BY <1>1 DEF SessionNext, SessionOf, dict
<1>9. CallInv' /\ QueueInv' /\ Grown(o, c)
  <2>1. c.session = SessionNext(o) /\ c.session < nextSession'
    BY <1>1, <1>3, <1>5 DEF SessionNext
  <2>. QED  BY <1>1, <1>2, <1>3, <1>4, <1>5, <1>7, <1>8, <2>1, OneCallQueued
<1>10. ResponseInv'
  BY <1>1, <1>2, <1>3, <1>5, <1>8, <1>9, RequestKeepsResponse, DictNumbers DEF dict
<1>11. RunningInv'
  <2>1. \A j \in 1..Len(calls) : ~(calls[j].op = "start" /\ calls[j].session = mSession')
    BY <1>1, <1>2, StartOfTracking
  <2>. QED  BY <1>1, <1>2, <1>3, <1>5, <1>9, <2>1, RequestKeepsRunning DEF dict
<1>12. ClientInv' /\ DeliveryInv'
  BY <1>1, <1>2, ClientDone
<1>. QED  BY <1>6, <1>9, <1>10, <1>11, <1>12 DEF Orderly

\* No call on a session but the tracking session makes it one.
LEMMA TrackingAgrees ==
    ASSUME RunningInv, UNCHANGED <<mSession, mTracking>>
    PROVE  \A j \in 1..Len(calls) : calls[j].op = "start" /\ calls[j].session = mSession'
                                        => mTracking'
  BY DEF RunningInv

LEMMA StartSessionKeeps ==
    ASSUME TypeInv, TypeInv', Orderly, NEW id \in Ids, NEW mode \in Modes,
           LocAPIStartSession(id, mode)
    PROVE  Orderly'
<1>. DEFINE c == Call("start", nextSession, requests + 1, mode)
            e == [session |-> nextSession, mode |-> mode]
<1>1. /\ client.op = "none" /\ id \notin waiting /\ (waits = "all" => waiting = {})
      /\ requests' = requests + 1 /\ waiting' = waiting \union {id} /\ id \notin DOMAIN forward
      /\ nextSession' = nextSession + 1
      /\ Push("session", Request("start", id)) /\ calls' = Append(calls, c)
      /\ Set(id, nextSession, e)
      /\ UNCHANGED <<mTracking, mSession, client, response, running, waits, believed, delivery>>
  BY DEF LocAPIStartSession, Free, Asks, Made
<1>2. DictInv /\ CallInv /\ QueueInv /\ ResponseInv /\ RunningInv /\ DeliveryInv
  BY DEF Orderly
<1>3. /\ requests \in Nat /\ nextSession \in Nat /\ nextSession' \in Nat /\ mSession \in Nat
      /\ nextSession <= nextSession' /\ nextSession < nextSession' /\ mSession # nextSession
      /\ nextSession \in 0..MaxRequests /\ requests' \in Numbers
  BY <1>1 DEF TypeInv, CountTyped, Numbers
<1>4. Push(QueueOf(id), Request("start", id)) /\ id \in Owner /\ "start" \in Op /\ id # "tracking"
  BY <1>1, IdFacts DEF Op
<1>5. /\ c \in CallRec /\ c.n = requests + 1 /\ c.session = nextSession /\ c.op = "start"
      /\ e.session = nextSession
  BY <1>3, <1>1 DEF Call, CallRec, Adapters, Op, Numbers
<1>. HIDE DEF c, e
<1>6. /\ DictInv' /\ forward'[id] = nextSession
      /\ \A p \in DOMAIN forward : forward'[p] = forward[p]
      /\ DOMAIN backward' = DOMAIN backward \union {nextSession}
      /\ \A s \in DOMAIN backward : backward'[s] = backward[s]
  BY <1>1, <1>2, <1>5, SetKeepsDict
<1>7. \A j \in 1..Len(calls) : calls[j].n = 0 => Aside(calls[j])
  BY <1>1, <1>2, <1>3, <1>6, StaysAside
<1>8. \A p \in waiting : SessionNext(p) = SessionOf(p)
  BY <1>1, <1>2, <1>6, WaitingOwners DEF SessionNext, SessionOf
<1>9. CallInv' /\ QueueInv' /\ Grown(id, c)
  <2>1. c.session = SessionNext(id) /\ c.session < nextSession'
    BY <1>3, <1>4, <1>5, <1>6 DEF SessionNext
  <2>. QED  BY <1>1, <1>2, <1>3, <1>4, <1>5, <1>7, <1>8, <2>1, OneCallQueued
<1>10. ResponseInv'
  <2>1. ASSUME response.op = "remove", response.session \in DOMAIN backward'
        PROVE  /\ response.session \in DOMAIN backward
               /\ backward'[response.session] = backward[response.session]
               /\ backward[response.session] # id
    <3>1. response.session < nextSession /\ response.session \in Nat
      BY <1>2, <2>1, ResponseTyped DEF ResponseInv, Handling
    <3>2. response.session \in DOMAIN backward
      BY <2>1, <3>1, <1>3, <1>6
    <3>. QED  BY <3>2, <1>1, <1>2, <1>6 DEF DictInv
  <2>. QED  BY <1>1, <1>2, <1>3, <1>5, <1>8, <1>9, <2>1, RequestKeepsResponse
<1>11. RunningInv'
  <2>1. \A j \in 1..Len(calls) : calls[j].op = "start" /\ calls[j].session = mSession' => mTracking'
    BY <1>1, <1>2, TrackingAgrees
  <2>. QED  BY <1>1, <1>2, <1>3, <1>5, <1>6, <1>9, <2>1, RequestKeepsRunning
<1>12. ClientInv' /\ DeliveryInv'
  BY <1>1, <1>2, ClientDone
<1>. QED  BY <1>6, <1>9, <1>10, <1>11, <1>12 DEF Orderly

\* The session of the request the client's thread is making
LEMMA LookedUp ==
    ASSUME TypeInv, Orderly, NEW op, Making(op), op # "none"
    PROVE  \E id \in Ids :
               /\ id = client.id /\ id \in DOMAIN forward /\ id \in believed
               /\ id \notin waiting /\ (waits = "all" => waiting = {})
               /\ forward[id] \in DOMAIN backward /\ backward[forward[id]] = id
               /\ Entity(id).session = forward[id] /\ Got(id) = forward
               /\ client'.op = "none"
<1>1. Looking /\ client'.op = "none"
  BY DEF Making, Looking
<1>2. /\ client.id \in Ids /\ client.id \in DOMAIN forward /\ client.id \in believed
      /\ client.id \notin waiting /\ (waits = "all" => waiting = {})
  BY <1>1 DEF Orderly, ClientInv, TypeInv, ThreadTyped
<1>3. /\ forward[client.id] \in DOMAIN backward /\ backward[forward[client.id]] = client.id
      /\ ext[forward[client.id]].session = forward[client.id]
      /\ forward[client.id] \in DOMAIN ext
  BY <1>2 DEF Orderly, DictInv, TypeInv, DictTyped
<1>. QED  BY <1>1, <1>2, <1>3 DEF Entity, Got

\* The session in the response is not removed while a request for it is made.
LEMMA LookedUpStays ==
    ASSUME TypeInv, ResponseInv, NEW id \in believed
    PROVE  response.op = "remove" /\ response.session \in DOMAIN backward =>
               backward[response.session] # id
  BY DEF ResponseInv, Handling

\* A request for a session that the maps keep as they are
LEMMA SameSessionKeeps ==
    ASSUME TypeInv, TypeInv', Orderly, NEW id \in Ids, id \in DOMAIN forward, id \in believed,
           id \notin waiting, waits = "all" => waiting = {}, DictInv',
           NEW op \in Op, op # "start", NEW mode, Push("session", Request(op, id)),
           calls' = Append(calls, Call(op, forward[id], requests + 1, mode)),
           requests' = requests + 1, waiting' = waiting \union {id}, client'.op = "none",
           UNCHANGED <<mTracking, mSession, nextSession, forward, backward, response, running,
                       waits, believed, delivery>>
    PROVE  Orderly'
<1>. DEFINE c == Call(op, forward[id], requests + 1, mode)
<1>1. DictInv /\ CallInv /\ QueueInv /\ ResponseInv /\ RunningInv /\ DeliveryInv
  BY DEF Orderly
<1>2. /\ requests \in Nat /\ nextSession \in Nat /\ nextSession' \in Nat /\ mSession \in Nat
      /\ nextSession <= nextSession' /\ requests' \in Numbers
  BY DEF TypeInv, CountTyped, Numbers
<1>3. Push(QueueOf(id), Request(op, id)) /\ id \in Owner /\ id # "tracking"
  BY IdFacts
<1>4. /\ forward[id] \in 0..MaxRequests /\ forward[id] # mSession /\ forward[id] < nextSession
      /\ forward[id] \in DOMAIN backward
  BY <1>1, MapValue DEF TypeInv, DictTyped, DictInv
<1>5. c \in CallRec /\ c.n = requests + 1 /\ c.session = forward[id] /\ c.op = op
  BY <1>2, <1>4 DEF Call, CallRec, Adapters, Numbers
<1>. HIDE DEF c
<1>6. \A j \in 1..Len(calls) : calls[j].n = 0 => Aside(calls[j])
  BY <1>1, <1>2, StaysAside
<1>7. \A p \in waiting : SessionNext(p) = SessionOf(p)
  BY DEF SessionNext, SessionOf
<1>8. CallInv' /\ QueueInv' /\ Grown(id, c)
  <2>1. c.session = SessionNext(id) /\ c.session < nextSession' /\ calls' = Append(calls, c)
    BY <1>3, <1>4, <1>5 DEF SessionNext, c
  <2>. QED  BY <1>1, <1>2, <1>3, <1>5, <1>6, <1>7, <2>1, OneCallQueued
<1>9. ResponseInv'
  BY <1>1, <1>2, <1>5, <1>7, <1>8, LookedUpStays, RequestKeepsResponse
<1>10. RunningInv'
  <2>1. \A j \in 1..Len(calls) : calls[j].op = "start" /\ calls[j].session = mSession' => mTracking'
    BY <1>1, TrackingAgrees
  <2>. QED  BY <1>1, <1>2, <1>5, <1>8, <2>1, RequestKeepsRunning
<1>11. ClientInv' /\ DeliveryInv'
  BY <1>1, ClientDone
<1>. QED  BY <1>8, <1>9, <1>10, <1>11 DEF Orderly

\* A request that leaves the maps alone leaves them in agreement.
LEMMA DictStays ==
    ASSUME TypeInv, DictInv, NEW id \in DOMAIN forward, waiting' = waiting \union {id},
           waits = "all" => waiting = {},
           UNCHANGED <<mSession, nextSession, forward, backward, ext, waits>>
    PROVE  DictInv'
<1>1. nextSession \in Nat
  BY DEF TypeInv, CountTyped
<1>. QED  BY <1>1, DictKept DEF dict

LEMMA StopSessionKeeps ==
    ASSUME TypeInv, TypeInv', Orderly, LocAPIStopSession
    PROVE  Orderly'
<1>1. Making("stop")
  BY DEF LocAPIStopSession
<1>2. PICK id \in Ids :
          /\ id = client.id /\ id \in DOMAIN forward /\ id \in believed
          /\ id \notin waiting /\ (waits = "all" => waiting = {})
          /\ Entity(id).session = forward[id] /\ Got(id) = forward
          /\ client'.op = "none"
  BY <1>1, LookedUp
<1>3. /\ Push("session", Request("stop", id))
      /\ calls' = Append(calls, Call("stop", forward[id], requests + 1, Entity(id).mode))
      /\ requests' = requests + 1 /\ waiting' = waiting \union {id}
      /\ UNCHANGED <<mTracking, mSession, nextSession, forward, backward, ext, response, running,
                     waits, believed, delivery>>
  BY <1>2 DEF LocAPIStopSession, Made
<1>4. "stop" \in Op /\ "stop" # "start"
  BY DEF Op
<1>5. DictInv'
  BY <1>2, <1>3, DictStays DEF Orderly
<1>. QED  BY <1>2, <1>3, <1>4, <1>5, SameSessionKeeps

\* The client's thread makes no call.
LEMMA NothingMadeKeeps ==
    ASSUME TypeInv, Orderly, client'.op = "none",
           UNCHANGED <<mTracking, mSession, queue, nextSession, forward, backward, ext, response,
                       calls, running, waits, requests, waiting, believed, delivery>>
    PROVE  Orderly'
<1>1. ClientInv' /\ DeliveryInv'
  BY ClientDone DEF Orderly
<1>2. DictInv' /\ CallInv'
  BY DEF Orderly, DictInv, CallInv, Calling
<1>3. QueueInv' /\ ResponseInv' /\ RunningInv'
  BY DEF Orderly, QueueInv, Entry, SessionOf, ResponseInv, Handling, RunningInv
<1>. QED  BY <1>1, <1>2, <1>3 DEF Orderly

LEMMA GetKeeps ==
    ASSUME TypeInv, TypeInv', Orderly, LocAPIGetBatchedLocations
    PROVE  Orderly'
<1>1. Making("get")
  BY DEF LocAPIGetBatchedLocations
<1>2. PICK id \in Ids :
          /\ id = client.id /\ id \in DOMAIN forward /\ id \in believed
          /\ id \notin waiting /\ (waits = "all" => waiting = {})
          /\ Entity(id).session = forward[id] /\ Got(id) = forward
          /\ client'.op = "none"
  BY <1>1, LookedUp
<1>3. UNCHANGED <<mTracking, mSession, nextSession, forward, backward, ext, response, running,
                  delivery>>
  BY <1>2 DEF LocAPIGetBatchedLocations
<1>4. CASE Entity(id).mode # "fix"
  <2>1. /\ Push("session", Request("get", id))
        /\ calls' = Append(calls, Call("get", forward[id], requests + 1, Entity(id).mode))
        /\ requests' = requests + 1 /\ waiting' = waiting \union {id}
        /\ UNCHANGED <<waits, believed>>
    BY <1>2, <1>4 DEF LocAPIGetBatchedLocations, Made
  <2>2. "get" \in Op /\ "get" # "start"
    BY DEF Op
  <2>3. DictInv'
    BY <1>2, <1>3, <2>1, DictStays DEF Orderly
  <2>. QED  BY <1>2, <1>3, <2>1, <2>2, <2>3, SameSessionKeeps
<1>5. CASE Entity(id).mode = "fix"
  <2>1. UNCHANGED <<queue, calls, waits, requests, waiting, believed>>
    BY <1>2, <1>5 DEF LocAPIGetBatchedLocations, user
  <2>. QED  BY <1>2, <1>3, <2>1, NothingMadeKeeps
<1>. QED  BY <1>4, <1>5

\* A session is replaced by another: one call stops the old one, one starts the new.
LEMMA SwitchKeeps ==
    ASSUME TypeInv, TypeInv', Orderly, NEW id \in Ids, id \in DOMAIN forward, id \in believed,
           id \notin waiting, waits = "all" => waiting = {},
           Push("session", Request("update", id)),
           NEW old, NEW mode,
           calls' = Append(Append(calls, Call("stop", forward[id], 0, old)),
                           Call("start", nextSession, requests + 1, mode)),
           requests < MaxRequests, nextSession' = nextSession + 1,
           NEW e, e.session = nextSession, Replace(id, nextSession, e),
           requests' = requests + 1, waiting' = waiting \union {id}, client'.op = "none",
           UNCHANGED <<mTracking, mSession, response, running, waits, believed, delivery>>
    PROVE  Orderly'
<1>. DEFINE z == Call("stop", forward[id], 0, old)
            c == Call("start", nextSession, requests + 1, mode)
            mid == Append(calls, z)
<1>1. DictInv /\ CallInv /\ QueueInv /\ ResponseInv /\ RunningInv /\ DeliveryInv
  BY DEF Orderly
<1>2. /\ requests \in Nat /\ nextSession \in Nat /\ nextSession' \in Nat /\ mSession \in Nat
      /\ nextSession <= nextSession' /\ nextSession < nextSession' /\ requests' \in Numbers
      /\ nextSession \in 0..MaxRequests /\ mSession # nextSession
  BY DEF TypeInv, CountTyped, Numbers
<1>3. /\ Push(QueueOf(id), Request("update", id)) /\ id \in Owner /\ id # "tracking"
      /\ "update" \in Op
  BY IdFacts DEF Op
<1>4. /\ forward[id] \in 0..MaxRequests /\ forward[id] # mSession /\ forward[id] < nextSession
      /\ forward[id] \in DOMAIN backward /\ forward[id] # nextSession
      /\ backward[forward[id]] = id
  BY <1>1, <1>2, MapValue DEF TypeInv, DictTyped, DictInv
<1>5. /\ c \in CallRec /\ c.n = requests + 1 /\ c.session = nextSession /\ c.op = "start"
      /\ z \in CallRec /\ z.n = 0 /\ z.session = forward[id] /\ z.op = "stop"
  BY <1>2, <1>4 DEF Call, CallRec, Adapters, Op, Numbers
<1>6. calls' = Append(mid, c)
  OBVIOUS
<1>. HIDE DEF c, z
<1>7. /\ DictInv' /\ forward'[id] = nextSession
      /\ \A p \in DOMAIN forward : p # id => forward'[p] = forward[p]
      /\ DOMAIN backward' = (DOMAIN backward \ {forward[id]}) \union {nextSession}
      /\ \A t \in DOMAIN backward' : t # nextSession => backward'[t] = backward[t]
  BY <1>1, <1>2, ReplaceKeepsDict
<1>8. \A j \in 1..Len(calls) : calls[j].n = 0 => Aside(calls[j])
  BY <1>1, <1>2, <1>7, StaysAside
<1>9. \A p \in waiting : SessionNext(p) = SessionOf(p)
  BY <1>1, <1>7, WaitingOwners DEF SessionNext, SessionOf
<1>10. Aside(z)
  BY <1>2, <1>4, <1>5, <1>7 DEF Aside
<1>11. /\ mid \in Seq(CallRec) /\ Len(mid) = Len(calls) + 1 /\ Len(calls) \in Nat
       /\ mid[Len(calls) + 1] = z
       /\ \A j \in 1..Len(calls) : mid[j] = calls[j]
  BY <1>5, AppendFacts DEF TypeInv, CallsTyped
<1>. HIDE DEF mid
<1>12. /\ Len(calls) <= Len(mid)
       /\ \A j \in 1..Len(calls) : mid[j] = calls[j] /\ (calls[j].n = 0 => Aside(calls[j]))
       /\ \A j \in 1..Len(mid) : Len(calls) < j => Aside(mid[j])
  BY <1>8, <1>10, <1>11
<1>13. /\ CallInv' /\ QueueInv' /\ Grown(id, c)
       /\ \A j \in 1..Len(mid) : j \in 1..Len(calls') /\ calls'[j] = mid[j]
  <2>1. /\ c.session = SessionNext(id) /\ c.session < nextSession'
        /\ ("update" \in {"start", "stop"} => c.op = "update")
    BY <1>2, <1>3, <1>5, <1>7 DEF SessionNext
  <2>2. CallInv /\ QueueInv /\ nextSession <= nextSession' /\ "update" \in Op /\ id \in Owner
    BY <1>1, <1>2, <1>3
  <2>3. c \in CallRec /\ c.n = requests + 1 /\ mid \in Seq(CallRec)
    BY <1>5, <1>11
  <2>4. Push(QueueOf(id), Request("update", id))
    BY <1>3
  <2>. QED  BY <1>6, <1>9, <1>12, <2>1, <2>2, <2>3, <2>4, RequestQueued
<1>14. ResponseInv'
  <2>1. ASSUME response.op = "remove", response.session \in DOMAIN backward'
        PROVE  /\ response.session \in DOMAIN backward
               /\ backward'[response.session] = backward[response.session]
               /\ backward[response.session] # id
    <3>1. response.session < nextSession /\ response.session \in Nat
      BY <1>1, <2>1, ResponseTyped DEF ResponseInv, Handling
    <3>2. response.session \in DOMAIN backward
      BY <2>1, <3>1, <1>2, <1>7
    <3>. QED  BY <2>1, <3>1, <3>2, <1>1, <1>2, <1>7, LookedUpStays
  <2>. QED  BY <1>1, <1>2, <1>5, <1>9, <1>13, <2>1, RequestKeepsResponse
<1>15. RunningInv'
  <2>1. \A j \in 1..Len(calls) : calls[j].op = "start" /\ calls[j].session = mSession' => mTracking'
    BY <1>1, TrackingAgrees
  <2>2. Len(calls) + 1 \in 1..Len(calls') /\ calls'[Len(calls) + 1] = z
    BY <1>11, <1>13
  <2>3. \A s \in running : s \in DOMAIN backward =>
            \/ s \in DOMAIN backward'
            \/ \E j \in 1..Len(calls') : calls'[j].op = "stop" /\ calls'[j].session = s
    BY <1>5, <1>7, <2>2
  <2>. QED  BY <1>1, <1>2, <1>5, <1>13, <2>1, <2>3, RequestKeepsRunning
<1>16. ClientInv' /\ DeliveryInv'
  BY <1>1, ClientDone
<1>. QED  BY <1>7, <1>13, <1>14, <1>15, <1>16 DEF Orderly

\* Maps with the same values are the same.
LEMMA SameMap ==
    ASSUME NEW S, NEW f, MapTo(f, S), NEW g, MapTo(g, S), DOMAIN f = DOMAIN g,
           \A x \in DOMAIN f : f[x] = g[x]
    PROVE  f = g
  BY DEF MapTo

\* An update of the same kind gives the session a new entity only.
LEMMA ReplaceInPlaceKeeps ==
    ASSUME TypeInv, TypeInv', DictInv, NEW id \in DOMAIN forward, NEW s, s = forward[id],
           NEW e, e.session = s, Replace(id, s, e), UNCHANGED <<mSession, nextSession, waits>>,
           waiting' = waiting \union {id}, waits = "all" => waiting = {}
    PROVE  DictInv' /\ forward' = forward /\ backward' = backward
<1>1. s \in {forward[id], nextSession} /\ s \in DOMAIN backward /\ backward[s] = id
  BY DEF DictInv
<1>2. nextSession' \in Nat /\ nextSession <= nextSession' /\ s < nextSession'
  BY <1>1, DictNumbers DEF DictInv
<1>3. /\ DictInv'
      /\ forward'[id] = s /\ DOMAIN forward' = DOMAIN forward
      /\ \A p \in DOMAIN forward : p # id => forward'[p] = forward[p]
      /\ DOMAIN backward' = (DOMAIN backward \ {forward[id]}) \union {s}
      /\ \A t \in DOMAIN backward' : t # s => backward'[t] = backward[t]
      /\ backward'[s] = id
  BY <1>1, <1>2, ReplaceKeepsDict
<1>4. forward' = forward
  <2>1. MapTo(forward, 0..MaxRequests) /\ MapTo(forward', 0..MaxRequests)
    BY DEF TypeInv, DictTyped
  <2>2. DOMAIN forward = DOMAIN forward' /\ \A p \in DOMAIN forward : forward[p] = forward'[p]
    BY <1>3
  <2>. QED  BY <2>1, <2>2, SameMap
<1>5. backward' = backward
  <2>1. MapTo(backward, Ids) /\ MapTo(backward', Ids)
    BY DEF TypeInv, DictTyped
  <2>2. DOMAIN backward = DOMAIN backward' /\ \A t \in DOMAIN backward : backward[t] = backward'[t]
    BY <1>1, <1>3
  <2>. QED  BY <2>1, <2>2, SameMap
<1>. QED  BY <1>3, <1>4, <1>5

LEMMA UpdateSessionKeeps ==
    ASSUME TypeInv, TypeInv', Orderly, LocAPIUpdateSessionOptions
    PROVE  Orderly'
<1>1. Making("update")
  BY DEF LocAPIUpdateSessionOptions
<1>2. PICK id \in Ids :
          /\ id = client.id /\ id \in DOMAIN forward /\ id \in believed
          /\ id \notin waiting /\ (waits = "all" => waiting = {})
          /\ forward[id] \in DOMAIN backward /\ backward[forward[id]] = id
          /\ Entity(id).session = forward[id] /\ Got(id) = forward
          /\ client'.op = "none"
  BY <1>1, LookedUp
<1>3. PICK mode : mode = client.mode
  OBVIOUS
<1>4. /\ Push("session", Request("update", id))
      /\ requests' = requests + 1 /\ waiting' = waiting \union {id}
      /\ UNCHANGED <<mTracking, mSession, response, running, waits, believed, delivery>>
  BY <1>2 DEF LocAPIUpdateSessionOptions, Made
<1>5. requests < MaxRequests
  BY <1>1 DEF Making, TypeInv, ThreadTyped, Looking
<1>6. calls \in Seq(CallRec) /\ DictInv
  BY DEF TypeInv, CallsTyped, Orderly
<1>7. CASE (Entity(id).mode = "fix") # (mode = "fix")
  <2>. DEFINE e == [session |-> nextSession, mode |-> mode]
              z == Call("stop", forward[id], 0, Entity(id).mode)
              c == Call("start", nextSession, requests + 1, mode)
  <2>1. /\ calls' = calls \o <<z, c>> /\ nextSession' = nextSession + 1
        /\ Replace(id, nextSession, e)
    BY <1>2, <1>3, <1>4, <1>7 DEF LocAPIUpdateSessionOptions
  <2>2. z \in CallRec /\ c \in CallRec
    <3>1. forward[id] \in 0..MaxRequests
      BY <1>2, MapValue DEF TypeInv, DictTyped
    <3>. QED  BY <3>1, <1>5, Counts DEF Call, CallRec, Adapters, Op, Numbers
  <2>3. e.session = nextSession
    OBVIOUS
  <2>. HIDE DEF e
  <2>4. calls' = Append(Append(calls, z), c)
    <3>. HIDE DEF z, c
    <3>. QED  BY <1>6, <2>1, <2>2
  <2>. QED  BY <1>2, <1>4, <1>5, <2>1, <2>3, <2>4, SwitchKeeps
<1>8. CASE (Entity(id).mode = "fix") = (mode = "fix")
  <2>1. PICK s, e : s = forward[id] /\ e = [session |-> s, mode |-> mode]
    OBVIOUS
  <2>. DEFINE c == Call("update", forward[id], requests + 1, mode)
  <2>2. calls' = calls \o <<c>> /\ nextSession' = nextSession /\ Replace(id, s, e)
    BY <1>2, <1>3, <1>4, <1>8, <2>1 DEF LocAPIUpdateSessionOptions
  <2>3. c \in CallRec
    <3>1. forward[id] \in 0..MaxRequests
      BY <1>2, MapValue DEF TypeInv, DictTyped
    <3>. QED  BY <3>1, <1>5, Counts DEF Call, CallRec, Adapters, Op, Numbers
  <2>4. calls' = Append(calls, c)
    <3>. HIDE DEF c
    <3>. QED  BY <1>6, <2>2, <2>3
  <2>5. DictInv' /\ forward' = forward /\ backward' = backward
    <3>1. id \in DOMAIN forward /\ e.session = s /\ (waits = "all" => waiting = {})
      BY <1>2, <2>1
    <3>2. UNCHANGED <<mSession, nextSession, waits>>
      BY <1>4, <2>2
    <3>. QED  BY <1>4, <1>6, <2>1, <2>2, <3>1, <3>2, ReplaceInPlaceKeeps
  <2>6. "update" \in Op /\ "update" # "start"
    BY DEF Op
  <2>. QED  BY <1>2, <1>4, <2>2, <2>4, <2>5, <2>6, SameSessionKeeps
<1>. QED  BY <1>7, <1>8

LEMMA LookUpKeeps ==
    ASSUME TypeInv, Orderly, NEW id \in Ids, NEW op \in {"stop", "get", "update"}, NEW mode,
           LookUp(op, id, mode)
    PROVE  Orderly'
<1>1. /\ client' = [op |-> op, id |-> id, mode |-> mode]
      /\ id \in DOMAIN forward /\ id \in believed /\ id \notin waiting
      /\ (waits = "all" => waiting = {})
      /\ UNCHANGED <<mTracking, mSession, queue, nextSession, forward, backward, ext, response,
                     calls, running, waits, requests, waiting, believed, delivery>>
  BY DEF LookUp, Asks, library, dict, user
<1>2. ClientInv'
  BY <1>1 DEF ClientInv
<1>3. DictInv' /\ CallInv'
  BY <1>1 DEF Orderly, DictInv, CallInv, Calling
<1>4. QueueInv' /\ ResponseInv' /\ RunningInv' /\ DeliveryInv'
  BY <1>1 DEF Orderly, QueueInv, Entry, SessionOf, ResponseInv, Handling, RunningInv, DeliveryInv
<1>. QED  BY <1>2, <1>3, <1>4 DEF Orderly

-----------------------------------------------------------------------------
(* A response *)

\* The request taken is the one the call answers; a call on the side takes none.
LEMMA ResponseTaken ==
    ASSUME TypeInv, DictInv, CallInv, QueueInv, NEW i \in 1..Len(calls), waits = "id" => i = 1
    PROVE  /\ calls[i].n = 0 => Taken(calls[i].session) = "none"
           /\ calls[i].n # 0 => \E q \in Queues :
                  /\ Taken(calls[i].session) = q /\ queue[q] # <<>> /\ 1 \in 1..Len(queue[q])
                  /\ Answers(i, q, 1)
<1>1. ASSUME calls[i].n = 0
      PROVE  Taken(calls[i].session) = "none"
  BY <1>1 DEF CallInv, Calling, Taken
<1>2. ASSUME calls[i].n # 0
      PROVE  \E q \in Queues :
                  /\ Taken(calls[i].session) = q /\ queue[q] # <<>> /\ 1 \in 1..Len(queue[q])
                  /\ Answers(i, q, 1)
  <2>1. PICK q \in Queues : \E k \in 1..Len(queue[q]) : Answers(i, q, k)
    BY <1>2, CallOfRequest
  <2>2. PICK k \in 1..Len(queue[q]) : Answers(i, q, k)
    BY <2>1
  <2>3. queue[q] # <<>> /\ 1 \in 1..Len(queue[q]) /\ k \in Nat
    BY <2>2, EntryFields
  <2>4. k = 1
    <3>. SUFFICES ASSUME 1 < k
                  PROVE  FALSE
      BY <2>2, <2>3
    <3>1. queue[q][1].n < queue[q][k].n /\ queue[q][1].owner # queue[q][k].owner
      BY <2>2, <2>3 DEF QueueInv
    <3>2. Entry(queue[q][1], q) /\ Entry(queue[q][k], q)
      BY <2>2, <2>3 DEF QueueInv
    <3>3. CASE waits = "id"
      <4>1. PICK j \in 1..Len(calls) : calls[j].n = queue[q][1].n
        BY <3>2 DEF Entry
      <4>2. /\ calls[j].n < calls[1].n /\ calls[j].n # 0 /\ 1 \in 1..Len(calls)
            /\ calls[j].n \in Nat /\ calls[1].n \in Nat
        BY <1>2, <2>2, <2>3, <3>1, <3>3, <4>1, EntryFields, CallFields DEF Answers
      <4>3. 1 < j
        BY <4>2
      <4>4. calls[1].n < calls[j].n
        BY <1>2, <3>3, <4>2, <4>3 DEF CallInv
      <4>. QED  BY <4>2, <4>4
    <3>4. CASE waits = "all"
      BY <3>1, <3>2, <3>4 DEF Entry, DictInv
    <3>. QED  BY <3>3, <3>4 DEF TypeInv, UserTyped
  <2>5. PICK o \in waiting : o = queue[q][k].owner /\ QueueOf(o) = q /\ calls[i].session = SessionOf(o)
    BY <2>2 DEF Answers
  <2>6. Taken(calls[i].session) = q
    <3>1. CASE o = "tracking"
      BY <2>3, <2>5, <3>1 DEF Taken, SessionOf, QueueOf
    <3>2. CASE o # "tracking"
      BY <2>3, <2>5, <3>2, WaitingOwners DEF Taken, SessionOf, QueueOf
    <3>. QED  BY <3>1, <3>2
  <2>. QED  BY <2>2, <2>3, <2>4, <2>6
<1>. QED  BY <1>1, <1>2

\* What is left once the i-th call is done, and the request it answers taken
Left(i) ==
    /\ \A j \in 1..Len(calls') :
           \E m \in 1..Len(calls) : m # i /\ m = Before(i, j) /\ calls'[j] = calls[m]
    /\ \A m \in 1..Len(calls) : m # i => \E j \in 1..Len(calls') : calls'[j] = calls[m]
    /\ \A q \in Queues : \E d \in {0, 1} : \A k \in 1..Len(queue'[q]) :
           /\ k + d \in 1..Len(queue[q]) /\ queue'[q][k] = queue[q][k + d]
           /\ queue[q][k + d].n # calls[i].n
    /\ \A q \in Queues : \A l \in 1..Len(queue[q]) : queue[q][l].n # calls[i].n =>
           \E k \in 1..Len(queue'[q]) : queue'[q][k] = queue[q][l]

LEMMA CallsLeft ==
    ASSUME TypeInv, NEW i \in 1..Len(calls), calls' = Rest(calls, i)
    PROVE  /\ \A j \in 1..Len(calls') :
                  \E m \in 1..Len(calls) : m # i /\ m = Before(i, j) /\ calls'[j] = calls[m]
           /\ \A m \in 1..Len(calls) : m # i => \E j \in 1..Len(calls') : calls'[j] = calls[m]
<1>1. calls \in Seq(CallRec)
  BY DEF TypeInv, CallsTyped
<1>2. /\ \A j \in 1..Len(Rest(calls, i)) :
             /\ Before(i, j) \in 1..Len(calls) /\ Before(i, j) # i
             /\ Rest(calls, i)[j] = calls[Before(i, j)]
      /\ \A m \in 1..Len(calls) : m # i =>
             /\ After(i, m) \in 1..Len(Rest(calls, i))
             /\ Rest(calls, i)[After(i, m)] = calls[m]
  BY <1>1, RestFacts
<1>. QED  BY <1>2

\* The other requests have other numbers.
LEMMA OtherNumbers ==
    ASSUME TypeInv, DictInv, CallInv, QueueInv, NEW i \in 1..Len(calls), calls[i].n # 0,
           NEW q \in Queues, 1 \in 1..Len(queue[q]), Answers(i, q, 1),
           NEW p \in Queues, NEW l \in 1..Len(queue[p]), p # q \/ l # 1
    PROVE  queue[p][l].n # calls[i].n /\ queue[p][l].owner # queue[q][1].owner
<1>1. Entry(queue[p][l], p) /\ QueueOf(queue[q][1].owner) = q
  BY DEF QueueInv, Answers
<1>2. CASE p = q
  <2>1. 1 < l
    BY <1>2
  <2>2. queue[q][1].n < queue[q][l].n /\ queue[q][1].owner # queue[q][l].owner
    BY <1>2, <2>1 DEF QueueInv
  <2>. QED  BY <1>2, <2>2, EntryFields DEF Answers
<1>3. CASE p # q
  <2>1. queue[p][l].owner # queue[q][1].owner
    BY <1>1, <1>3 DEF Entry
  <2>2. ASSUME queue[p][l].n = calls[i].n
        PROVE  FALSE
    <3>1. PICK j \in 1..Len(calls) :
              calls[j].n = queue[p][l].n /\ calls[j].session = SessionOf(queue[p][l].owner)
      BY <1>1 DEF Entry
    <3>2. i = j
      BY <2>2, <3>1, SameNumber
    <3>3. SessionOf(queue[p][l].owner) = SessionOf(queue[q][1].owner)
      BY <3>1, <3>2 DEF Answers
    <3>. QED  BY <1>1, <2>1, <3>3, OwnersDiffer DEF Entry, Answers
  <2>. QED  BY <2>1, <2>2
<1>. QED  BY <1>2, <1>3

LEMMA RequestsLeft ==
    ASSUME TypeInv, DictInv, CallInv, QueueInv, NEW i \in 1..Len(calls), calls' = Rest(calls, i),
           waits = "id" => i = 1,
           NEW s, s = calls[i].session,
           Taken(s) = "none" => queue' = queue,
           Taken(s) # "none" => queue' = [queue EXCEPT ![Taken(s)] = Tail(@)]
    PROVE  Left(i)
<1>1. CASE calls[i].n = 0
  <2>1. queue' = queue
    BY <1>1, ResponseTaken
  <2>2. \A q \in Queues : \A l \in 1..Len(queue[q]) : queue[q][l].n # calls[i].n
    BY <1>1, EntryFields
  <2>3. \A q \in Queues : \A k \in 1..Len(queue'[q]) :
            k + 0 \in 1..Len(queue[q]) /\ queue'[q][k] = queue[q][k + 0]
            /\ queue[q][k + 0].n # calls[i].n
    BY <2>1, <2>2
  <2>4. \A q \in Queues : \A l \in 1..Len(queue[q]) : queue[q][l].n # calls[i].n =>
            \E k \in 1..Len(queue'[q]) : queue'[q][k] = queue[q][l]
    BY <2>1
  <2>. QED  BY <2>3, <2>4, CallsLeft DEF Left
<1>2. CASE calls[i].n # 0
  <2>1. PICK q \in Queues : /\ Taken(s) = q /\ queue[q] # <<>> /\ 1 \in 1..Len(queue[q])
                            /\ Answers(i, q, 1)
    BY <1>2, ResponseTaken
  <2>2. queue' = [queue EXCEPT ![q] = Tail(@)]
    BY <2>1 DEF Queues
  <2>3. queue'[q] = Tail(queue[q]) /\ queue[q] \in Seq(RequestRec) /\ Len(queue[q]) \in Nat
    BY <2>1, <2>2, EntryFields DEF TypeInv, QueueTyped
  <2>4. \A p \in Queues \ {q} : queue'[p] = queue[p]
    BY <2>2 DEF TypeInv, QueueTyped
  <2>5. /\ Len(queue'[q]) = Len(queue[q]) - 1
        /\ \A k \in 1..Len(queue'[q]) : k + 1 \in 1..Len(queue[q]) /\ queue'[q][k] = queue[q][k + 1]
    BY <2>1, <2>3, TailFacts
  <2>6. ASSUME NEW p \in Queues
        PROVE  \E d \in {0, 1} : \A k \in 1..Len(queue'[p]) :
                   /\ k + d \in 1..Len(queue[p]) /\ queue'[p][k] = queue[p][k + d]
                   /\ queue[p][k + d].n # calls[i].n
    <3>1. CASE p = q
      <4>1. \A k \in 1..Len(queue'[p]) :
                k + 1 \in 1..Len(queue[p]) /\ queue'[p][k] = queue[p][k + 1] /\ k + 1 # 1
        BY <2>5, <3>1
      <4>2. \A k \in 1..Len(queue'[p]) : queue[p][k + 1].n # calls[i].n
        BY <1>2, <2>1, <4>1, OtherNumbers
      <4>. QED  BY <4>1, <4>2
    <3>2. CASE p # q
      <4>1. \A k \in 1..Len(queue'[p]) :
                k + 0 \in 1..Len(queue[p]) /\ queue'[p][k] = queue[p][k + 0]
        BY <2>4, <3>2
      <4>2. \A k \in 1..Len(queue'[p]) : queue[p][k + 0].n # calls[i].n
        BY <1>2, <2>1, <3>2, <4>1, OtherNumbers
      <4>. QED  BY <4>1, <4>2
    <3>. QED  BY <3>1, <3>2
  <2>7. ASSUME NEW p \in Queues, NEW l \in 1..Len(queue[p]), queue[p][l].n # calls[i].n
        PROVE  \E k \in 1..Len(queue'[p]) : queue'[p][k] = queue[p][l]
    <3>1. CASE p = q
      <4>1. l # 1
        BY <2>1, <2>7, <3>1 DEF Answers
      <4>2. l - 1 \in 1..Len(queue'[q]) /\ (l - 1) + 1 = l
        BY <2>3, <2>5, <3>1, <4>1
      <4>3. queue'[q][l - 1] = queue[q][(l - 1) + 1]
        BY <2>5, <4>2
      <4>4. queue'[q][l - 1] = queue[q][l]
        BY <4>2, <4>3
      <4>. QED  BY <3>1, <4>2, <4>4
    <3>2. CASE p # q
      BY <2>4, <3>2
    <3>. QED  BY <3>1, <3>2
  <2>. QED  BY <2>6, <2>7, CallsLeft DEF Left
<1>. QED  BY <1>1, <1>2

LEMMA LeftInOrder ==
    ASSUME TypeInv, DictInv, CallInv, QueueInv, NEW i \in 1..Len(calls), Left(i),
           UNCHANGED <<mSession, forward, backward, nextSession, requests, waiting>>
    PROVE  CallInv' /\ QueueInv'
<1>1. ASSUME NEW j \in 1..Len(calls')
      PROVE  CallingNext(calls'[j])
  <2>1. PICK m \in 1..Len(calls) : m # i /\ calls'[j] = calls[m]
    BY DEF Left
  <2>2. Calling(calls[m])
    BY DEF CallInv
  <2>3. ASSUME calls[m].n # 0
        PROVE  \E q \in Queues : \E k \in 1..Len(queue'[q]) : queue'[q][k].n = calls[m].n
    <3>1. PICK q \in Queues : \E l \in 1..Len(queue[q]) : queue[q][l].n = calls[m].n
      BY <2>2, <2>3 DEF Calling
    <3>2. PICK l \in 1..Len(queue[q]) : queue[q][l].n = calls[m].n
      BY <3>1
    <3>3. queue[q][l].n # calls[i].n
      BY <2>1, <2>3, <3>2, SameNumber
    <3>4. \E k \in 1..Len(queue'[q]) : queue'[q][k] = queue[q][l]
      BY <3>3 DEF Left
    <3>. QED  BY <3>2, <3>4
  <2>. QED  BY <2>1, <2>2, <2>3 DEF Calling, CallingNext
<1>2. ASSUME NEW j \in 1..Len(calls'), NEW k \in 1..Len(calls'), j < k,
             calls'[j].n # 0, calls'[k].n # 0
      PROVE  calls'[j].n < calls'[k].n
  <2>1. PICK m \in 1..Len(calls) : m = Before(i, j) /\ calls'[j] = calls[m]
    BY DEF Left
  <2>2. PICK n \in 1..Len(calls) : n = Before(i, k) /\ calls'[k] = calls[n]
    BY DEF Left
  <2>3. m < n
    BY <1>2, <2>1, <2>2 DEF Before
  <2>. QED  BY <1>2, <2>1, <2>2, <2>3 DEF CallInv
<1>3. ASSUME NEW q \in Queues, NEW k \in 1..Len(queue'[q])
      PROVE  EntryNext(queue'[q][k], q)
  <2>1. PICK l \in 1..Len(queue[q]) : queue'[q][k] = queue[q][l] /\ queue[q][l].n # calls[i].n
    <3>1. PICK d \in {0, 1} : \A m \in 1..Len(queue'[q]) :
              /\ m + d \in 1..Len(queue[q]) /\ queue'[q][m] = queue[q][m + d]
              /\ queue[q][m + d].n # calls[i].n
      BY DEF Left
    <3>. QED  BY <3>1
  <2>2. Entry(queue[q][l], q)
    BY DEF QueueInv
  <2>3. PICK m \in 1..Len(calls) :
            /\ calls[m].n = queue[q][l].n /\ calls[m].session = SessionOf(queue[q][l].owner)
            /\ queue[q][l].op \in {"start", "stop"} => calls[m].op = queue[q][l].op
    BY <2>2 DEF Entry
  <2>4. m # i
    BY <2>1, <2>3
  <2>5. PICK j \in 1..Len(calls') : calls'[j] = calls[m]
    BY <2>4 DEF Left
  <2>6. SessionNext(queue[q][l].owner) = SessionOf(queue[q][l].owner)
    BY DEF SessionNext, SessionOf
  <2>. QED  BY <2>1, <2>2, <2>3, <2>5, <2>6 DEF Entry, EntryNext
<1>4. ASSUME NEW q \in Queues, NEW k \in 1..Len(queue'[q]), NEW l \in 1..Len(queue'[q]), k < l
      PROVE  queue'[q][k].n < queue'[q][l].n /\ queue'[q][k].owner # queue'[q][l].owner
  <2>1. PICK d \in {0, 1} : \A m \in 1..Len(queue'[q]) :
            m + d \in 1..Len(queue[q]) /\ queue'[q][m] = queue[q][m + d]
    BY DEF Left
  <2>2. /\ k + d \in 1..Len(queue[q]) /\ queue'[q][k] = queue[q][k + d]
        /\ l + d \in 1..Len(queue[q]) /\ queue'[q][l] = queue[q][l + d]
    BY <2>1
  <2>3. k + d < l + d
    BY <1>4
  <2>. QED  BY <2>2, <2>3 DEF QueueInv
<1>5. CallInv'
  BY <1>1, <1>2, CallsNext
<1>6. QueueInv'
  BY <1>3, <1>4, QueuesNext
<1>. QED  BY <1>5, <1>6

\* What the calls that are left say of what runs
LEMMA DoneRunning ==
    ASSUME TypeInv, DictInv, CallInv, QueueInv, RunningInv, NEW i \in DOMAIN calls,
           NEW error \in BOOLEAN, Done(i, error), Left(i), ~lost',
           UNCHANGED <<mTracking, mSession, backward, nextSession>>
    PROVE  RunningInv'
<1>1. /\ i \in 1..Len(calls) /\ CallTyped(calls[i]) /\ Calling(calls[i])
      /\ running' \subseteq running \union (IF calls[i].op = "start" THEN {calls[i].session} ELSE {})
      /\ calls[i].op = "stop" => calls[i].session \notin running' \ DOMAIN backward
  BY DoneFacts DEF CallInv
<1>2. ASSUME calls[i].op = "start"
      PROVE  /\ \/ calls[i].session \in DOMAIN backward
                \/ calls[i].session = mSession /\ mTracking
             /\ \A m \in 1..Len(calls) : m # i => calls[m].session # calls[i].session
  <2>1. calls[i].n # 0
    BY <1>1, <1>2 DEF Calling
  <2>2. PICK q \in Queues : /\ Taken(calls[i].session) = q /\ queue[q] # <<>> /\ 1 \in
                                                                           1..Len(queue[q])
                            /\ Answers(i, q, 1)
    BY <1>1, <2>1, ResponseTaken, DoneFacts
  <2>3. calls[i].session = mSession \/ calls[i].session \in DOMAIN backward
    BY <2>2, WaitingOwners DEF Answers, SessionOf
  <2>4. calls[i].session = mSession => mTracking
    BY <1>1, <1>2 DEF RunningInv
  <2>5. \A m \in 1..Len(calls) : m # i => calls[m].session # calls[i].session
    BY <1>1, <2>1, CallsApart
  <2>. QED  BY <2>3, <2>4, <2>5
<1>3. ASSUME NEW s \in running'
      PROVE  /\ \/ s \in DOMAIN backward'
                \/ s = mSession' /\ mTracking'
                \/ \E j \in 1..Len(calls') : calls'[j].op = "stop" /\ calls'[j].session = s
             /\ s < nextSession'
  <2>1. CASE calls[i].op = "start" /\ s = calls[i].session
    BY <1>1, <1>2, <2>1 DEF Calling
  <2>2. CASE s \in DOMAIN backward
    BY <1>1, <1>2, <1>3, <2>2 DEF RunningInv, Calling
  <2>3. CASE s \in running /\ s \notin DOMAIN backward
    <3>1. ASSUME NEW m \in 1..Len(calls), calls[m].op = "stop", calls[m].session = s
          PROVE  \E j \in 1..Len(calls') : calls'[j].op = "stop" /\ calls'[j].session = s
      <4>1. m # i
        BY <1>1, <1>3, <2>3, <3>1
      <4>2. PICK j \in 1..Len(calls') : calls'[j] = calls[m]
        BY <4>1 DEF Left
      <4>. QED  BY <3>1, <4>2
    <3>. QED  BY <2>3, <3>1 DEF RunningInv
  <2>. QED  BY <1>1, <1>3, <2>1, <2>2, <2>3
<1>4. ASSUME NEW j \in 1..Len(calls'), calls'[j].op = "start"
      PROVE  calls'[j].session \notin running' /\ (calls'[j].session = mSession' => mTracking')
  <2>1. PICK m \in 1..Len(calls) : m # i /\ calls'[j] = calls[m]
    BY DEF Left
  <2>. QED  BY <1>1, <1>2, <1>4, <2>1 DEF RunningInv
<1>. QED  BY <1>3, <1>4 DEF RunningInv

\* The response that the location API's thread takes in hand
LEMMA TakenInHand ==
    ASSUME TypeInv, DictInv, CallInv, QueueInv, RunningInv, NEW i \in DOMAIN calls,
           NEW error \in BOOLEAN, Done(i, error), Left(i), calls[i].n # 0,
           NEW q \in Queues, 1 \in 1..Len(queue[q]), Answers(i, q, 1),
           NEW e, e = queue[q][1],
           \A k \in 1..Len(queue'[q]) : queue'[q][k] = queue[q][k + 1] /\ k + 1 \in 1..Len(queue[q]),
           \A p \in Queues \ {q} : queue'[p] = queue[p],
           response' = [op |-> e.op, owner |-> e.owner, session |-> calls[i].session,
                        error |-> error],
           UNCHANGED <<mSession, forward, backward, nextSession, waiting>>
    PROVE  ResponseInv'
<1>1. /\ i \in 1..Len(calls) /\ Calling(calls[i])
      /\ calls[i].op = "start" => running' = IF error THEN running
                                             ELSE running \union {calls[i].session}
      /\ calls[i].op = "stop" /\ ~error => running' = running \ {calls[i].session}
  BY DoneFacts DEF CallInv
<1>2. /\ response'.op = e.op /\ response'.owner = e.owner /\ response'.session = calls[i].session
      /\ response'.error = error
  OBVIOUS
<1>3. /\ e.op \in Op /\ e.op # "remove" /\ e.owner \in waiting
      /\ calls[i].session = SessionOf(e.owner)
      /\ e.op \in {"start", "stop"} => calls[i].op = e.op
  BY EntryFields DEF Answers, Op
<1>4. \A j \in 1..Len(calls') : calls'[j].op = "start" => calls'[j].session # calls[i].session
  <2>. SUFFICES ASSUME NEW j \in 1..Len(calls'), calls'[j].op = "start"
                PROVE  calls'[j].session # calls[i].session
    OBVIOUS
  <2>1. PICK m \in 1..Len(calls) : m # i /\ calls'[j] = calls[m]
    BY DEF Left
  <2>. QED  BY <1>1, <2>1, CallsApart
<1>5. \A p \in Queues : \A k \in 1..Len(queue'[p]) : queue'[p][k].owner # e.owner
  <2>. SUFFICES ASSUME NEW p \in Queues, NEW k \in 1..Len(queue'[p])
                PROVE  queue'[p][k].owner # e.owner
    OBVIOUS
  <2>1. CASE p = q
    <3>1. PICK l \in 1..Len(queue[p]) : l = k + 1 /\ queue'[p][k] = queue[p][l]
      BY <2>1
    <3>2. l # 1
      BY <3>1
    <3>. QED  BY <3>1, <3>2, <1>1, OtherNumbers
  <2>2. CASE p # q
    BY <2>2, <1>1, OtherNumbers
  <2>. QED  BY <2>1, <2>2
<1>6. SessionNext(e.owner) = SessionOf(e.owner)
  BY DEF SessionNext, SessionOf
<1>7. /\ response'.op = "start" /\ response'.error => response'.session \notin running'
      /\ response'.op = "stop" /\ ~response'.error => response'.session \notin running'
  BY <1>1, <1>2, <1>3 DEF RunningInv
<1>. QED  BY <1>1, <1>2, <1>3, <1>4, <1>5, <1>6, <1>7 DEF ResponseInv, Calling, SessionOf, SessionNext

LEMMA ResponseKeeps ==
    ASSUME TypeInv, TypeInv', Orderly, NEW i \in DOMAIN calls, NEW error \in BOOLEAN,
           OnResponseCb(i, error), ~lost'
    PROVE  Orderly'
<1>. DEFINE c == calls[i]
<1>1. DictInv /\ CallInv /\ QueueInv /\ RunningInv
  BY DEF Orderly
<1>2. PICK s : s = c.session
  OBVIOUS
<1>3. /\ Done(i, error) /\ response.op = "none" /\ client.op = "none"
      /\ UNCHANGED <<mTracking, mSession, forward, backward, ext, nextSession, client, waits,
                     requests, waiting, believed>>
      /\ \/ /\ Taken(s) = "none" /\ UNCHANGED <<queue, response>>
            /\ delivery' = [request |-> 0, call |-> c.n]
         \/ /\ Taken(s) # "none" /\ queue' = [queue EXCEPT ![Taken(s)] = Tail(@)]
            /\ response' = [op |-> Head(queue[Taken(s)]).op, owner |-> Head(queue[Taken(s)]).owner,
                            session |-> s, error |-> error]
            /\ delivery' = [request |-> Head(queue[Taken(s)]).n, call |-> c.n]
  BY <1>2, TakenFacts DEF OnResponseCb, Take, Free, user, dict
<1>4. /\ i \in 1..Len(calls) /\ calls' = Rest(calls, i) /\ (waits = "id" => i = 1)
  BY <1>3, DoneFacts
<1>5. Left(i)
  BY <1>1, <1>2, <1>3, <1>4, RequestsLeft
<1>6. CallInv' /\ QueueInv'
  BY <1>1, <1>3, <1>4, <1>5, LeftInOrder
<1>7. RunningInv'
  BY <1>1, <1>3, <1>5, DoneRunning
<1>8. DictInv' /\ ClientInv'
  BY <1>1, <1>3 DEF DictInv, ClientInv, Looking
<1>9. ResponseInv' /\ DeliveryInv'
  <2>1. CASE c.n = 0
    <3>1. Taken(s) = "none"
      BY <1>1, <1>2, <1>4, <2>1, ResponseTaken
    <3>. QED  BY <1>3, <3>1 DEF ResponseInv, Handling, DeliveryInv
  <2>2. CASE c.n # 0
    <3>1. PICK q \in Queues : /\ Taken(s) = q /\ queue[q] # <<>> /\ 1 \in 1..Len(queue[q])
                              /\ Answers(i, q, 1)
      BY <1>1, <1>2, <1>4, <2>2, ResponseTaken
    <3>2. q # "none" /\ queue[q] \in Seq(RequestRec) /\ queue \in [Queues -> Seq(RequestRec)]
      BY <3>1 DEF Queues, TypeInv, QueueTyped
    <3>3. PICK e : e = queue[q][1]
      OBVIOUS
    <3>4. Head(queue[q]) = e
      BY <3>1, <3>2, <3>3, TailFacts
    <3>5. /\ queue' = [queue EXCEPT ![q] = Tail(@)]
          /\ response' = [op |-> e.op, owner |-> e.owner, session |-> c.session, error |-> error]
          /\ delivery' = [request |-> e.n, call |-> c.n]
      BY <1>2, <1>3, <3>1, <3>2, <3>4
    <3>6. DeliveryInv'
      BY <3>1, <3>3, <3>5 DEF DeliveryInv, Answers
    <3>7. /\ \A k \in 1..Len(queue'[q]) :
                 queue'[q][k] = queue[q][k + 1] /\ k + 1 \in 1..Len(queue[q])
          /\ \A p \in Queues \ {q} : queue'[p] = queue[p]
      BY <3>1, <3>2, <3>5, TailFacts
    <3>8. ResponseInv'
      BY <1>1, <1>3, <1>5, <2>2, <3>1, <3>3, <3>5, <3>7, TakenInHand
    <3>. QED  BY <3>6, <3>8
  <2>. QED  BY <2>1, <2>2
<1>. QED  BY <1>6, <1>7, <1>8, <1>9 DEF Orderly

\* A batching adapter's silence: the call was one on the side.
LEMMA RefusedKeeps ==
    ASSUME TypeInv, TypeInv', Orderly, NEW i \in DOMAIN calls, Refused(i), ~lost'
    PROVE  Orderly'
<1>1. DictInv /\ CallInv /\ QueueInv /\ ResponseInv /\ ClientInv /\ RunningInv /\ DeliveryInv
  BY DEF Orderly
<1>2. /\ DoneWith(i) /\ calls[i].n = 0 /\ calls[i].session \notin running
      /\ UNCHANGED <<mTracking, mSession, queue, forward, backward, ext, nextSession, client,
                     response, running, waits, requests, waiting, believed, delivery>>
  BY DEF Refused, library, dict, user
<1>3. i \in 1..Len(calls) /\ calls' = Rest(calls, i) /\ (waits = "id" => i = 1)
  BY <1>2, DoneWithFacts
<1>4. Left(i)
  <2>1. PICK s : s = calls[i].session
    OBVIOUS
  <2>2. Taken(s) = "none"
    BY <1>1, <1>2, <1>3, <2>1, ResponseTaken
  <2>. QED  BY <1>1, <1>2, <1>3, <2>1, <2>2, RequestsLeft
<1>5. CallInv' /\ QueueInv'
  BY <1>1, <1>2, <1>3, <1>4, LeftInOrder
<1>6. DictInv' /\ ClientInv' /\ DeliveryInv'
  BY <1>1, <1>2 DEF DictInv, ClientInv, Looking, DeliveryInv
<1>7. \A j \in 1..Len(calls') : \E m \in 1..Len(calls) : calls'[j] = calls[m]
  BY <1>4 DEF Left
<1>8. ResponseInv'
  <2>1. SessionNext(response.owner) = SessionOf(response.owner)
    BY <1>2 DEF SessionNext, SessionOf
  <2>2. Handling => \A j \in 1..Len(calls') :
                        calls'[j].op = "start" => calls'[j].session # response.session
    BY <1>1, <1>7 DEF ResponseInv
  <2>. QED  BY <1>1, <1>2, <2>1, <2>2 DEF ResponseInv, Handling, SessionOf, SessionNext
<1>9. RunningInv'
  <2>1. ASSUME NEW s \in running, NEW m \in 1..Len(calls),
               calls[m].op = "stop", calls[m].session = s
        PROVE  \E j \in 1..Len(calls') : calls'[j].op = "stop" /\ calls'[j].session = s
    <3>1. m # i
      BY <1>2, <2>1
    <3>2. PICK j \in 1..Len(calls') : calls'[j] = calls[m]
      BY <1>4, <3>1 DEF Left
    <3>. QED  BY <2>1, <3>2
  <2>2. \A s \in running : \/ s \in DOMAIN backward
                           \/ s = mSession /\ mTracking
                           \/ \E j \in 1..Len(calls') : calls'[j].op = "stop" /\ calls'[j].session = s
    BY <1>1, <2>1 DEF RunningInv
  <2>3. \A j \in 1..Len(calls') : calls'[j].op = "start" =>
            calls'[j].session \notin running /\ (calls'[j].session = mSession => mTracking)
    BY <1>1, <1>7 DEF RunningInv
  <2>. QED  BY <1>1, <1>2, <2>2, <2>3 DEF RunningInv
<1>. QED  BY <1>5, <1>6, <1>8, <1>9 DEF Orderly
-----------------------------------------------------------------------------
(* The client is told, and a session is removed *)

\* A session goes that does not run, and that no one who is waited for stands for.
\* (Where none goes, s is one that the maps do not name.)
LEMMA RemovalKeeps ==
    ASSUME TypeInv, DictInv, CallInv, QueueInv, ClientInv, RunningInv, NEW s, RmBySession(s),
           UNCHANGED <<mTracking, mSession, queue, nextSession, client, calls, waits, requests>>,
           waiting' \subseteq waiting, running' \subseteq running,
           \A q \in Queues : \A k \in 1..Len(queue[q]) : queue[q][k].owner \in waiting',
           s \in DOMAIN backward => /\ backward[s] \notin waiting' /\ s \notin running'
                                    /\ Looking => backward[s] # client.id,
           Looking => client.id \in believed'
    PROVE  DictInv' /\ CallInv' /\ QueueInv' /\ ClientInv' /\ RunningInv'
<1>1. /\ DictInv'
      /\ \A p \in DOMAIN forward : (s \in DOMAIN backward => p # backward[s]) =>
             p \in DOMAIN forward' /\ forward'[p] = forward[p]
      /\ DOMAIN backward' = DOMAIN backward \ {s}
  BY RmKeepsDict
<1>2. \A p \in waiting' : SessionNext(p) = SessionOf(p)
  BY <1>1, WaitingOwners DEF SessionNext, SessionOf
<1>3. CallInv'
  <2>1. \A j \in 1..Len(calls') : CallingNext(calls'[j])
    BY <1>1 DEF CallInv, Calling, CallingNext
  <2>. QED  BY <2>1, CallsNext DEF CallInv
<1>4. QueueInv'
  <2>1. ASSUME NEW q \in Queues, NEW k \in 1..Len(queue'[q])
        PROVE  EntryNext(queue'[q][k], q)
    <3>1. Entry(queue[q][k], q) /\ queue[q][k].owner \in waiting'
      BY DEF QueueInv
    <3>2. SessionNext(queue[q][k].owner) = SessionOf(queue[q][k].owner)
      BY <1>2, <3>1
    <3>. QED  BY <3>1, <3>2 DEF Entry, EntryNext
  <2>2. \A q \in Queues : \A k, l \in 1..Len(queue'[q]) : k < l =>
            queue'[q][k].n < queue'[q][l].n /\ queue'[q][k].owner # queue'[q][l].owner
    BY DEF QueueInv
  <2>. QED  BY <2>1, <2>2, QueuesNext
<1>5. ClientInv'
  <2>. SUFFICES ASSUME Looking
                PROVE  /\ client.id \in DOMAIN forward' /\ client.id \in believed'
                       /\ client.id \notin waiting' /\ (waits = "all" => waiting' = {})
    BY DEF ClientInv, Looking
  <2>. QED  BY <1>1 DEF ClientInv
<1>6. RunningInv'
  <2>1. ASSUME NEW t \in running'
        PROVE  /\ \/ t \in DOMAIN backward'
                  \/ t = mSession /\ mTracking
                  \/ \E j \in 1..Len(calls) : calls[j].op = "stop" /\ calls[j].session = t
               /\ t < nextSession
    BY <1>1, <2>1 DEF RunningInv
  <2>. QED  BY <2>1 DEF RunningInv
<1>. QED  BY <1>1, <1>3, <1>4, <1>5, <1>6

\* No session goes.
LEMMA NoRemovalKeeps ==
    ASSUME TypeInv, DictInv, CallInv, QueueInv, ClientInv, RunningInv, UNCHANGED dict,
           UNCHANGED <<mTracking, mSession, queue, nextSession, client, calls, waits, requests>>,
           waiting' \subseteq waiting, running' \subseteq running,
           \A q \in Queues : \A k \in 1..Len(queue[q]) : queue[q][k].owner \in waiting',
           Looking => client.id \in believed'
    PROVE  DictInv' /\ CallInv' /\ QueueInv' /\ ClientInv' /\ RunningInv'
<1>1. PICK s : s = mSession
  OBVIOUS
<1>2. s \notin DOMAIN backward /\ RmBySession(s)
  BY <1>1 DEF DictInv, RmBySession
<1>. QED  BY <1>2, RemovalKeeps

\* The owner of the response in hand, and whom else that leaves waited for
LEMMA ToldOwner ==
    ASSUME TypeInv, Orderly, Handling, response.op # "remove",
           waiting' = waiting \ {response.owner}
    PROVE  /\ response.owner \in waiting /\ waiting' \subseteq waiting
           /\ response.owner \notin waiting'
           /\ response.session \in DOMAIN backward =>
                  backward[response.session] = response.owner
           /\ \A q \in Queues : \A k \in 1..Len(queue[q]) : queue[q][k].owner \in waiting'
           /\ Looking => client.id \in believed /\ client.id # response.owner
<1>1. /\ response.owner \in waiting /\ response.session = SessionOf(response.owner)
      /\ \A q \in Queues : \A k \in 1..Len(queue[q]) : queue[q][k].owner # response.owner
  BY DEF Orderly, ResponseInv
<1>2. response.session \in DOMAIN backward => backward[response.session] = response.owner
  BY <1>1, WaitingOwners DEF Orderly, DictInv, SessionOf
<1>3. \A q \in Queues : \A k \in 1..Len(queue[q]) : queue[q][k].owner \in waiting
  BY DEF Orderly, QueueInv, Entry
<1>4. Looking => client.id \in believed /\ client.id \notin waiting
  BY DEF Orderly, ClientInv
<1>. QED  BY <1>1, <1>2, <1>3, <1>4

LEMMA NoResponse ==
    ASSUME response'.op = "none"
    PROVE  ResponseInv'
  BY DEF ResponseInv, Handling

LEMMA OnStartKeeps ==
    ASSUME TypeInv, Orderly, OnStart
    PROVE  Orderly'
<1>1. /\ Handling /\ response.op = "start" /\ response'.op = "none"
      /\ waiting' = waiting \ {response.owner}
      /\ UNCHANGED <<mTracking, mSession, queue, nextSession, client, calls, waits, requests,
                     running, delivery>>
      /\ \/ response.error /\ RmBySession(response.session) /\ believed' = believed
         \/ ~response.error /\ UNCHANGED dict /\ believed' = believed \union {response.owner}
  BY DEF OnStart, Told, Handling
<1>2. DictInv /\ CallInv /\ QueueInv /\ ClientInv /\ RunningInv /\ ResponseInv /\ DeliveryInv
  BY DEF Orderly
<1>3. /\ response.owner \in waiting /\ waiting' \subseteq waiting
      /\ response.owner \notin waiting'
      /\ response.session \in DOMAIN backward => backward[response.session] = response.owner
      /\ \A q \in Queues : \A k \in 1..Len(queue[q]) : queue[q][k].owner \in waiting'
      /\ Looking => client.id \in believed /\ client.id # response.owner
  BY <1>1, ToldOwner
<1>4. ResponseInv' /\ DeliveryInv'
  BY <1>1, <1>2, NoResponse DEF DeliveryInv
<1>5. CASE response.error
  <2>1. response.session \notin running
    BY <1>1, <1>2, <1>5 DEF ResponseInv
  <2>2. DictInv' /\ CallInv' /\ QueueInv' /\ ClientInv' /\ RunningInv'
    BY <1>1, <1>2, <1>3, <1>5, <2>1, RemovalKeeps
  <2>. QED  BY <1>4, <2>2 DEF Orderly
<1>6. CASE ~response.error
  <2>1. DictInv' /\ CallInv' /\ QueueInv' /\ ClientInv' /\ RunningInv'
    BY <1>1, <1>2, <1>3, <1>6, NoRemovalKeeps
  <2>. QED  BY <1>4, <2>1 DEF Orderly
<1>. QED  BY <1>5, <1>6

LEMMA OnStopKeeps ==
    ASSUME TypeInv, Orderly, OnStop
    PROVE  Orderly'
<1>1. /\ Handling /\ response.op = "stop" /\ response.op # "remove"
      /\ waiting' = waiting \ {response.owner}
      /\ UNCHANGED dict
      /\ UNCHANGED <<mTracking, mSession, queue, nextSession, client, calls, waits, requests,
                     running, delivery>>
      /\ \/ response.error /\ response'.op = "none" /\ believed' = believed
         \/ /\ ~response.error /\ response' = [response EXCEPT !.op = "remove"]
            /\ believed' = believed \ {response.owner}
  BY DEF OnStop, Told, Handling, library
<1>2. DictInv /\ CallInv /\ QueueInv /\ ClientInv /\ RunningInv /\ ResponseInv /\ DeliveryInv
  BY DEF Orderly
<1>3. /\ response.owner \in waiting /\ waiting' \subseteq waiting
      /\ response.owner \notin waiting'
      /\ response.session \in DOMAIN backward => backward[response.session] = response.owner
      /\ \A q \in Queues : \A k \in 1..Len(queue[q]) : queue[q][k].owner \in waiting'
      /\ Looking => client.id \in believed /\ client.id # response.owner
  BY <1>1, ToldOwner
<1>4. DictInv' /\ CallInv' /\ QueueInv' /\ ClientInv' /\ RunningInv'
  <2>1. Looking => client.id \in believed'
    BY <1>1, <1>3
  <2>. QED  BY <1>1, <1>2, <1>3, <2>1, NoRemovalKeeps
<1>5. DeliveryInv'
  BY <1>1, <1>2 DEF DeliveryInv
<1>6. ResponseInv'
  <2>1. CASE response'.op = "none"
    BY <2>1, NoResponse
  <2>2. CASE ~response.error /\ response' = [response EXCEPT !.op = "remove"]
    <3>1. response \in [op : Op \union {"remove"}, owner : Owner,
                        session : 0..MaxRequests, error : BOOLEAN]
      BY <1>1 DEF TypeInv, ThreadTyped
    <3>2. /\ response'.op = "remove" /\ response'.owner = response.owner
          /\ response'.session = response.session
      BY <2>2, <3>1
    <3>3. response.session \notin running /\ response.session < nextSession
      BY <1>1, <1>2, <2>2 DEF ResponseInv
    <3>4. \A j \in 1..Len(calls') : calls'[j].op = "start" => calls'[j].session # response'.session
      BY <1>1, <1>2, <3>2 DEF ResponseInv
    <3>5. response'.session \in DOMAIN backward' =>
              backward'[response'.session] \notin believed' \union waiting'
      BY <1>1, <1>3, <2>2, <3>2 DEF dict
    <3>. QED  BY <1>1, <3>2, <3>3, <3>4, <3>5 DEF ResponseInv
  <2>. QED  BY <1>1, <2>1, <2>2
<1>. QED  BY <1>4, <1>5, <1>6 DEF Orderly

LEMMA AfterStopKeeps ==
    ASSUME TypeInv, Orderly, AfterStop
    PROVE  Orderly'
<1>1. /\ Handling /\ response.op = "remove" /\ response'.op = "none"
      /\ RmBySession(response.session)
      /\ UNCHANGED <<mTracking, mSession, queue, nextSession, client, calls, waits, requests,
                     waiting, believed, running, delivery>>
  BY DEF AfterStop, Handling, user
<1>2. DictInv /\ CallInv /\ QueueInv /\ ClientInv /\ RunningInv /\ ResponseInv /\ DeliveryInv
  BY DEF Orderly
<1>3. /\ response.session \notin running
      /\ response.session \in DOMAIN backward =>
             backward[response.session] \notin believed \union waiting
  BY <1>1, <1>2 DEF ResponseInv
<1>4. Looking => client.id \in believed
  BY <1>2 DEF ClientInv
<1>5. \A q \in Queues : \A k \in 1..Len(queue[q]) : queue[q][k].owner \in waiting
  BY <1>2 DEF QueueInv, Entry
<1>6. DictInv' /\ CallInv' /\ QueueInv' /\ ClientInv' /\ RunningInv'
  BY <1>1, <1>2, <1>3, <1>4, <1>5, RemovalKeeps
<1>7. ResponseInv' /\ DeliveryInv'
  BY <1>1, <1>2, NoResponse DEF DeliveryInv
<1>. QED  BY <1>6, <1>7 DEF Orderly

LEMMA OnOtherKeeps ==
    ASSUME TypeInv, Orderly, OnOther
    PROVE  Orderly'
<1>1. /\ Handling /\ response.op # "remove" /\ response'.op = "none"
      /\ waiting' = waiting \ {response.owner} /\ UNCHANGED dict
      /\ UNCHANGED <<mTracking, mSession, queue, nextSession, client, calls, waits, requests,
                     believed, running, delivery>>
  BY DEF OnOther, Told, Handling, library
<1>2. DictInv /\ CallInv /\ QueueInv /\ ClientInv /\ RunningInv /\ ResponseInv /\ DeliveryInv
  BY DEF Orderly
<1>3. /\ waiting' \subseteq waiting
      /\ \A q \in Queues : \A k \in 1..Len(queue[q]) : queue[q][k].owner \in waiting'
      /\ Looking => client.id \in believed
  BY <1>1, ToldOwner
<1>4. DictInv' /\ CallInv' /\ QueueInv' /\ ClientInv' /\ RunningInv'
  BY <1>1, <1>2, <1>3, NoRemovalKeeps
<1>5. ResponseInv' /\ DeliveryInv'
  BY <1>1, <1>2, NoResponse DEF DeliveryInv
<1>. QED  BY <1>4, <1>5 DEF Orderly

\* A second response that no request takes
LEMMA RestartedKeeps ==
    ASSUME TypeInv, Orderly, NEW u \in restarts, NEW error \in BOOLEAN, Restarted(u, error), ~lost'
    PROVE  Orderly'
<1>1. /\ Taken(u.session) = "none" /\ response.op = "none" /\ running' \subseteq running
      /\ Take(u.session, u.n, error)
      /\ UNCHANGED <<mTracking, mSession, dict, nextSession, client, calls, waits, requests,
                     waiting, believed>>
  BY DEF Restarted, user
<1>2. UNCHANGED <<queue, response>> /\ delivery' = [request |-> 0, call |-> u.n]
  BY <1>1 DEF Take
<1>3. DictInv /\ CallInv /\ QueueInv /\ ClientInv /\ RunningInv
  BY DEF Orderly
<1>4. Looking => client.id \in believed
  BY <1>3 DEF ClientInv
<1>5. \A q \in Queues : \A k \in 1..Len(queue[q]) : queue[q][k].owner \in waiting
  BY <1>3 DEF QueueInv, Entry
<1>6. DictInv' /\ CallInv' /\ QueueInv' /\ ClientInv' /\ RunningInv'
  BY <1>1, <1>2, <1>3, <1>4, <1>5, NoRemovalKeeps
<1>7. ResponseInv' /\ DeliveryInv'
  BY <1>1, <1>2, NoResponse DEF DeliveryInv
<1>. QED  BY <1>6, <1>7 DEF Orderly

LEMMA BatchingKeeps ==
    ASSUME TypeInv, Orderly, NEW s \in running, BeforeBatchingStatusCb(s), ~lost'
    PROVE  Orderly'
<1>1. /\ response'.op = "none" /\ RmBySession(s) /\ s \in DOMAIN backward
      /\ running' = running \ {s} /\ believed' = believed \ {backward[s]}
      /\ backward[s] \notin waiting /\ (Looking => client.id # backward[s])
      /\ UNCHANGED <<mTracking, mSession, queue, nextSession, client, calls, waits, requests,
                     waiting, delivery>>
  BY DEF BeforeBatchingStatusCb, Looking, Free, TypeInv, DictTyped
<1>2. DictInv /\ CallInv /\ QueueInv /\ ClientInv /\ RunningInv /\ DeliveryInv
  BY DEF Orderly
<1>3. Looking => client.id \in believed'
  BY <1>1, <1>2 DEF ClientInv
<1>4. \A q \in Queues : \A k \in 1..Len(queue[q]) : queue[q][k].owner \in waiting
  BY <1>2 DEF QueueInv, Entry
<1>5. DictInv' /\ CallInv' /\ QueueInv' /\ ClientInv' /\ RunningInv'
  BY <1>1, <1>2, <1>3, <1>4, RemovalKeeps
<1>6. ResponseInv' /\ DeliveryInv'
  BY <1>1, <1>2, NoResponse DEF DeliveryInv
<1>. QED  BY <1>5, <1>6 DEF Orderly
-----------------------------------------------------------------------------
(* All steps *)

LEMMA InitOrderly == Init => Orderly
<1>. SUFFICES ASSUME Init
              PROVE  Orderly
  OBVIOUS
<1>1. DictInv /\ ClientInv /\ ResponseInv /\ DeliveryInv
  BY DEF Init, DictInv, ClientInv, Looking, ResponseInv, Handling, DeliveryInv
<1>2. CallInv /\ RunningInv
  <2>1. calls = <<>> /\ Len(calls) = 0 /\ running = {}
    BY DEF Init
  <2>. QED  BY <2>1 DEF CallInv, RunningInv
<1>3. QueueInv
  <2>1. \A q \in Queues : Len(queue[q]) = 0
    BY DEF Init
  <2>. QED  BY <2>1 DEF QueueInv
<1>. QED  BY <1>1, <1>2, <1>3 DEF Orderly

LEMMA UnchangedKeeps ==
    ASSUME Orderly, UNCHANGED vars
    PROVE  Orderly'
<1>1. UNCHANGED <<forward, backward, ext, mTracking, mSession, queue, nextSession, client, response,
                  calls, running, waits, requests, waiting, believed, delivery>>
  BY DEF vars, library, dict, user
<1>2. DictInv' /\ CallInv' /\ QueueInv'
  BY <1>1 DEF Orderly, DictInv, CallInv, Calling, QueueInv, Entry, SessionOf
<1>3. ResponseInv' /\ ClientInv' /\ RunningInv' /\ DeliveryInv'
  BY <1>1 DEF Orderly, ResponseInv, Handling, SessionOf, ClientInv, Looking, RunningInv, DeliveryInv
<1>. QED  BY <1>2, <1>3 DEF Orderly

LEMMA LostStays == [Next]_vars /\ ~lost' => ~lost
  BY DEF Next, Client, LocationAPI, LocAPIStartTracking, LocAPIStopTracking,
         LocAPIUpdateTrackingOptions, LocAPIStartSession, LookUp, LocAPIStopSession,
         LocAPIGetBatchedLocations, LocAPIUpdateSessionOptions, OnResponseCb, Done, Restarted,
         Refused, OnStart, OnStop,
         AfterStop, OnOther, BeforeBatchingStatusCb, vars

LEMMA OrderlyStep ==
    ASSUME TypeInv, TypeInv', Orderly, [Next]_vars, ~lost'
    PROVE  Orderly'
<1>1. CASE LocAPIStartTracking
  BY <1>1, StartTrackingKeeps
<1>2. CASE LocAPIStopTracking
  BY <1>2, StopTrackingKeeps
<1>3. CASE LocAPIUpdateTrackingOptions
  BY <1>3, UpdateTrackingKeeps
<1>4. CASE \E id \in Ids, mode \in Modes : LocAPIStartSession(id, mode)
  BY <1>4, StartSessionKeeps
<1>5. CASE \E id \in Ids, op \in {"stop", "get"} : LookUp(op, id, "none")
  BY <1>5, LookUpKeeps
<1>6. CASE \E id \in Ids, mode \in Modes : LookUp("update", id, mode)
  BY <1>6, LookUpKeeps
<1>7. CASE LocAPIStopSession
  BY <1>7, StopSessionKeeps
<1>8. CASE LocAPIGetBatchedLocations
  BY <1>8, GetKeeps
<1>9. CASE LocAPIUpdateSessionOptions
  BY <1>9, UpdateSessionKeeps
<1>10. CASE \E i \in DOMAIN calls, error \in BOOLEAN : OnResponseCb(i, error)
  BY <1>10, ResponseKeeps
<1>11. CASE OnStart
  BY <1>11, OnStartKeeps
<1>12. CASE OnStop
  BY <1>12, OnStopKeeps
<1>13. CASE AfterStop
  BY <1>13, AfterStopKeeps
<1>14. CASE OnOther
  BY <1>14, OnOtherKeeps
<1>15. CASE \E s \in running : BeforeBatchingStatusCb(s)
  BY <1>15, BatchingKeeps
<1>16. CASE UNCHANGED vars
  BY <1>16, UnchangedKeeps
<1>17. CASE \E r \in restarts, error \in BOOLEAN : Restarted(r, error)
  BY <1>17, RestartedKeeps
<1>18. CASE \E i \in DOMAIN calls : Refused(i)
  BY <1>18, RefusedKeeps
<1>. QED
  BY <1>1, <1>2, <1>3, <1>4, <1>5, <1>6, <1>7, <1>8, <1>9, <1>10, <1>11, <1>12, <1>13, <1>14, <1>15,
     <1>16, <1>17, <1>18 DEF Next, Client, LocationAPI

LEMMA InvHolds == Spec => [](TypeInv /\ Inv)
<1>1. Init => TypeInv /\ Inv
  BY TypeInit, InitOrderly DEF Inv
<1>2. TypeInv /\ Inv /\ [Next]_vars => (TypeInv /\ Inv)'
  <2>. SUFFICES ASSUME TypeInv, Inv, [Next]_vars
                PROVE  TypeInv' /\ Inv'
    OBVIOUS
  <2>1. TypeInv'
    BY TypeStep
  <2>2. Inv'
    BY <2>1, LostStays, OrderlyStep DEF Inv
  <2>. QED  BY <2>1, <2>2
<1>. QED  BY <1>1, <1>2, PTL DEF Spec

LEMMA NoneQueued ==
    ASSUME QueueInv, calls = <<>>, TypeInv
    PROVE  \A q \in Queues : queue[q] = <<>>
<1>1. Len(calls) = 0
  OBVIOUS
<1>2. \A q \in Queues : \A k \in 1..Len(queue[q]) : FALSE
  BY <1>1 DEF QueueInv, Entry
<1>3. \A q \in Queues : queue[q] \in Seq(RequestRec)
  BY DEF TypeInv, QueueTyped
<1>. QED  BY <1>2, <1>3

-----------------------------------------------------------------------------
(* The theorems *)

(* A response, which names a session and no request, is handled by the       *)
(* request it answers, and no request stays behind when all calls are done,  *)
(* until lost: a batching adapter has left a request without an answer, the  *)
(* second response to an update has met another request, a trip has ended    *)
(* under a request, or a stop whose session nobody names any more has failed *)
(* (onResponseCb, getRequestBySession, BatchingAdapter::stopBatching).       *)
THEOREM ResponsesReachRequests == Spec => []ResponseReachesItsRequest
<1>1. TypeInv /\ Inv => ResponseReachesItsRequest
  BY NoneQueued DEF Inv, Orderly, DeliveryInv, ResponseReachesItsRequest, Quiet
<1>. QED  BY <1>1, InvHolds, PTL

(* The three maps of mSessionBiDict stay inverse to each other, whichever    *)
(* thread sets and removes its entries, until lost (BiDict::set, rmById,     *)
(* rmBySession).                                                             *)
THEOREM MapsCorrect == Spec => []MapsAgree
<1>1. TypeInv /\ Inv => MapsAgree
  BY DEF TypeInv, DictTyped, Inv, Orderly, DictInv, MapsAgree
<1>. QED  BY <1>1, InvHolds, PTL

(* When all calls are done, the client can name each session that runs for   *)
(* it: none was removed from the maps while it ran, until lost               *)
(* (onStartTrackingCb, onStopTrackingCb, locAPIUpdateSessionOptions).        *)
THEOREM RunningIsKnown == Spec => []KnownWhileRunning
<1>1. TypeInv /\ Inv => KnownWhileRunning
  <2>. SUFFICES ASSUME TypeInv, Orderly, Quiet, NEW s \in running
                PROVE  s \in DOMAIN backward \union (IF mTracking THEN {mSession} ELSE {})
    BY DEF Inv, KnownWhileRunning
  <2>1. Len(calls) = 0
    BY DEF Quiet
  <2>2. s \in DOMAIN backward \/ (s = mSession /\ mTracking)
    BY <2>1 DEF Orderly, RunningInv
  <2>. QED  BY <2>2
<1>. QED  BY <1>1, InvHolds, PTL
=============================================================================

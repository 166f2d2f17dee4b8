-------------------------- MODULE ClientLifeProofs --------------------------
(***************************************************************************)
(* Proofs about ClientLife, for any clients, callbacks and libraries.      *)
(*                                                                         *)
(* What an adapter will know of a client is in its table and in the        *)
(* messages that wait.  PairInv says of each adapter and client that a     *)
(* client there, or on its way there, still wants the adapter or will be   *)
(* removed after it is added for the last time.  TableInv says that the    *)
(* last addition that waits, or else the table, has the callbacks that the *)
(* client gave last.  MaskInv carries that on to the modem: an adapter's   *)
(* mask is that of its table, and the modem's that of the adapters unless  *)
(* LocApi's task has something to do.                                      *)
(***************************************************************************)
EXTENDS ClientLife, TLAPS

USE LifeAssumption

-----------------------------------------------------------------------------
(* Types, one group of variables at a time *)

LocationApiOK ==
    /\ clientData \in [Client -> SUBSET Callback]
    /\ destroyData \in [Client -> SUBSET Kind]
    /\ loaded \subseteq Loadable /\ call \in Call /\ building \in Kind \union {"none"}

AdaptersOK ==
    /\ mClientData \in [Kind -> [Client -> SUBSET Callback]]
    /\ mEvtMask \in [Kind -> SUBSET Callback]
    /\ known \in [Kind -> BOOLEAN] /\ mPendingMsgs \in [Kind -> Seq(Request)]

QueuesOK ==
    /\ msgQ \in Seq(Message)
    /\ mLocAdapters \in Seq(Kind) /\ apiQ \in Seq(Kind \union {"open", "ssr"})

ModemOK ==
    /\ modemMask \subseteq Callback /\ refused \in BOOLEAN /\ engineKnown \in BOOLEAN
    /\ deaf \subseteq Kind

ClientsOK ==
    /\ life \in [Client -> {"new", "creating", "used", "destroying", "told", "left"}]
    /\ heard \subseteq Client /\ dropped \subseteq Client

\* The call under way is one of a client that is there for it, and has still to
\* add the client to adapters that the client needs.
CallOK ==
    /\ call = Idle \/ /\ call.op # "none" /\ call.client \in Client
                      /\ life[call.client] = IF call.op = "create" THEN "creating" ELSE "used"
    /\ call = Idle => building = "none"
    /\ building # "none" => building = NextKind /\ call.left # {}
    /\ call.left \subseteq Kinds(call.callbacks) \intersect Loadable
    /\ \A c \in Client : life[c] = "creating" => call.client = c
    /\ \A c \in Client : life[c] # "used" => clientData[c] = {}
    /\ \A c \in Client : destroyData[c] # {} <=> life[c] = "destroying"

Typed ==
    LocationApiOK /\ AdaptersOK /\ QueuesOK /\ ModemOK /\ ClientsOK /\ CallOK

LEMMA MessageTypes ==
    ASSUME NEW k \in Kind
    PROVE  /\ \A c \in Client, callbacks \in SUBSET Callback : Msg("add", k, c, callbacks) \in Message
           /\ \A c \in Client : /\ Msg("remove", k, c, {}) \in Message
                                /\ Msg("request", k, c, {}) \in Message
           /\ Msg("engineUp", k, None, {}) \in Message
  BY DEF Msg, Message, Request

LEMMA OneMessage == ASSUME NEW m \in Message PROVE <<m>> \in Seq(Message)
  OBVIOUS

LEMMA MessagesConcat ==
    ASSUME NEW p \in Seq(Message), NEW q \in Seq(Message)
    PROVE  p \o q \in Seq(Message)
  OBVIOUS

LEMMA MessagesAssociate ==
    ASSUME NEW p \in Seq(Message), NEW q \in Seq(Message), NEW r \in Seq(Message)
    PROVE  p \o (q \o r) = (p \o q) \o r
<1>. DEFINE x == p \o (q \o r)
            y == (p \o q) \o r
<1>1. x \in Seq(Message) /\ y \in Seq(Message) /\ Len(x) = Len(y)
  OBVIOUS
<1>2. \A i \in 1..Len(x) : x[i] = y[i]
  OBVIOUS
<1>. HIDE DEF x, y
<1>3. x = y
  BY <1>1, <1>2
<1>. QED  BY <1>3 DEF x, y

LEMMA KindsAreKinds ==
    ASSUME NEW callbacks \in SUBSET Callback
    PROVE  Kinds(callbacks) \subseteq Kind
  BY DEF Kinds

\* The next adapter is one of those that are left.
LEMMA NextKindLeft ==
    ASSUME call \in Call, call.left # {}
    PROVE  NextKind \in call.left /\ NextKind \in Kind
  BY DEF Call, NextKind, Kind

LEMMA RemovalTypes ==
    ASSUME NEW k \in Kind, NEW c \in Client
    PROVE  Removal(k, c) \in Seq(Message)
<1>1. <<Msg("remove", k, c, {})>> \in Seq(Message)
  BY MessageTypes, OneMessage
<1>. QED  BY <1>1 DEF Removal

LEMMA AnnounceTypes ==
    ASSUME NEW k \in Kind, NEW ks
    PROVE  Announce(k, ks) \in Seq(Message)
<1>1. <<Msg("engineUp", k, None, {})>> \in Seq(Message)
  BY MessageTypes, OneMessage
<1>. QED  BY <1>1 DEF Announce

\* What each step puts behind the adapters' queue
AddedBy(k) ==
    <<Msg("add", k, call.client, call.callbacks)>>
        \o (IF call.op = "create" /\ ~ call.asked
            THEN <<Msg("request", k, call.client, {})>> ELSE <<>>)

LEMMA AddedTypes ==
    ASSUME LocationApiOK, call.client \in Client, NEW k \in Kind
    PROVE  AddedBy(k) \in Seq(Message)
<1>1. call.callbacks \in SUBSET Callback
  BY DEF LocationApiOK, Call
<1>2. /\ <<Msg("add", k, call.client, call.callbacks)>> \in Seq(Message)
      /\ <<Msg("request", k, call.client, {})>> \in Seq(Message)
  BY <1>1, MessageTypes, OneMessage
<1>. QED  BY <1>2, MessagesConcat DEF AddedBy

LEMMA EnterTypes ==
    ASSUME Typed, NEW c \in Client, NEW callbacks \in Uses, NEW op \in {"create", "update"},
           Enter(op, c, callbacks),
           \/ op = "create" /\ life[c] = "new" /\ life' = [life EXCEPT ![c] = "creating"]
           \/ op = "update" /\ life[c] = "used" /\ UNCHANGED life,
           dropped' \subseteq Client
    PROVE  Typed'
<1>. USE DEF Typed
<1>1. /\ call = Idle /\ call'.op = op /\ call'.client = c /\ call'.callbacks = callbacks
      /\ call'.left = Kinds(callbacks) \intersect Loadable
      /\ UNCHANGED <<clientData, destroyData, loaded, building, adapters, modem,
                     msgQ, mLocAdapters, apiQ, heard>>
      /\ call' = [op |-> op, client |-> c, callbacks |-> callbacks,
                  left |-> Kinds(callbacks) \intersect Loadable, asked |-> FALSE]
  BY DEF Enter
<1>2. call' \in Call
  <2>1. callbacks \in SUBSET Callback /\ Kinds(callbacks) \intersect Loadable \subseteq Kind
    OBVIOUS
  <2>. QED  BY <1>1, <2>1 DEF Call
<1>3. LocationApiOK' /\ AdaptersOK' /\ QueuesOK' /\ ModemOK'
  BY <1>1, <1>2 DEF LocationApiOK, AdaptersOK, QueuesOK, ModemOK, adapters, modem
<1>4. ClientsOK'
  BY <1>1 DEF ClientsOK
<1>5. /\ life'[c] = IF op = "create" THEN "creating" ELSE "used"
      /\ \A d \in Client \ {c} : life'[d] = life[d] /\ life[d] # "creating"
      /\ life[c] # "destroying"
  <2>1. \A d \in Client : life[d] # "creating"
    <3>1. call.client = None
      BY <1>1 DEF Idle
    <3>. QED  BY <3>1 DEF CallOK
  <2>. QED  BY <2>1 DEF ClientsOK
<1>6. building' = "none"
  BY <1>1 DEF CallOK
<1>7. call' # Idle
  BY <1>1 DEF Idle
<1>8. CallOK'
  BY <1>1, <1>5, <1>6, <1>7 DEF CallOK, Kinds
<1>. QED  BY <1>3, <1>4, <1>8

\* The location API's steps on behalf of the call under way
LEMMA ConstructTypes ==
    ASSUME Typed, Construct
    PROVE  Typed' /\ NextKind \in call.left
<1>. USE DEF Typed
<1>1. NextKind \in call.left /\ NextKind \in Kind
  BY NextKindLeft DEF Construct, LocationApiOK
<1>2. LocationApiOK' /\ ModemOK' /\ ClientsOK'
  BY <1>1 DEF Construct, LocationApiOK, ModemOK, ClientsOK, modem, clients
<1>3. AdaptersOK'
  BY <1>1 DEF Construct, AdaptersOK, ModemOK
<1>4. QueuesOK'
  BY <1>1 DEF Construct, QueuesOK
<1>5. call # Idle /\ UNCHANGED <<call, life, clientData, destroyData>>
      /\ building' = NextKind /\ call.left # {}
  BY DEF Construct, Idle, clients
<1>6. NextKind' = NextKind
  BY <1>5 DEF NextKind
<1>7. CallOK'
  BY <1>5, <1>6 DEF CallOK, Kinds, Idle
<1>. QED  BY <1>1, <1>2, <1>3, <1>4, <1>7

LEMMA AddClientTypes ==
    ASSUME Typed, AddClient
    PROVE  /\ Typed'
           /\ NextKind \in call.left /\ NextKind \in Kind
           /\ call # Idle /\ call'.left = call.left \ {NextKind}
           /\ call'.client = call.client /\ call'.callbacks = call.callbacks
           /\ call'.op = call.op
           /\ msgQ' = msgQ \o AddedBy(NextKind)
<1>. USE DEF Typed
<1>1. NextKind \in call.left /\ NextKind \in Kind
  BY NextKindLeft DEF AddClient, LocationApiOK
<1>2. call \in Call
  BY DEF LocationApiOK
<1>3. /\ call'.op = call.op /\ call'.client = call.client /\ call'.callbacks = call.callbacks
      /\ call'.left = call.left \ {NextKind} /\ call' \in Call
  BY <1>2 DEF AddClient, Call
<1>4. call # Idle /\ call.left # {} /\ call.client \in Client
  BY DEF AddClient, Idle, CallOK
<1>5. msgQ' = msgQ \o AddedBy(NextKind)
  <2>1. call.client \in Client /\ call.callbacks \in SUBSET Callback
    BY <1>2, <1>4 DEF Call
  <2>2. /\ <<Msg("add", NextKind, call.client, call.callbacks)>> \in Seq(Message)
        /\ <<Msg("request", NextKind, call.client, {})>> \in Seq(Message)
    BY <1>1, <2>1, MessageTypes, OneMessage
  <2>. QED  BY <2>2, MessagesAssociate DEF AddClient, AddedBy, QueuesOK
<1>6. LocationApiOK' /\ AdaptersOK' /\ ModemOK' /\ ClientsOK'
  <2>1. NextKind \in Loadable
    BY <1>1 DEF CallOK
  <2>. QED  BY <1>3, <2>1 DEF AddClient, LocationApiOK, AdaptersOK, ModemOK, ClientsOK, adapters, modem, clients
<1>7. QueuesOK'
  BY <1>1, <1>4, <1>5, AddedTypes, MessagesConcat DEF AddClient, QueuesOK
<1>8. CallOK'
  <2>1. call' # Idle
    BY <1>3, <1>4 DEF CallOK, Idle
  <2>2. UNCHANGED <<life, clientData, destroyData>> /\ building' = "none"
    BY DEF AddClient, clients
  <2>. QED  BY <1>3, <1>4, <2>1, <2>2 DEF CallOK, Kinds
<1>. QED  BY <1>1, <1>3, <1>4, <1>5, <1>6, <1>7, <1>8

LEMMA ReturnTypes ==
    ASSUME Typed, Return
    PROVE  /\ Typed' /\ call # Idle /\ call.client \in Client
           /\ clientData' = [clientData EXCEPT ![call.client] = call.callbacks]
           /\ \A c \in Client : life'[c] = IF c = call.client THEN "used" ELSE life[c]
<1>. USE DEF Typed
<1>1. call # Idle /\ call.client \in Client /\ call.callbacks \in SUBSET Callback
  BY DEF Return, CallOK, LocationApiOK, Call
<1>2. /\ clientData' = [clientData EXCEPT ![call.client] = call.callbacks]
      /\ life' = [life EXCEPT ![call.client] = "used"]
      /\ call' = Idle /\ call.left = {}
      /\ UNCHANGED <<destroyData, loaded, building, adapters, modem, heard, dropped,
                     msgQ, mLocAdapters, apiQ, events>>
  BY DEF Return
<1>3. Idle \in Call
  BY DEF Idle, Call
<1>4. LocationApiOK' /\ AdaptersOK' /\ QueuesOK' /\ ModemOK' /\ ClientsOK'
  BY <1>1, <1>2, <1>3
  DEF LocationApiOK, AdaptersOK, QueuesOK, ModemOK, ClientsOK, adapters, modem
<1>5. \A c \in Client : life'[c] = IF c = call.client THEN "used" ELSE life[c]
  BY <1>1, <1>2 DEF ClientsOK
<1>6. CallOK'
  <2>1. building' = "none" /\ Idle.left = {}
    BY <1>2 DEF CallOK, Idle
  <2>2. \A c \in Client : c # call.client => clientData'[c] = clientData[c]
    BY <1>1, <1>2 DEF LocationApiOK
  <2>3. life[call.client] # "destroying"
    BY <1>1 DEF CallOK
  <2>. QED  BY <1>1, <1>2, <1>5, <2>1, <2>2, <2>3 DEF CallOK, Kinds
<1>. QED  BY <1>1, <1>2, <1>4, <1>5, <1>6

\* the messages destroy() sends
Removals(c) == Removal("gnss", c) \o Removal("batching", c) \o Removal("geofence", c)

LEMMA DestroyTypes ==
    ASSUME Typed, NEW c \in Client, NEW tells \in BOOLEAN, Destroy(c, tells)
    PROVE  /\ Typed' /\ call = Idle
           /\ Removals(c) \in Seq(Message) /\ msgQ' = msgQ \o Removals(c)
           /\ clientData' = [clientData EXCEPT ![c] = {}]
           /\ life[c] = "used" /\ life'[c] \in {"left", "told", "destroying"}
           /\ life'[c] = "told" => Leaves(c) = {}
           /\ life'[c] = "destroying" => destroyData'[c] = Leaves(c)
           /\ \A d \in Client \ {c} : life'[d] = life[d] /\ destroyData'[d] = destroyData[d]
<1>. USE DEF Typed
<1>1. /\ life[c] = "used" /\ call = Idle
      /\ destroyData' = IF tells THEN [destroyData EXCEPT ![c] = Leaves(c)] ELSE destroyData
      /\ msgQ' = msgQ \o Removal("gnss", c) \o Removal("batching", c) \o Removal("geofence", c)
      /\ clientData' = [clientData EXCEPT ![c] = {}]
      /\ life' = [life EXCEPT ![c] = IF ~ tells THEN "left"
                                     ELSE IF Leaves(c) = {} THEN "told" ELSE "destroying"]
      /\ UNCHANGED <<loaded, call, building, adapters, modem, heard, dropped,
                     mLocAdapters, apiQ, events>>
  BY DEF Destroy
<1>2. Leaves(c) \subseteq Kind
  BY DEF Leaves, LocationApiOK
<1>3. /\ Removal("gnss", c) \in Seq(Message) /\ Removal("batching", c) \in Seq(Message)
      /\ Removal("geofence", c) \in Seq(Message)
  BY RemovalTypes DEF Kind
<1>4. Removals(c) \in Seq(Message)
  BY <1>3, MessagesConcat DEF Removals
<1>5. msgQ' = msgQ \o Removals(c)
  <2>. DEFINE x == Removal("gnss", c)
              y == Removal("batching", c)
              z == Removal("geofence", c)
  <2>1. msgQ' = ((msgQ \o x) \o y) \o z /\ Removals(c) = (x \o y) \o z
    BY <1>1 DEF Removals
  <2>2. x \in Seq(Message) /\ y \in Seq(Message) /\ z \in Seq(Message) /\ msgQ \in Seq(Message)
    BY <1>3 DEF QueuesOK
  <2>. HIDE DEF x, y, z
  <2>3. x \o y \in Seq(Message)
    BY <2>2
  <2>4. (msgQ \o x) \o y = msgQ \o (x \o y)
    BY <2>2, MessagesAssociate
  <2>5. (msgQ \o (x \o y)) \o z = msgQ \o ((x \o y) \o z)
    BY <2>2, <2>3, MessagesAssociate
  <2>. QED  BY <2>1, <2>4, <2>5
<1>6. /\ life'[c] = IF ~ tells THEN "left" ELSE IF Leaves(c) = {} THEN "told" ELSE "destroying"
      /\ \A d \in Client \ {c} : life'[d] = life[d] /\ destroyData'[d] = destroyData[d]
                                 /\ clientData'[d] = clientData[d]
      /\ clientData'[c] = {}
      /\ destroyData'[c] = IF tells THEN Leaves(c) ELSE {}
  <2>1. destroyData[c] = {}
    BY <1>1 DEF CallOK
  <2>. QED  BY <1>1, <2>1 DEF ClientsOK, LocationApiOK
<1>7. LocationApiOK' /\ AdaptersOK' /\ ModemOK' /\ ClientsOK'
  BY <1>1, <1>2 DEF LocationApiOK, AdaptersOK, ModemOK, ClientsOK, adapters, modem
<1>8. QueuesOK'
  BY <1>1, <1>4, <1>5, MessagesConcat DEF QueuesOK
<1>9. CallOK'
  <2>1. call' = Idle /\ building' = "none" /\ Idle.left = {} /\ Idle.client = None
    BY <1>1 DEF CallOK, Idle
  <2>. QED  BY <1>1, <1>6, <2>1 DEF CallOK, Kinds
<1>10. /\ life'[c] \in {"left", "told", "destroying"}
       /\ life'[c] = "told" => Leaves(c) = {}
       /\ life'[c] = "destroying" => destroyData'[c] = Leaves(c)
  BY <1>6
<1>. HIDE DEF Typed
<1>11. Typed'
  BY <1>7, <1>8, <1>9 DEF Typed
<1>. QED  BY <1>1, <1>4, <1>5, <1>6, <1>10, <1>11

\* The adapters' task
LEMMA HeadMessage ==
    ASSUME QueuesOK, msgQ # <<>>
    PROVE  Head(msgQ) \in Message /\ Tail(msgQ) \in Seq(Message)
  BY DEF QueuesOK

LEMMA MessageFields ==
    ASSUME NEW m \in Message
    PROVE  /\ m.kind \in Kind /\ m.callbacks \in SUBSET Callback
           /\ m.type # "engineUp" => m.client \in Client
           /\ m.type = "request" => m \in Request
           /\ m.type \in {"add", "remove", "request", "engineUp"}
  BY DEF Message, Request

LEMMA MaskTypes ==
    ASSUME AdaptersOK, NEW k \in Kind, UpdateClientsEventMask(k), QueuesOK,
           mClientData' \in [Kind -> [Client -> SUBSET Callback]]
    PROVE  /\ mEvtMask' \in [Kind -> SUBSET Callback]
           /\ apiQ' \in Seq(Kind \union {"open", "ssr"})
<1>1. \A c \in Client : mClientData'[k][c] \subseteq Callback
  OBVIOUS
<1>2. {f \in UNION {mClientData'[k][c] : c \in Client} : KindOf[f] = k} \subseteq Callback
  BY <1>1
<1>. QED  BY <1>2 DEF UpdateClientsEventMask, AdaptersOK, QueuesOK

LEMMA SameCall ==
    ASSUME CallOK, UNCHANGED <<call, building, clientData, destroyData, life>>
    PROVE  CallOK'
<1>1. NextKind' = NextKind
  BY DEF NextKind
<1>. QED  BY <1>1 DEF CallOK, Kinds, Idle

LEMMA HandleAddTypes ==
    ASSUME Typed, HandleAdd
    PROVE  Typed'
<1>. USE DEF Typed
<1>. DEFINE m == Head(msgQ)
<1>1. m.kind \in Kind /\ m.client \in Client /\ m.callbacks \in SUBSET Callback
      /\ Tail(msgQ) \in Seq(Message)
  BY HeadMessage, MessageFields DEF HandleAdd, Handling
<1>2. /\ mClientData' = [mClientData EXCEPT ![m.kind][m.client] = m.callbacks]
      /\ UpdateClientsEventMask(m.kind) /\ msgQ' = Tail(msgQ)
      /\ UNCHANGED <<locationApi, known, mPendingMsgs, modem, clients, mLocAdapters, events>>
  BY DEF HandleAdd
<1>. HIDE DEF m
<1>3. mClientData' \in [Kind -> [Client -> SUBSET Callback]]
  BY <1>1, <1>2 DEF AdaptersOK
<1>4. AdaptersOK' /\ QueuesOK'
  BY <1>1, <1>2, <1>3, MaskTypes DEF AdaptersOK, QueuesOK
<1>5. LocationApiOK' /\ ModemOK' /\ ClientsOK'
  BY <1>2 DEF LocationApiOK, ModemOK, ClientsOK, locationApi, modem, clients
<1>6. CallOK'
  BY <1>2, SameCall DEF locationApi, clients
<1>. QED  BY <1>4, <1>5, <1>6

LEMMA HandleRemoveTypes ==
    ASSUME Typed, HandleRemove
    PROVE  /\ Typed' /\ call = Idle
           /\ \A c \in Client \ {Head(msgQ).client} :
                 life'[c] = life[c] /\ destroyData'[c] = destroyData[c]
           /\ destroyData'[Head(msgQ).client] = destroyData[Head(msgQ).client] \ {Head(msgQ).kind}
           /\ LET c == Head(msgQ).client
              IN  life'[c] = IF life[c] = "destroying" /\ destroyData'[c] = {} THEN "told"
                             ELSE life[c]
<1>. USE DEF Typed
<1>. DEFINE m == Head(msgQ)
<1>1. m.kind \in Kind /\ m.client \in Client /\ Tail(msgQ) \in Seq(Message)
  BY HeadMessage, MessageFields DEF HandleRemove, Handling
<1>2. /\ mClientData' = [mClientData EXCEPT ![m.kind][m.client] = {}]
      /\ UpdateClientsEventMask(m.kind) /\ msgQ' = Tail(msgQ) /\ call = Idle
      /\ destroyData' = [destroyData EXCEPT ![m.client] = @ \ {m.kind}]
      /\ life' = IF destroyData[m.client] # {} /\ destroyData'[m.client] = {}
                 THEN [life EXCEPT ![m.client] = "told"] ELSE life
      /\ UNCHANGED <<clientData, loaded, call, building, known, mPendingMsgs, modem,
                     heard, dropped, mLocAdapters, events>>
  BY DEF HandleRemove, EraseClient, OnRemoveClientComplete
<1>. HIDE DEF m
<1>3. mClientData' \in [Kind -> [Client -> SUBSET Callback]]
  BY <1>1, <1>2 DEF AdaptersOK
<1>4. AdaptersOK' /\ QueuesOK'
  BY <1>1, <1>2, <1>3, MaskTypes DEF AdaptersOK, QueuesOK
<1>5. LocationApiOK' /\ ModemOK' /\ ClientsOK'
  BY <1>1, <1>2 DEF LocationApiOK, ModemOK, ClientsOK, modem
<1>6. /\ \A c \in Client \ {m.client} : life'[c] = life[c] /\ destroyData'[c] = destroyData[c]
      /\ destroyData'[m.client] = destroyData[m.client] \ {m.kind}
      /\ life'[m.client] = IF life[m.client] = "destroying" /\ destroyData'[m.client] = {}
                           THEN "told" ELSE life[m.client]
  <2>1. destroyData[m.client] # {} <=> life[m.client] = "destroying"
    BY <1>1 DEF CallOK
  <2>. QED  BY <1>1, <1>2, <2>1 DEF LocationApiOK, ClientsOK
<1>7. CallOK'
  <2>1. call' = Idle /\ building' = "none" /\ Idle.left = {} /\ Idle.client = None
    BY <1>2 DEF CallOK, Idle
  <2>2. \A c \in Client : life'[c] # life[c] =>
            c = m.client /\ life[c] = "destroying" /\ life'[c] = "told" /\ destroyData'[c] = {}
    BY <1>6
  <2>3. \A c \in Client : destroyData'[c] # {} <=> life'[c] = "destroying"
    <3>. SUFFICES ASSUME NEW c \in Client  PROVE destroyData'[c] # {} <=> life'[c] = "destroying"
      OBVIOUS
    <3>1. destroyData[c] # {} <=> life[c] = "destroying"
      BY DEF CallOK
    <3>. QED  BY <1>1, <1>6, <3>1
  <2>4. \A c \in Client : life'[c] # "used" => clientData'[c] = {}
    BY <1>2, <2>2 DEF CallOK
  <2>5. \A c \in Client : life'[c] # "creating"
    BY <1>2, <2>1, <2>2 DEF CallOK
  <2>. QED  BY <2>1, <2>3, <2>4, <2>5 DEF CallOK, Kinds
<1>. QED  BY <1>2, <1>4, <1>5, <1>6, <1>7 DEF m

LEMMA HandleRequestTypes ==
    ASSUME Typed, HandleRequest
    PROVE  Typed'
<1>. USE DEF Typed
<1>. DEFINE m == Head(msgQ)
<1>1. m.kind \in Kind /\ m.client \in Client /\ m \in Request /\ Tail(msgQ) \in Seq(Message)
  BY HeadMessage, MessageFields DEF HandleRequest, Handling
<1>2. /\ \/ heard' = heard \union {c \in {m.client} : mClientData[m.kind][c] # {}}
            /\ UNCHANGED mPendingMsgs
         \/ /\ mPendingMsgs' = [mPendingMsgs EXCEPT ![m.kind] = Append(@, m)]
            /\ UNCHANGED heard
      /\ msgQ' = Tail(msgQ)
      /\ UNCHANGED <<locationApi, mClientData, mEvtMask, known, modem, life, dropped,
                     mLocAdapters, apiQ, events>>
  BY DEF HandleRequest, Tells
<1>. HIDE DEF m
<1>3. mPendingMsgs' \in [Kind -> Seq(Request)]
  <2>1. mPendingMsgs[m.kind] \in Seq(Request)
    BY <1>1 DEF AdaptersOK
  <2>2. Append(mPendingMsgs[m.kind], m) \in Seq(Request)
    BY <1>1, <2>1
  <2>. QED  BY <1>1, <1>2, <2>2 DEF AdaptersOK
<1>4. AdaptersOK' /\ QueuesOK' /\ ClientsOK'
  BY <1>1, <1>2, <1>3 DEF AdaptersOK, QueuesOK, ClientsOK
<1>5. LocationApiOK' /\ ModemOK' /\ CallOK'
  BY <1>2, SameCall DEF LocationApiOK, ModemOK, locationApi, modem
<1>. QED  BY <1>4, <1>5

LEMMA HandleEngineUpTypes ==
    ASSUME Typed, HandleEngineUp
    PROVE  /\ Typed'
           /\ \E p \in Seq(Request) : msgQ' = Tail(msgQ) \o p
<1>. USE DEF Typed
<1>. DEFINE k == Head(msgQ).kind
<1>1. k \in Kind /\ Tail(msgQ) \in Seq(Message)
  BY HeadMessage, MessageFields DEF HandleEngineUp, Handling
<1>2. /\ known' = [known EXCEPT ![k] = TRUE]
      /\ heard' = heard \union {c \in Client : mClientData[k][c] # {}}
      /\ msgQ' = Tail(msgQ) \o mPendingMsgs[k]
      /\ mPendingMsgs' = [mPendingMsgs EXCEPT ![k] = <<>>]
      /\ UNCHANGED <<locationApi, mClientData, mEvtMask, modem, life, dropped,
                     mLocAdapters, apiQ, events>>
  BY DEF HandleEngineUp, Tells
<1>. HIDE DEF k
<1>3. mPendingMsgs[k] \in Seq(Request) /\ mPendingMsgs' \in [Kind -> Seq(Request)]
  BY <1>1, <1>2 DEF AdaptersOK
<1>4. Request \subseteq Message
  BY DEF Message
<1>5. QueuesOK'
  <2>1. mPendingMsgs[k] \in Seq(Message)
    BY <1>3, <1>4
  <2>2. msgQ' \in Seq(Message)
    BY <1>1, <1>2, <2>1, MessagesConcat
  <2>. QED  BY <1>2, <2>2 DEF QueuesOK
<1>6. AdaptersOK' /\ ClientsOK'
  BY <1>1, <1>2, <1>3 DEF AdaptersOK, ClientsOK
<1>7. LocationApiOK' /\ ModemOK' /\ CallOK'
  BY <1>2, SameCall DEF LocationApiOK, ModemOK, locationApi, modem
<1>. QED  BY <1>2, <1>3, <1>5, <1>6, <1>7

\* LocApi's task: all it may put into the adapters' queue is that the engine is up.
Announced == {m \in Message : m.type = "engineUp"}

LEMMA OpenTypes ==
    ASSUME Typed, NEW ks \in SUBSET Kind, Open(ks)
    PROVE  /\ ModemOK'
           /\ \E p \in Seq(Announced) : msgQ' = msgQ \o p
<1>. USE DEF Typed
<1>1. \A k \in Kind : \A js : Announce(k, js) \in Seq(Announced)
  <2>. SUFFICES ASSUME NEW k \in Kind, NEW js  PROVE Announce(k, js) \in Seq(Announced)
    OBVIOUS
  <2>1. Msg("engineUp", k, None, {}) \in Announced
    BY MessageTypes DEF Announced, Msg
  <2>2. <<Msg("engineUp", k, None, {})>> \in Seq(Announced) /\ <<>> \in Seq(Announced)
    BY <2>1
  <2>. QED  BY <2>2 DEF Announce
<1>2. CASE msgQ' = msgQ /\ UNCHANGED <<modemMask, engineKnown>> /\ refused' = TRUE /\ deaf' = deaf \union ks
  <2>1. <<>> \in Seq(Announced) /\ msgQ' = msgQ \o <<>>
    BY <1>2 DEF QueuesOK
  <2>. QED  BY <1>2, <2>1 DEF ModemOK
<1>3. CASE /\ modemMask' = UNION {mEvtMask[mLocAdapters[i]] : i \in DOMAIN mLocAdapters}
           /\ refused' = FALSE /\ engineKnown' = TRUE /\ EngineUp(ks)
  <2>1. PICK missed \in SUBSET (ks \intersect {building}) :
          /\ msgQ' = msgQ \o Announce("gnss", ks \ missed)
                          \o Announce("batching", ks \ missed)
                          \o Announce("geofence", ks \ missed)
          /\ deaf' = (deaf \ ks) \union missed
    BY <1>3 DEF EngineUp
  <2>2. ModemOK'
    <3>1. \A i \in DOMAIN mLocAdapters : mEvtMask[mLocAdapters[i]] \subseteq Callback
      BY DEF QueuesOK, AdaptersOK
    <3>2. modemMask' \subseteq Callback
      BY <1>3, <3>1
    <3>3. deaf' \subseteq Kind
      BY <2>1 DEF ModemOK
    <3>. QED  BY <1>3, <3>2, <3>3 DEF ModemOK
  <2>. DEFINE x == Announce("gnss", ks \ missed)
              y == Announce("batching", ks \ missed)
              z == Announce("geofence", ks \ missed)
  <2>3. x \in Seq(Announced) /\ y \in Seq(Announced) /\ z \in Seq(Announced)
    BY <1>1 DEF Kind
  <2>4. Announced \subseteq Message
    BY DEF Announced
  <2>5. msgQ' = ((msgQ \o x) \o y) \o z /\ msgQ \in Seq(Message)
    BY <2>1 DEF QueuesOK
  <2>. HIDE DEF x, y, z, Announced
  <2>6. x \in Seq(Message) /\ y \in Seq(Message) /\ z \in Seq(Message)
    BY <2>3, <2>4
  <2>7. x \o y \in Seq(Message)
    BY <2>6, MessagesConcat
  <2>8. msgQ' = msgQ \o ((x \o y) \o z)
    <3>1. (msgQ \o x) \o y = msgQ \o (x \o y)
      BY <2>5, <2>6, MessagesAssociate
    <3>2. (msgQ \o (x \o y)) \o z = msgQ \o ((x \o y) \o z)
      BY <2>5, <2>6, <2>7, MessagesAssociate
    <3>. QED  BY <2>5, <3>1, <3>2
  <2>9. (x \o y) \o z \in Seq(Announced)
    BY <2>3
  <2>. QED  BY <2>2, <2>8, <2>9
<1>. QED  BY <1>2, <1>3 DEF Open

LEMMA LocApiTaskTypes ==
    ASSUME Typed, LocApiTask
    PROVE  /\ Typed'
           /\ \E p \in Seq(Announced) : msgQ' = msgQ \o p
<1>. USE DEF Typed
<1>. DEFINE ks == CASE Head(apiQ) = "open" -> {}
                    [] Head(apiQ) = "ssr" -> {mLocAdapters[i] : i \in DOMAIN mLocAdapters}
                    [] OTHER -> {Head(apiQ)}
<1>1. /\ apiQ # <<>> /\ apiQ' = Tail(apiQ) /\ Open(ks)
      /\ UNCHANGED <<locationApi, adapters, clients, mLocAdapters>>
  BY DEF LocApiTask
<1>2. ks \in SUBSET Kind
  <2>1. Head(apiQ) \in Kind \union {"open", "ssr"}
    BY <1>1 DEF QueuesOK
  <2>2. {mLocAdapters[i] : i \in DOMAIN mLocAdapters} \subseteq Kind
    BY DEF QueuesOK
  <2>3. "open" # "ssr"
    OBVIOUS
  <2>. QED  BY <2>1, <2>2, <2>3
<1>. HIDE DEF ks
<1>3. ModemOK' /\ \E p \in Seq(Announced) : msgQ' = msgQ \o p
  BY <1>1, <1>2, OpenTypes
<1>4. QueuesOK'
  <2>1. PICK p \in Seq(Announced) : msgQ' = msgQ \o p
    BY <1>3
  <2>2. Announced \subseteq Message
    BY DEF Announced
  <2>3. p \in Seq(Message)
    BY <2>2
  <2>4. msgQ' \in Seq(Message)
    BY <2>1, <2>3, MessagesConcat DEF QueuesOK
  <2>. QED  BY <1>1, <2>4 DEF QueuesOK
<1>5. LocationApiOK' /\ AdaptersOK' /\ ClientsOK' /\ CallOK'
  BY <1>1, SameCall DEF LocationApiOK, AdaptersOK, ClientsOK, locationApi, adapters, clients
<1>. QED  BY <1>3, <1>4, <1>5

LEMMA TypedStep ==
    ASSUME Typed, [Next]_vars
    PROVE  Typed'
<1>1. ASSUME NEW c \in Client, NEW callbacks \in Uses,
             CreateInstance(c, callbacks) \/ UpdateCallbacks(c, callbacks)
      PROVE  Typed'
  <2>1. dropped' \subseteq Client
    BY <1>1 DEF CreateInstance, UpdateCallbacks, Typed, ClientsOK
  <2>. QED  BY <1>1, <2>1, EnterTypes DEF CreateInstance, UpdateCallbacks
<1>2. \A c \in Client, tells \in BOOLEAN : Destroy(c, tells) => Typed'
  BY DestroyTypes
<1>3. EngineDown => Typed'
  <2>. SUFFICES ASSUME EngineDown  PROVE Typed'
    OBVIOUS
  <2>. USE DEF Typed
  <2>1. QueuesOK'
    BY DEF EngineDown, QueuesOK
  <2>2. LocationApiOK' /\ AdaptersOK' /\ ModemOK' /\ ClientsOK' /\ CallOK'
    BY SameCall DEF EngineDown, LocationApiOK, AdaptersOK, ModemOK, ClientsOK,
                    locationApi, adapters, modem, clients
  <2>. QED  BY <2>1, <2>2
<1>4. UNCHANGED vars => Typed'
  <2>. SUFFICES ASSUME UNCHANGED vars  PROVE Typed'
    OBVIOUS
  <2>. USE DEF Typed
  <2>1. LocationApiOK' /\ AdaptersOK' /\ QueuesOK' /\ ModemOK' /\ ClientsOK' /\ CallOK'
    BY SameCall DEF vars, LocationApiOK, AdaptersOK, QueuesOK, ModemOK, ClientsOK,
                    locationApi, adapters, modem, clients
  <2>. QED  BY <2>1
<1>. QED
  BY <1>1, <1>2, <1>3, <1>4, ConstructTypes, AddClientTypes, ReturnTypes, HandleAddTypes,
     HandleRemoveTypes, HandleRequestTypes, HandleEngineUpTypes, LocApiTaskTypes
  DEF Next, AdapterTask

LEMMA InitTyped == Init => Typed
<1>. SUFFICES ASSUME Init  PROVE Typed
  OBVIOUS
<1>1. Idle \in Call /\ Idle.left = {} /\ Idle.client = None
  BY DEF Idle, Call
<1>2. LocationApiOK /\ AdaptersOK /\ QueuesOK /\ ModemOK /\ ClientsOK
  <2>1. LocationApiOK
    BY <1>1 DEF Init, LocationApiOK
  <2>2. AdaptersOK
    BY DEF Init, AdaptersOK
  <2>3. QueuesOK
    BY DEF Init, QueuesOK
  <2>4. ModemOK /\ ClientsOK
    BY DEF Init, ModemOK, ClientsOK
  <2>. QED  BY <2>1, <2>2, <2>3, <2>4
<1>3. CallOK
  BY <1>1 DEF Init, CallOK
<1>. QED  BY <1>2, <1>3 DEF Typed

\* The tables, masks and queues keep their types, whatever clients call and
\* whenever the modem restarts or cannot be opened.
THEOREM TypeCorrect == Spec => []TypeOK
<1>1. Typed => TypeOK
  BY DEF Typed, LocationApiOK, AdaptersOK, QueuesOK, ModemOK, ClientsOK, TypeOK
<1>. QED  BY <1>1, InitTyped, TypedStep, PTL DEF Spec

-----------------------------------------------------------------------------
(* A client is forgotten once it is told.  For each adapter and client what *)
(* counts is where in the adapters' queue the messages about them are.      *)

At(q, type, k, c) == {i \in DOMAIN q : q[i].type = type /\ q[i].kind = k /\ q[i].client = c}

\* The client will be removed after it is added for the last time.
Going(q, k, c) ==
    \E i \in At(q, "remove", k, c) : \A j \in At(q, "add", k, c) : j < i

Once(q, k, c) == \A i, j \in At(q, "remove", k, c) : i = j

\* The client is in the adapter's table, or will be.
Here(k, c) == mClientData[k][c] # {} \/ At(msgQ, "add", k, c) # {}

\* The client wants something of the adapter.
Wants(k, c) ==
    \/ k \in Kinds(clientData[c])
    \/ call.client = c /\ k \in Kinds(call.callbacks)

Pair(k, c) ==
    /\ Once(msgQ, k, c)
    /\ At(msgQ, "remove", k, c) # {} =>
          life[c] = "left" \/ (life[c] = "destroying" /\ k \in destroyData[c])
    /\ Here(k, c) => k \in loaded /\ life[c] # "new"
    /\ Here(k, c) /\ c \notin dropped =>
          IF life[c] \in {"creating", "used"} THEN Wants(k, c) ELSE Going(msgQ, k, c)

\* An update that leaves no adapter out
UpdateInv ==
    call # Idle /\ call.client \notin dropped => Leaves(call.client) \subseteq Kinds(call.callbacks)

PairInv == UpdateInv /\ \A k \in Kind, c \in Client : Pair(k, c)

LEMMA AtConcat ==
    ASSUME NEW q \in Seq(Message), NEW p \in Seq(Message), NEW type, NEW k, NEW c
    PROVE  /\ \A i \in At(q, type, k, c) : i \in At(q \o p, type, k, c) /\ i \in 1..Len(q)
           /\ \A i \in At(q \o p, type, k, c) :
                 i \in At(q, type, k, c) \/ (i - Len(q) \in At(p, type, k, c) /\ i > Len(q))
           /\ \A i \in At(p, type, k, c) : i + Len(q) \in At(q \o p, type, k, c) /\ i \in 1..Len(p)
<1>. DEFINE r == q \o p
<1>1. /\ r \in Seq(Message) /\ Len(r) = Len(q) + Len(p)
      /\ DOMAIN r = 1..Len(r) /\ DOMAIN q = 1..Len(q) /\ DOMAIN p = 1..Len(p)
      /\ Len(q) \in Nat /\ Len(p) \in Nat
      /\ \A i \in DOMAIN q : r[i] = q[i]
      /\ \A i \in DOMAIN p : r[i + Len(q)] = p[i]
  OBVIOUS
<1>. HIDE DEF r
<1>2. \A i \in DOMAIN r : i \in DOMAIN q \/ (i - Len(q) \in DOMAIN p /\ i > Len(q) /\ r[i] = p[i - Len(q)])
  <2>. SUFFICES ASSUME NEW i \in DOMAIN r, i \notin DOMAIN q
                PROVE  i - Len(q) \in DOMAIN p /\ i > Len(q) /\ r[i] = p[i - Len(q)]
    OBVIOUS
  <2>1. i - Len(q) \in DOMAIN p /\ i > Len(q) /\ (i - Len(q)) + Len(q) = i
    BY <1>1
  <2>. QED  BY <1>1, <2>1
<1>3. \A i \in At(q, type, k, c) : i \in At(r, type, k, c) /\ i \in 1..Len(q)
  BY <1>1 DEF At
<1>4. \A i \in At(r, type, k, c) :
          i \in At(q, type, k, c) \/ (i - Len(q) \in At(p, type, k, c) /\ i > Len(q))
  BY <1>1, <1>2 DEF At
<1>5. \A i \in At(p, type, k, c) : i + Len(q) \in At(r, type, k, c) /\ i \in 1..Len(p)
  BY <1>1 DEF At
<1>. QED  BY <1>3, <1>4, <1>5 DEF r

\* Messages about something else
LEMMA AtOthers ==
    ASSUME NEW q \in Seq(Message), NEW p \in Seq(Message), NEW type, NEW k, NEW c,
           At(p, type, k, c) = {}
    PROVE  At(q \o p, type, k, c) = At(q, type, k, c)
<1>. DEFINE x == At(q \o p, type, k, c)
            y == At(q, type, k, c)
<1>1. \A i \in y : i \in x
  BY AtConcat
<1>2. \A i \in x : i \in y
  BY AtConcat
<1>. HIDE DEF x, y
<1>3. x = y
  BY <1>1, <1>2
<1>. QED  BY <1>3 DEF x, y

LEMMA AtTail ==
    ASSUME NEW q \in Seq(Message), q # <<>>, NEW type, NEW k, NEW c
    PROVE  /\ \A i \in At(Tail(q), type, k, c) : i + 1 \in At(q, type, k, c) /\ i \in Nat /\ i > 0
           /\ \A i \in At(q, type, k, c) : i = 1 \/ (i - 1 \in At(Tail(q), type, k, c) /\ i > 1)
           /\ \A i \in At(q, type, k, c) : i \in Nat
           /\ 1 \in At(q, type, k, c) <=>
                 Head(q).type = type /\ Head(q).kind = k /\ Head(q).client = c
<1>. DEFINE r == Tail(q)
<1>1. /\ \A i \in DOMAIN r : i \in Nat /\ i > 0 /\ i + 1 \in DOMAIN q /\ r[i] = q[i + 1]
      /\ \A i \in DOMAIN q : i \in Nat /\ (i = 1 \/ (i > 1 /\ i - 1 \in DOMAIN r /\ r[i - 1] = q[i]))
      /\ 1 \in DOMAIN q /\ q[1] = Head(q)
  OBVIOUS
<1>. HIDE DEF r
<1>2. /\ \A i \in At(r, type, k, c) : i + 1 \in At(q, type, k, c) /\ i \in Nat /\ i > 0
      /\ \A i \in At(q, type, k, c) : i = 1 \/ (i - 1 \in At(r, type, k, c) /\ i > 1)
      /\ \A i \in At(q, type, k, c) : i \in Nat
      /\ 1 \in At(q, type, k, c) <=>
            Head(q).type = type /\ Head(q).kind = k /\ Head(q).client = c
  BY <1>1 DEF At
<1>. QED  BY <1>2 DEF r

\* The oldest message is handled.
LEMMA PopQueue ==
    ASSUME NEW q \in Seq(Message), q # <<>>, NEW k, NEW c, Once(q, k, c)
    PROVE  /\ At(Tail(q), "add", k, c) # {} => At(q, "add", k, c) # {}
           /\ At(Tail(q), "remove", k, c) # {} => At(q, "remove", k, c) # {}
           /\ Once(Tail(q), k, c)
           /\ LET m == Head(q)
              IN  IF m.type = "remove" /\ m.kind = k /\ m.client = c
                  THEN /\ At(q, "remove", k, c) # {} /\ At(Tail(q), "remove", k, c) = {}
                       /\ Going(q, k, c) => At(Tail(q), "add", k, c) = {}
                  ELSE Going(q, k, c) => Going(Tail(q), k, c)
<1>. DEFINE m == Head(q)
            adds == At(q, "add", k, c)
            removes == At(q, "remove", k, c)
            adds2 == At(Tail(q), "add", k, c)
            removes2 == At(Tail(q), "remove", k, c)
<1>1. /\ \A i \in adds2 : i + 1 \in adds /\ i \in Nat /\ i > 0
      /\ \A i \in adds : i = 1 \/ (i - 1 \in adds2 /\ i > 1)
      /\ \A i \in adds : i \in Nat
  BY AtTail
<1>2. /\ \A i \in removes2 : i + 1 \in removes /\ i \in Nat /\ i > 0
      /\ \A i \in removes : i = 1 \/ (i - 1 \in removes2 /\ i > 1)
      /\ \A i \in removes : i \in Nat
      /\ 1 \in removes <=> m.type = "remove" /\ m.kind = k /\ m.client = c
  BY AtTail
<1>3. /\ \A i, j \in removes : i = j
      /\ Going(q, k, c) <=> \E i \in removes : \A j \in adds : j < i
      /\ Going(Tail(q), k, c) <=> \E i \in removes2 : \A j \in adds2 : j < i
      /\ Once(Tail(q), k, c) <=> \A i, j \in removes2 : i = j
  BY DEF Once, Going
<1>. HIDE DEF m, adds, removes, adds2, removes2
<1>4. \A i, j \in removes2 : i = j
  <2>. SUFFICES ASSUME NEW i \in removes2, NEW j \in removes2  PROVE i = j
    OBVIOUS
  <2>1. i + 1 \in removes /\ j + 1 \in removes /\ i \in Nat /\ j \in Nat
    BY <1>2
  <2>2. i + 1 = j + 1
    BY <1>3, <2>1
  <2>. QED  BY <2>1, <2>2
<1>5. ASSUME 1 \in removes
      PROVE  removes2 = {} /\ (Going(q, k, c) => adds2 = {})
  <2>1. ASSUME NEW i \in removes2  PROVE FALSE
    <3>1. i + 1 \in removes /\ i \in Nat /\ i > 0
      BY <1>2, <2>1
    <3>2. i + 1 = 1
      BY <1>3, <1>5, <3>1
    <3>. QED  BY <3>1, <3>2
  <2>2. ASSUME Going(q, k, c), NEW j \in adds2  PROVE FALSE
    <3>1. PICK i \in removes : \A x \in adds : x < i
      BY <1>3, <2>2
    <3>2. i = 1
      BY <1>3, <1>5
    <3>3. j + 1 \in adds /\ j \in Nat /\ j > 0
      BY <1>1, <2>2
    <3>4. j + 1 < 1
      BY <3>1, <3>2, <3>3
    <3>. QED  BY <3>3, <3>4
  <2>. QED  BY <2>1, <2>2
<1>6. ASSUME 1 \notin removes, Going(q, k, c)
      PROVE  Going(Tail(q), k, c)
  <2>1. PICK i \in removes : \A x \in adds : x < i
    BY <1>3, <1>6
  <2>2. i - 1 \in removes2 /\ i > 1 /\ i \in Nat
    BY <1>2, <1>6, <2>1
  <2>3. ASSUME NEW j \in adds2  PROVE j < i - 1
    <3>1. j + 1 \in adds /\ j \in Nat
      BY <1>1, <2>3
    <3>2. j + 1 < i
      BY <2>1, <3>1
    <3>. QED  BY <2>2, <3>1, <3>2
  <2>. QED  BY <1>3, <2>2, <2>3
<1>7. /\ adds2 # {} => adds # {}
      /\ removes2 # {} => removes # {}
  BY <1>1, <1>2
<1>8. Once(Tail(q), k, c)
  BY <1>3, <1>4
<1>9. IF m.type = "remove" /\ m.kind = k /\ m.client = c
      THEN /\ removes # {} /\ removes2 = {}
           /\ Going(q, k, c) => adds2 = {}
      ELSE Going(q, k, c) => Going(Tail(q), k, c)
  BY <1>2, <1>5, <1>6
<1>. QED  BY <1>7, <1>8, <1>9 DEF m, adds, removes, adds2, removes2

\* The messages behind the queue are about no adapter and client of their own.
LEMMA Unrelated ==
    ASSUME NEW p \in Seq(Message), NEW type \in {"add", "remove"}, NEW k, NEW c,
           \A i \in DOMAIN p : p[i].type \in {"request", "engineUp"}
    PROVE  At(p, type, k, c) = {}
  BY DEF At

\* A step that leaves the adapters' tables and their order of events alone
LEMMA SamePair ==
    ASSUME NEW k \in Kind, NEW c \in Client, Pair(k, c),
           mClientData'[k][c] = mClientData[k][c], destroyData'[c] = destroyData[c],
           loaded \subseteq loaded', dropped \subseteq dropped',
           At(msgQ', "add", k, c) = At(msgQ, "add", k, c),
           At(msgQ', "remove", k, c) = At(msgQ, "remove", k, c),
           life'[c] = life[c], Wants(k, c) => Wants(k, c)'
    PROVE  Pair(k, c)'
<1>1. Here(k, c)' <=> Here(k, c)
  BY DEF Here, At
<1>2. Once(msgQ, k, c)' /\ (Going(msgQ, k, c) => Going(msgQ, k, c)')
  BY DEF Pair, Once, Going
<1>. QED  BY <1>1, <1>2 DEF Pair

LEMMA EnterPair ==
    ASSUME Typed, PairInv, NEW c \in Client, NEW callbacks \in Uses,
           CreateInstance(c, callbacks) \/ UpdateCallbacks(c, callbacks)
    PROVE  PairInv'
<1>1. /\ call = Idle /\ call'.client = c /\ call'.callbacks = callbacks
      /\ UNCHANGED <<clientData, destroyData, loaded, mClientData, msgQ>>
  BY DEF CreateInstance, UpdateCallbacks, Enter, adapters
<1>2. /\ \/ life[c] = "new" /\ life' = [life EXCEPT ![c] = "creating"] /\ UNCHANGED dropped
         \/ /\ life[c] = "used" /\ UNCHANGED life
            /\ dropped' = IF Leaves(c) \subseteq Kinds(callbacks) THEN dropped ELSE dropped \union {c}
  BY DEF CreateInstance, UpdateCallbacks
<1>3. UpdateInv'
  <2>1. Leaves(c)' = Leaves(c)
    BY <1>1 DEF Leaves
  <2>2. life[c] = "new" => Leaves(c) = {}
    BY DEF Typed, CallOK, Leaves, Kinds
  <2>3. c \notin dropped' => Leaves(c) \subseteq Kinds(callbacks)
    BY <1>2, <2>2
  <2>. QED  BY <1>1, <2>1, <2>3 DEF UpdateInv, Leaves
<1>4. ASSUME NEW k \in Kind, NEW d \in Client  PROVE Pair(k, d)'
  <2>1. Pair(k, d) /\ At(msgQ', "add", k, d) = At(msgQ, "add", k, d)
                   /\ At(msgQ', "remove", k, d) = At(msgQ, "remove", k, d)
    BY <1>1 DEF PairInv, At
  <2>2. Wants(k, d) => Wants(k, d)'
    BY <1>1 DEF Wants, Idle
  <2>3. CASE life'[d] = life[d]
    BY <1>1, <1>2, <2>1, <2>2, <2>3, SamePair
  <2>4. CASE d = c /\ life[c] = "new" /\ life'[c] = "creating"
    <3>1. At(msgQ, "remove", k, d) = {} /\ ~ Here(k, d)
      BY <2>1, <2>4 DEF Pair
    <3>2. At(msgQ, "remove", k, d)' = {} /\ ~ Here(k, d)'
      BY <1>1, <2>1, <3>1 DEF Here, At
    <3>. QED  BY <3>2 DEF Pair, Once
  <2>. QED  BY <1>2, <2>3, <2>4 DEF Typed, ClientsOK
<1>. QED  BY <1>3, <1>4 DEF PairInv

LEMMA ConcatShape ==
    ASSUME NEW x \in Seq(Message), NEW y \in Seq(Message)
    PROVE  /\ x \o y \in Seq(Message) /\ Len(x \o y) = Len(x) + Len(y)
           /\ DOMAIN (x \o y) = 1..Len(x \o y) /\ Len(x) \in Nat /\ Len(y) \in Nat
           /\ \A i \in 1..Len(x) : (x \o y)[i] = x[i]
           /\ \A i \in 1..Len(y) : (x \o y)[i + Len(x)] = y[i]
  OBVIOUS

LEMMA FirstThen ==
    ASSUME NEW x \in Seq(Message), NEW y \in Seq(Message), Len(x) = 1
    PROVE  /\ 1 \in DOMAIN (x \o y) /\ (x \o y)[1] = x[1]
           /\ \A i \in DOMAIN (x \o y) :
                 i = 1 \/ (i - 1 \in 1..Len(y) /\ (x \o y)[i] = y[i - 1])
<1>. DEFINE z == x \o y
<1>0. /\ z \in Seq(Message) /\ Len(z) = Len(x) + Len(y) /\ DOMAIN z = 1..Len(z)
      /\ Len(x) \in Nat /\ Len(y) \in Nat
      /\ \A i \in 1..Len(x) : z[i] = x[i]
      /\ \A i \in 1..Len(y) : z[i + Len(x)] = y[i]
  BY ConcatShape
<1>1. /\ z \in Seq(Message) /\ Len(z) = 1 + Len(y) /\ DOMAIN z = 1..Len(z)
      /\ Len(y) \in Nat /\ z[1] = x[1] /\ \A i \in 1..Len(y) : z[i + 1] = y[i]
  <2>. HIDE DEF z
  <2>. QED  BY <1>0
<1>. HIDE DEF z
<1>2. ASSUME NEW i \in DOMAIN z, i # 1
      PROVE  i - 1 \in 1..Len(y) /\ z[i] = y[i - 1]
  <2>1. i - 1 \in 1..Len(y) /\ (i - 1) + 1 = i
    BY <1>1, <1>2
  <2>. QED  BY <1>1, <2>1
<1>3. 1 \in DOMAIN z
  BY <1>1
<1>. QED  BY <1>1, <1>2, <1>3 DEF z

LEMMA AddedAt ==
    ASSUME LocationApiOK, call.client \in Client, NEW k \in Kind, NEW j \in Kind, NEW c \in Client
    PROVE  /\ At(AddedBy(k), "remove", j, c) = {}
           /\ At(AddedBy(k), "add", j, c) = IF j = k /\ c = call.client THEN {1} ELSE {}
           /\ AddedBy(k)[1].callbacks = call.callbacks
<1>. DEFINE a == Msg("add", k, call.client, call.callbacks)
            r == Msg("request", k, call.client, {})
<1>1. AddedBy(k) = <<a>> \o <<r>> \/ AddedBy(k) = <<a>> \o <<>>
  BY DEF AddedBy
<1>2. /\ a.type = "add" /\ a.kind = k /\ a.client = call.client /\ a.callbacks = call.callbacks
      /\ r.type = "request" /\ a \in Message /\ r \in Message
  BY MessageTypes DEF Msg, LocationApiOK, Call
<1>. HIDE DEF a, r
<1>3. ASSUME NEW q, q = <<a>> \o <<r>> \/ q = <<a>> \o <<>>
      PROVE  /\ At(q, "remove", j, c) = {}
             /\ At(q, "add", j, c) = IF j = k /\ c = call.client THEN {1} ELSE {}
             /\ q[1].callbacks = call.callbacks
  <2>1. /\ 1 \in DOMAIN q /\ q[1] = a
        /\ \A i \in DOMAIN q : i = 1 \/ q[i] = r
    <3>1. /\ <<a>> \in Seq(Message) /\ Len(<<a>>) = 1 /\ <<a>>[1] = a
          /\ <<r>> \in Seq(Message) /\ Len(<<r>>) = 1 /\ <<r>>[1] = r
          /\ <<>> \in Seq(Message) /\ Len(<<>>) = 0
      BY <1>2
    <3>2. CASE q = <<a>> \o <<r>>
      <4>1. ASSUME NEW i \in DOMAIN q, i # 1  PROVE q[i] = r
        <5>1. i - 1 \in 1..1 /\ q[i] = <<r>>[i - 1]
          BY <3>1, <3>2, <4>1, FirstThen
        <5>. QED  BY <3>1, <5>1
      <4>. QED  BY <3>1, <3>2, <4>1, FirstThen
    <3>3. CASE q = <<a>> \o <<>>
      <4>1. ASSUME NEW i \in DOMAIN q, i # 1  PROVE FALSE
        BY <3>1, <3>3, <4>1, FirstThen
      <4>. QED  BY <3>1, <3>3, <4>1, FirstThen
    <3>. QED  BY <1>3, <3>2, <3>3
  <2>2. At(q, "remove", j, c) = {}
    BY <1>2, <2>1 DEF At
  <2>3. At(q, "add", j, c) = IF j = k /\ c = call.client THEN {1} ELSE {}
    BY <1>2, <2>1 DEF At
  <2>. QED  BY <1>2, <2>1, <2>2, <2>3
<1>. QED  BY <1>1, <1>3

LEMMA AddClientPair ==
    ASSUME Typed, PairInv, AddClient
    PROVE  PairInv'
<1>. DEFINE k0 == NextKind
            c0 == call.client
<1>1. /\ k0 \in call.left /\ k0 \in Kind /\ c0 \in Client /\ call # Idle
      /\ call'.client = c0 /\ call'.callbacks = call.callbacks
      /\ msgQ' = msgQ \o AddedBy(k0)
  BY AddClientTypes DEF Typed, CallOK
<1>2. /\ k0 \in Kinds(call.callbacks) /\ life[c0] \in {"creating", "used"}
      /\ msgQ \in Seq(Message) /\ AddedBy(k0) \in Seq(Message)
  BY <1>1, AddedTypes DEF Typed, CallOK, QueuesOK
<1>3. /\ loaded' = loaded \union {k0}
      /\ UNCHANGED <<clientData, destroyData, mClientData, life, dropped>>
  BY DEF AddClient, adapters, clients
<1>4. UpdateInv'
  <2>1. Leaves(call.client)' \subseteq Leaves(call.client) \union {k0}
    BY <1>1, <1>3 DEF Leaves
  <2>. QED  BY <1>1, <1>2, <1>3, <2>1 DEF PairInv, UpdateInv
<1>. HIDE DEF k0, c0
<1>5. ASSUME NEW k \in Kind, NEW c \in Client  PROVE Pair(k, c)'
  <2>1. /\ Pair(k, c) /\ (Wants(k, c) => Wants(k, c)')
        /\ At(msgQ', "remove", k, c) = At(msgQ, "remove", k, c)
    <3>1. At(AddedBy(k0), "remove", k, c) = {}
      BY <1>1, AddedAt DEF Typed, c0
    <3>. QED  BY <1>1, <1>2, <1>3, <3>1, AtOthers DEF PairInv, Wants, c0
  <2>2. CASE ~ (k = k0 /\ c = c0)
    <3>1. At(AddedBy(k0), "add", k, c) = {}
      BY <1>1, <2>2, AddedAt DEF Typed, c0
    <3>2. At(msgQ', "add", k, c) = At(msgQ, "add", k, c)
      BY <1>1, <1>2, <3>1, AtOthers
    <3>. QED  BY <1>3, <2>1, <3>2, SamePair
  <2>3. CASE k = k0 /\ c = c0
    <3>1. Once(msgQ, k, c)' /\ Wants(k, c)'
      BY <1>1, <1>2, <2>1, <2>3 DEF Pair, Once, Wants
    <3>. QED  BY <1>2, <1>3, <2>1, <2>3, <3>1 DEF Pair
  <2>. QED  BY <2>2, <2>3
<1>. QED  BY <1>4, <1>5 DEF PairInv

LEMMA ReturnPair ==
    ASSUME Typed, PairInv, Return
    PROVE  PairInv'
<1>. DEFINE c0 == call.client
<1>1. /\ call # Idle /\ c0 \in Client
      /\ clientData' = [clientData EXCEPT ![c0] = call.callbacks]
      /\ \A c \in Client : life'[c] = IF c = c0 THEN "used" ELSE life[c]
  BY ReturnTypes
<1>2. /\ call' = Idle /\ UNCHANGED <<destroyData, loaded, mClientData, dropped, msgQ>>
      /\ life[c0] \in {"creating", "used"}
  BY <1>1 DEF Return, adapters, Typed, CallOK
<1>3. UpdateInv'
  BY <1>2 DEF UpdateInv, Idle
<1>. HIDE DEF c0
<1>4. ASSUME NEW k \in Kind, NEW c \in Client  PROVE Pair(k, c)'
  <2>1. Pair(k, c) /\ At(msgQ', "add", k, c) = At(msgQ, "add", k, c)
                   /\ At(msgQ', "remove", k, c) = At(msgQ, "remove", k, c)
    BY <1>2 DEF PairInv, At
  <2>2. CASE c # c0
    <3>1. Wants(k, c) => Wants(k, c)'
      BY <1>1, <2>2 DEF Wants, c0, Typed, LocationApiOK
    <3>. QED  BY <1>1, <1>2, <2>1, <2>2, <3>1, SamePair
  <2>3. CASE c = c0
    <3>1. Once(msgQ, k, c)' /\ At(msgQ, "remove", k, c)' = {}
      BY <1>2, <2>1, <2>3 DEF Pair, Once, At
    <3>2. Here(k, c)' => Here(k, c)
      BY <1>2 DEF Here, At
    <3>3. clientData'[c] = call.callbacks /\ life'[c] = "used"
      BY <1>1, <2>3 DEF Typed, LocationApiOK
    <3>4. ASSUME Here(k, c), c \notin dropped  PROVE k \in Kinds(call.callbacks)
      <4>1. Wants(k, c) /\ k \in loaded
        BY <1>2, <2>1, <2>3, <3>4 DEF Pair
      <4>2. Leaves(c) \subseteq Kinds(call.callbacks)
        BY <1>1, <2>3, <3>4 DEF PairInv, UpdateInv, c0
      <4>. QED  BY <4>1, <4>2 DEF Wants, Leaves
    <3>. QED  BY <1>2, <2>1, <3>1, <3>2, <3>3, <3>4 DEF Pair, Wants
  <2>. QED  BY <2>2, <2>3
<1>. QED  BY <1>3, <1>4 DEF PairInv

LEMMA ConcatAt ==
    ASSUME NEW q \in Seq(Message), NEW p \in Seq(Message), NEW k, NEW c
    PROVE  /\ \A type : At(q \o p, type, k, c) # {} =>
                        At(q, type, k, c) # {} \/ At(p, type, k, c) # {}
           /\ \A type : At(q, type, k, c) # {} \/ At(p, type, k, c) # {} =>
                        At(q \o p, type, k, c) # {}
           /\ Once(q, k, c) /\ Once(p, k, c)
                 /\ (At(q, "remove", k, c) = {} \/ At(p, "remove", k, c) = {}) => Once(q \o p, k, c)
<1>1. ASSUME NEW type
      PROVE  /\ At(q \o p, type, k, c) # {} => At(q, type, k, c) # {} \/ At(p, type, k, c) # {}
             /\ At(q, type, k, c) # {} \/ At(p, type, k, c) # {} => At(q \o p, type, k, c) # {}
  BY AtConcat
<1>2. ASSUME Once(q, k, c), Once(p, k, c),
             At(q, "remove", k, c) = {} \/ At(p, "remove", k, c) = {}
      PROVE  Once(q \o p, k, c)
  <2>. SUFFICES ASSUME NEW i \in At(q \o p, "remove", k, c), NEW j \in At(q \o p, "remove", k, c)
                PROVE  i = j
    BY DEF Once
  <2>1. \A x \in At(q \o p, "remove", k, c) :
            x \in At(q, "remove", k, c) \/ x - Len(q) \in At(p, "remove", k, c)
    BY AtConcat
  <2>2. CASE At(p, "remove", k, c) = {}
    BY <1>2, <2>1, <2>2 DEF Once
  <2>3. CASE At(q, "remove", k, c) = {}
    <3>1. i - Len(q) = j - Len(q)
      BY <1>2, <2>1, <2>3 DEF Once
    <3>2. i \in Nat /\ j \in Nat /\ Len(q) \in Nat
      <4>1. DOMAIN (q \o p) \subseteq Nat
        OBVIOUS
      <4>. QED  BY <4>1 DEF At
    <3>. QED  BY <3>1, <3>2
  <2>. QED  BY <1>2, <2>2, <2>3
<1>. QED  BY <1>1, <1>2

LEMMA RemovalAt ==
    ASSUME NEW j \in Kind, NEW c \in Client, NEW k, NEW d
    PROVE  /\ At(Removal(j, c), "add", k, d) = {}
           /\ At(Removal(j, c), "remove", k, d) =
                 IF j = k /\ c = d /\ j \in Leaves(c) THEN {1} ELSE {}
<1>. DEFINE m == Msg("remove", j, c, {})
<1>1. m.type = "remove" /\ m.kind = j /\ m.client = c
  BY DEF Msg
<1>. HIDE DEF m
<1>2. DOMAIN <<m>> = {1} /\ <<m>>[1] = m
  OBVIOUS
<1>3. /\ At(<<m>>, "add", k, d) = {}
      /\ At(<<m>>, "remove", k, d) = IF j = k /\ c = d THEN {1} ELSE {}
  BY <1>1, <1>2 DEF At
<1>4. At(<<>>, "add", k, d) = {} /\ At(<<>>, "remove", k, d) = {}
  BY DEF At
<1>. QED  BY <1>3, <1>4 DEF Removal, m

\* destroy() removes the client once from each adapter that it uses.
LEMMA RemovalsAt ==
    ASSUME NEW c \in Client, NEW k \in Kind, NEW d
    PROVE  /\ At(Removals(c), "add", k, d) = {} /\ Once(Removals(c), k, d)
           /\ At(Removals(c), "remove", k, d) # {} <=> c = d /\ k \in Leaves(c)
<1>. DEFINE x == Removal("gnss", c)
            y == Removal("batching", c)
            z == Removal("geofence", c)
<1>1. x \in Seq(Message) /\ y \in Seq(Message) /\ z \in Seq(Message)
  BY RemovalTypes DEF Kind
<1>2. /\ At(x, "add", k, d) = {} /\ At(y, "add", k, d) = {} /\ At(z, "add", k, d) = {}
      /\ At(x, "remove", k, d) = IF "gnss" = k /\ c = d /\ k \in Leaves(c) THEN {1} ELSE {}
      /\ At(y, "remove", k, d) = IF "batching" = k /\ c = d /\ k \in Leaves(c) THEN {1} ELSE {}
      /\ At(z, "remove", k, d) = IF "geofence" = k /\ c = d /\ k \in Leaves(c) THEN {1} ELSE {}
  BY RemovalAt DEF Kind
<1>3. Once(x, k, d) /\ Once(y, k, d) /\ Once(z, k, d)
  BY <1>2 DEF Once
<1>. HIDE DEF x, y, z
<1>4. /\ x \o y \in Seq(Message) /\ At(x \o y, "add", k, d) = {} /\ Once(x \o y, k, d)
      /\ At(x \o y, "remove", k, d) # {} <=> c = d /\ k \in Leaves(c) /\ k \in {"gnss", "batching"}
  <2>1. x \o y \in Seq(Message)
    BY <1>1, MessagesConcat
  <2>2. At(x \o y, "add", k, d) = {}
    BY <1>1, <1>2, ConcatAt
  <2>3. At(x, "remove", k, d) = {} \/ At(y, "remove", k, d) = {}
    BY <1>2
  <2>4. Once(x \o y, k, d)
    BY <1>1, <1>3, <2>3, ConcatAt
  <2>5. At(x \o y, "remove", k, d) # {} <=> At(x, "remove", k, d) # {} \/ At(y, "remove", k, d) # {}
    BY <1>1, ConcatAt
  <2>6. At(x \o y, "remove", k, d) # {} <=> c = d /\ k \in Leaves(c) /\ k \in {"gnss", "batching"}
    BY <1>2, <2>5
  <2>. QED  BY <2>1, <2>2, <2>4, <2>6
<1>5. /\ At((x \o y) \o z, "add", k, d) = {} /\ Once((x \o y) \o z, k, d)
      /\ At((x \o y) \o z, "remove", k, d) # {} <=> c = d /\ k \in Leaves(c)
  <2>1. At((x \o y) \o z, "add", k, d) = {}
    BY <1>1, <1>2, <1>4, ConcatAt
  <2>2. At(x \o y, "remove", k, d) = {} \/ At(z, "remove", k, d) = {}
    BY <1>2, <1>4
  <2>3. Once((x \o y) \o z, k, d)
    BY <1>1, <1>3, <1>4, <2>2, ConcatAt
  <2>4. At((x \o y) \o z, "remove", k, d) # {}
            <=> At(x \o y, "remove", k, d) # {} \/ At(z, "remove", k, d) # {}
    BY <1>1, <1>4, ConcatAt
  <2>5. At((x \o y) \o z, "remove", k, d) # {} <=> c = d /\ k \in Leaves(c)
    BY <1>2, <1>4, <2>4 DEF Kind
  <2>. QED  BY <2>1, <2>3, <2>5
<1>. QED  BY <1>5 DEF Removals, x, y, z

LEMMA DestroyPair ==
    ASSUME Typed, PairInv, NEW c \in Client, NEW tells \in BOOLEAN, Destroy(c, tells)
    PROVE  PairInv'
<1>1. /\ call = Idle /\ msgQ \in Seq(Message) /\ Removals(c) \in Seq(Message)
      /\ msgQ' = msgQ \o Removals(c)
      /\ clientData' = [clientData EXCEPT ![c] = {}]
      /\ life[c] = "used" /\ life'[c] \in {"left", "told", "destroying"}
      /\ life'[c] = "told" => Leaves(c) = {}
      /\ life'[c] = "destroying" => destroyData'[c] = Leaves(c)
      /\ \A d \in Client \ {c} : life'[d] = life[d] /\ destroyData'[d] = destroyData[d]
  BY DestroyTypes DEF Typed, QueuesOK
<1>2. UNCHANGED <<loaded, call, mClientData, dropped>>
  BY DEF Destroy, adapters
<1>3. UpdateInv'
  BY <1>1, <1>2 DEF UpdateInv, Idle
<1>4. ASSUME NEW k \in Kind, NEW d \in Client  PROVE Pair(k, d)'
  <2>1. /\ Pair(k, d) /\ At(Removals(c), "add", k, d) = {} /\ Once(Removals(c), k, d)
        /\ At(Removals(c), "remove", k, d) # {} <=> c = d /\ k \in Leaves(c)
    BY RemovalsAt DEF PairInv
  <2>2. At(msgQ', "add", k, d) = At(msgQ, "add", k, d)
    BY <1>1, <2>1, AtOthers
  <2>3. CASE d # c
    <3>1. At(msgQ', "remove", k, d) = At(msgQ, "remove", k, d)
      BY <1>1, <2>1, <2>3, AtOthers
    <3>2. Wants(k, d) => Wants(k, d)'
      BY <1>1, <1>2, <2>3 DEF Wants, Typed, LocationApiOK
    <3>. QED  BY <1>1, <1>2, <2>1, <2>2, <2>3, <3>1, <3>2, SamePair
  <2>4. CASE d = c
    <3>1. At(msgQ, "remove", k, d) = {} /\ Once(msgQ, k, d)
      BY <1>1, <2>1, <2>4 DEF Pair
    <3>2. Once(msgQ', k, d) /\ (At(msgQ', "remove", k, d) # {} => k \in Leaves(c))
      BY <1>1, <2>1, <3>1, ConcatAt
    <3>3. Here(k, d)' <=> Here(k, d)
      BY <1>2, <2>2 DEF Here, At
    <3>4. ASSUME Here(k, d), d \notin dropped  PROVE Going(msgQ', k, d)
      <4>1. k \in Leaves(c)
        <5>1. Wants(k, d) /\ k \in loaded
          BY <1>1, <2>1, <2>4, <3>4 DEF Pair
        <5>. QED  BY <1>1, <2>4, <5>1 DEF Wants, Idle, Leaves
      <4>2. PICK i \in At(Removals(c), "remove", k, d) : TRUE
        BY <2>1, <2>4, <4>1
      <4>3. i + Len(msgQ) \in At(msgQ', "remove", k, d) /\ i \in Nat /\ i > 0
        BY <1>1, <4>2, AtConcat
      <4>4. \A j \in At(msgQ', "add", k, d) : j \in 1..Len(msgQ)
        BY <1>1, <2>2, AtConcat
      <4>5. Len(msgQ) \in Nat
        BY <1>1
      <4>6. \A j \in At(msgQ', "add", k, d) : j < i + Len(msgQ)
        BY <4>3, <4>4, <4>5
      <4>. QED  BY <4>3, <4>6 DEF Going
    <3>5. Once(msgQ, k, d)' /\ (Going(msgQ', k, d) <=> Going(msgQ, k, d)')
      BY <3>2 DEF Once, Going, At
    <3>. QED  BY <1>1, <1>2, <2>1, <2>4, <3>2, <3>3, <3>4, <3>5 DEF Pair, At
  <2>. QED  BY <2>3, <2>4
<1>. QED  BY <1>3, <1>4 DEF PairInv

\* The handlers and LocApi's task leave the calls of clients alone.
LEMMA SameUpdate ==
    ASSUME UpdateInv, UNCHANGED <<call, clientData, loaded, dropped>>
    PROVE  UpdateInv'
  BY DEF UpdateInv, Leaves

\* Steps that put no additions or removals into the queue
LEMMA AppendPair ==
    ASSUME Typed, PairInv, NEW p \in Seq(Message), msgQ' = msgQ \o p,
           \A i \in DOMAIN p : p[i].type \in {"request", "engineUp"},
           UNCHANGED <<clientData, destroyData, loaded, call, mClientData, life, dropped>>
    PROVE  PairInv'
<1>1. UpdateInv'
  BY SameUpdate DEF PairInv
<1>2. ASSUME NEW k \in Kind, NEW c \in Client  PROVE Pair(k, c)'
  <2>1. msgQ \in Seq(Message)
    BY DEF Typed, QueuesOK
  <2>2. At(msgQ', "add", k, c) = At(msgQ, "add", k, c)
        /\ At(msgQ', "remove", k, c) = At(msgQ, "remove", k, c)
    BY <2>1, Unrelated, AtOthers
  <2>3. Pair(k, c) /\ (Wants(k, c) => Wants(k, c)')
    BY DEF PairInv, Wants
  <2>. QED  BY <2>2, <2>3, SamePair
<1>. QED  BY <1>1, <1>2 DEF PairInv

LEMMA ConstructPair ==
    ASSUME Typed, PairInv, Construct \/ EngineDown \/ UNCHANGED vars
    PROVE  PairInv'
<1>1. UNCHANGED <<clientData, destroyData, loaded, call, mClientData, life, dropped, msgQ>>
  BY DEF Construct, EngineDown, vars, locationApi, adapters, clients
<1>2. <<>> \in Seq(Message) /\ msgQ' = msgQ \o <<>>
  BY <1>1 DEF Typed, QueuesOK
<1>3. \A i \in DOMAIN <<>> : <<>>[i].type \in {"request", "engineUp"}
  OBVIOUS
<1>. DEFINE p == <<>>
<1>4. p \in Seq(Message) /\ msgQ' = msgQ \o p
      /\ \A i \in DOMAIN p : p[i].type \in {"request", "engineUp"}
  BY <1>2, <1>3
<1>. HIDE DEF p
<1>. QED  BY <1>1, <1>4, AppendPair

LEMMA LocApiTaskPair ==
    ASSUME Typed, PairInv, LocApiTask
    PROVE  PairInv'
<1>1. PICK p \in Seq(Announced) : msgQ' = msgQ \o p
  BY LocApiTaskTypes
<1>2. \A i \in DOMAIN p : p[i] \in Announced
  OBVIOUS
<1>3. p \in Seq(Message)
  <2>1. Announced \subseteq Message
    BY DEF Announced
  <2>. HIDE DEF Announced
  <2>. QED  BY <2>1
<1>4. \A i \in DOMAIN p : p[i].type \in {"request", "engineUp"}
  BY <1>2 DEF Announced
<1>5. UNCHANGED <<clientData, destroyData, loaded, call, mClientData, life, dropped>>
  BY DEF LocApiTask, locationApi, adapters, clients
<1>. QED  BY <1>1, <1>3, <1>4, <1>5, AppendPair

\* The oldest message is not the client's removal.
LEMMA PopPair ==
    ASSUME NEW k \in Kind, NEW c \in Client, Pair(k, c), msgQ \in Seq(Message), msgQ # <<>>,
           At(msgQ', "add", k, c) = At(Tail(msgQ), "add", k, c),
           At(msgQ', "remove", k, c) = At(Tail(msgQ), "remove", k, c),
           ~ (Head(msgQ).type = "remove" /\ Head(msgQ).kind = k /\ Head(msgQ).client = c),
           mClientData'[k][c] # {} => Here(k, c),
           UNCHANGED <<loaded, dropped, clientData, call>>,
           life'[c] \in {"creating", "used"} <=> life[c] \in {"creating", "used"},
           life[c] # "new" => life'[c] # "new",
           life[c] = "left" => life'[c] = "left",
           life[c] = "destroying" /\ k \in destroyData[c] =>
               life'[c] = "destroying" /\ k \in destroyData'[c]
    PROVE  Pair(k, c)'
<1>1. Once(msgQ, k, c)
  BY DEF Pair
<1>2. /\ At(Tail(msgQ), "add", k, c) # {} => At(msgQ, "add", k, c) # {}
      /\ At(Tail(msgQ), "remove", k, c) # {} => At(msgQ, "remove", k, c) # {}
      /\ Once(Tail(msgQ), k, c)
      /\ Going(msgQ, k, c) => Going(Tail(msgQ), k, c)
  BY <1>1, PopQueue
<1>3. Once(msgQ', k, c) /\ (Going(Tail(msgQ), k, c) => Going(msgQ', k, c))
  BY <1>2 DEF Once, Going
<1>4. Here(k, c)' => Here(k, c)
  BY <1>2 DEF Here
<1>5. Wants(k, c)' <=> Wants(k, c)
  BY DEF Wants
<1>6. At(msgQ', "remove", k, c) # {} =>
          life'[c] = "left" \/ (life'[c] = "destroying" /\ k \in destroyData'[c])
  BY <1>2 DEF Pair
<1>7. Here(k, c)' => k \in loaded' /\ life'[c] # "new"
  BY <1>4 DEF Pair
<1>8. Here(k, c)' /\ c \notin dropped' =>
          IF life'[c] \in {"creating", "used"} THEN Wants(k, c)' ELSE Going(msgQ', k, c)
  BY <1>2, <1>3, <1>4, <1>5 DEF Pair
<1>. QED  BY <1>3, <1>6, <1>7, <1>8 DEF Pair

LEMMA HandleAddPair ==
    ASSUME Typed, PairInv, HandleAdd
    PROVE  PairInv'
<1>. DEFINE m == Head(msgQ)
<1>1. /\ msgQ \in Seq(Message) /\ msgQ # <<>> /\ m.type = "add" /\ msgQ' = Tail(msgQ)
      /\ mClientData' = [mClientData EXCEPT ![m.kind][m.client] = m.callbacks]
      /\ UNCHANGED <<loaded, dropped, clientData, call, life, destroyData>>
  BY DEF HandleAdd, Handling, Typed, QueuesOK, locationApi, clients
<1>. HIDE DEF m
<1>2. ASSUME NEW k \in Kind, NEW c \in Client  PROVE Pair(k, c)'
  <2>1. Pair(k, c)
    BY DEF PairInv
  <2>2. ASSUME mClientData'[k][c] # {}  PROVE Here(k, c)
    <3>1. CASE k = m.kind /\ c = m.client
      <4>1. 1 \in At(msgQ, "add", k, c)
        BY <1>1, <3>1, AtTail DEF m
      <4>. QED  BY <4>1 DEF Here
    <3>2. CASE ~ (k = m.kind /\ c = m.client)
      <4>1. mClientData'[k][c] = mClientData[k][c]
        BY <1>1, <3>2 DEF Typed, AdaptersOK
      <4>. QED  BY <2>2, <4>1 DEF Here
    <3>. QED  BY <3>1, <3>2
  <2>3. m.type # "remove"
    BY <1>1
  <2>. QED  BY <1>1, <2>1, <2>2, <2>3, PopPair DEF m
<1>. QED  BY <1>1, <1>2, SameUpdate DEF PairInv

LEMMA RequestsOnly ==
    ASSUME NEW p \in Seq(Request)
    PROVE  p \in Seq(Message) /\ \A i \in DOMAIN p : p[i].type \in {"request", "engineUp"}
<1>1. Request \subseteq Message
  BY DEF Message
<1>2. \A i \in DOMAIN p : p[i] \in Request
  OBVIOUS
<1>3. \A i \in DOMAIN p : p[i].type \in {"request", "engineUp"}
  BY <1>2 DEF Request
<1>. HIDE DEF Request, Message
<1>. QED  BY <1>1, <1>3

LEMMA HandleRequestPair ==
    ASSUME Typed, PairInv, HandleRequest \/ HandleEngineUp
    PROVE  PairInv'
<1>1. /\ msgQ \in Seq(Message) /\ msgQ # <<>> /\ Head(msgQ).type \in {"request", "engineUp"}
      /\ UNCHANGED <<loaded, dropped, clientData, call, life, destroyData, mClientData>>
  BY DEF HandleRequest, HandleEngineUp, Handling, Typed, QueuesOK, locationApi
<1>2. PICK p \in Seq(Request) : msgQ' = Tail(msgQ) \o p
  <2>1. CASE HandleRequest
    <3>1. <<>> \in Seq(Request) /\ Tail(msgQ) \o <<>> = Tail(msgQ)
      BY <1>1
    <3>. QED  BY <2>1, <3>1 DEF HandleRequest
  <2>. QED  BY <2>1, HandleEngineUpTypes
<1>3. p \in Seq(Message) /\ \A i \in DOMAIN p : p[i].type \in {"request", "engineUp"}
  BY RequestsOnly
<1>4. ASSUME NEW k \in Kind, NEW c \in Client  PROVE Pair(k, c)'
  <2>1. Pair(k, c)
    BY DEF PairInv
  <2>2. Tail(msgQ) \in Seq(Message)
    BY <1>1
  <2>3. At(msgQ', "add", k, c) = At(Tail(msgQ), "add", k, c)
        /\ At(msgQ', "remove", k, c) = At(Tail(msgQ), "remove", k, c)
    <3>. DEFINE t == Tail(msgQ)
    <3>1. At(p, "add", k, c) = {} /\ At(p, "remove", k, c) = {}
      BY <1>3, Unrelated
    <3>2. msgQ' = t \o p /\ t \in Seq(Message)
      BY <1>2, <2>2
    <3>. HIDE DEF t
    <3>3. At(msgQ', "add", k, c) = At(t, "add", k, c) /\ At(msgQ', "remove", k, c) = At(t, "remove", k, c)
      BY <1>3, <3>1, <3>2, AtOthers
    <3>. QED  BY <3>3 DEF t
  <2>4. mClientData'[k][c] # {} => Here(k, c)
    BY <1>1 DEF Here
  <2>. QED  BY <1>1, <2>1, <2>3, <2>4, PopPair
<1>. QED  BY <1>1, <1>4, SameUpdate DEF PairInv

LEMMA HandleRemovePair ==
    ASSUME Typed, PairInv, HandleRemove
    PROVE  PairInv'
<1>. DEFINE m == Head(msgQ)
<1>1. /\ msgQ \in Seq(Message) /\ msgQ # <<>> /\ m.type = "remove" /\ msgQ' = Tail(msgQ)
      /\ mClientData' = [mClientData EXCEPT ![m.kind][m.client] = {}]
      /\ UNCHANGED <<loaded, dropped, clientData, call>>
  BY DEF HandleRemove, EraseClient, Handling, Typed, QueuesOK
<1>2. /\ \A c \in Client \ {m.client} : life'[c] = life[c] /\ destroyData'[c] = destroyData[c]
      /\ destroyData'[m.client] = destroyData[m.client] \ {m.kind}
      /\ life'[m.client] = IF life[m.client] = "destroying" /\ destroyData'[m.client] = {}
                           THEN "told" ELSE life[m.client]
  BY HandleRemoveTypes
<1>3. m.kind \in Kind /\ m.client \in Client
  BY <1>1, HeadMessage, MessageFields
<1>. HIDE DEF m
<1>4. ASSUME NEW k \in Kind, NEW c \in Client  PROVE Pair(k, c)'
  <2>1. Pair(k, c)
    BY DEF PairInv
  <2>2. /\ life'[c] \in {"creating", "used"} <=> life[c] \in {"creating", "used"}
        /\ life[c] # "new" => life'[c] # "new"
        /\ life[c] = "left" => life'[c] = "left"
    BY <1>2
  <2>3. CASE ~ (m.kind = k /\ m.client = c)
    <3>1. life[c] = "destroying" /\ k \in destroyData[c] =>
               life'[c] = "destroying" /\ k \in destroyData'[c]
      BY <1>2, <2>3
    <3>2. mClientData'[k][c] # {} => Here(k, c)
      BY <1>1, <1>3, <2>3 DEF Here, Typed, AdaptersOK
    <3>. QED  BY <1>1, <2>1, <2>2, <2>3, <3>1, <3>2, PopPair DEF m
  <2>4. CASE m.kind = k /\ m.client = c
    <3>1. Once(msgQ, k, c)
      BY <2>1 DEF Pair
    <3>2. /\ At(msgQ, "remove", k, c) # {} /\ At(msgQ', "remove", k, c) = {}
          /\ Going(msgQ, k, c) => At(msgQ', "add", k, c) = {}
          /\ At(msgQ', "add", k, c) # {} => At(msgQ, "add", k, c) # {}
      BY <1>1, <2>4, <3>1, PopQueue DEF m
    <3>3. life[c] \in {"left", "destroying"} /\ mClientData'[k][c] = {}
      BY <1>1, <1>3, <2>1, <2>4, <3>2 DEF Pair, Typed, AdaptersOK
    <3>4. Here(k, c)' => Here(k, c) /\ c \in dropped
      BY <2>1, <3>2, <3>3 DEF Here, Pair
    <3>5. Once(msgQ', k, c)
      BY <3>2 DEF Once
    <3>. QED  BY <1>1, <2>1, <2>2, <3>2, <3>4, <3>5 DEF Pair
  <2>. QED  BY <2>3, <2>4
<1>. QED  BY <1>1, <1>4, SameUpdate DEF PairInv

LEMMA InitPair == Init => PairInv
<1>. SUFFICES ASSUME Init  PROVE PairInv
  OBVIOUS
<1>1. \A k \in Kind, c \in Client, type \in {"add", "remove"} : At(msgQ, type, k, c) = {}
  BY DEF Init, At
<1>. QED  BY <1>1 DEF Init, PairInv, UpdateInv, Pair, Once, Here

LEMMA PairStep ==
    ASSUME Typed, PairInv, [Next]_vars
    PROVE  PairInv'
<1>1. CASE \/ \E c \in Client, callbacks \in Uses : CreateInstance(c, callbacks)
           \/ \E c \in Client, callbacks \in Uses : UpdateCallbacks(c, callbacks)
  BY <1>1, EnterPair
<1>2. CASE \E c \in Client, tells \in BOOLEAN : Destroy(c, tells)
  BY <1>2, DestroyPair
<1>3. CASE Construct \/ EngineDown \/ UNCHANGED vars
  BY <1>3, ConstructPair
<1>4. CASE AddClient \/ Return
  BY <1>4, AddClientPair, ReturnPair
<1>5. CASE AdapterTask \/ LocApiTask
  BY <1>5, HandleAddPair, HandleRemovePair, HandleRequestPair, LocApiTaskPair DEF AdapterTask
<1>. QED  BY <1>1, <1>2, <1>3, <1>4, <1>5 DEF Next

\* Once a client is told that it is destroyed, no adapter has it in its table
\* or will (LocationAPI.h:50), unless an update left an adapter out.
THEOREM ForgottenCorrect == Spec => []ForgottenOnceTold
<1>1. Typed /\ PairInv => ForgottenOnceTold
  <2>. SUFFICES ASSUME Typed, PairInv, NEW c \in Client, life[c] = "told", c \notin dropped, NEW k \in Kind
                PROVE  mClientData[k][c] = {} /\ ~ Queued("add", k, c)
    BY DEF ForgottenOnceTold
  <2>1. Pair(k, c) /\ destroyData[c] = {}
    BY DEF PairInv, Typed, CallOK
  <2>2. ~ Going(msgQ, k, c)
    BY <2>1 DEF Pair, Going
  <2>3. ~ Here(k, c)
    BY <2>1, <2>2 DEF Pair
  <2>. QED  BY <2>3 DEF Here, At, Queued
<1>. QED  BY <1>1, InitTyped, TypedStep, InitPair, PairStep, PTL DEF Spec

-----------------------------------------------------------------------------
(* What the modem reports.  Its mask is that of the adapters' tables once   *)
(* LocApi's task has nothing to do, and the tables hold what the clients    *)
(* gave last once the adapters' task has nothing to do.                     *)

Announcers == {mLocAdapters[i] : i \in DOMAIN mLocAdapters}

ModemInv == apiQ = <<>> /\ ~ refused => modemMask = UNION {mEvtMask[k] : k \in Announcers}

MaskInv ==
    /\ ModemInv
    /\ \A k \in Kind :
          mEvtMask[k] = {f \in UNION {mClientData[k][c] : c \in Client} : KindOf[f] = k}
    /\ Announcers = loaded \union ({building} \ {"none"})

LEMMA SameMask ==
    ASSUME MaskInv, UNCHANGED <<mClientData, mEvtMask, mLocAdapters, loaded, building>>, ModemInv'
    PROVE  MaskInv'
  BY DEF MaskInv, Announcers

LEMMA CallsMask ==
    ASSUME Typed, MaskInv, Construct \/ AddClient
    PROVE  MaskInv'
<1>1. CASE Construct
  <2>1. /\ NextKind \in Kind /\ building = "none" /\ building' = NextKind
        /\ mLocAdapters' = Append(mLocAdapters, NextKind) /\ apiQ' = Append(apiQ, NextKind)
        /\ UNCHANGED <<mClientData, mEvtMask, loaded>>
    BY <1>1, NextKindLeft DEF Construct, Typed, LocationApiOK
  <2>2. mLocAdapters \in Seq(Kind) /\ apiQ' # <<>>
    BY <2>1 DEF Typed, QueuesOK
  <2>3. Announcers' = Announcers \union {NextKind}
    <3>. DEFINE n == Len(mLocAdapters)
                l == mLocAdapters'
                k == NextKind
    <3>1. /\ n \in Nat /\ DOMAIN mLocAdapters = 1..n /\ DOMAIN l = 1..(n + 1) /\ l[n + 1] = k
          /\ \A i \in 1..n : l[i] = mLocAdapters[i]
      BY <2>1, <2>2
    <3>2. n + 1 \in 1..(n + 1) /\ \A i \in 1..(n + 1) : i \in 1..n \/ i = n + 1
      BY <3>1
    <3>3. \A i \in 1..n : i \in 1..(n + 1)
      BY <3>1
    <3>. HIDE DEF n, l, k
    <3>4. {l[i] : i \in DOMAIN l} = {mLocAdapters[i] : i \in DOMAIN mLocAdapters} \union {k}
      BY <3>1, <3>2, <3>3
    <3>. QED  BY <3>4 DEF Announcers, l, k
  <2>4. "none" \notin Kind
    BY DEF Kind
  <2>. QED  BY <2>1, <2>2, <2>3, <2>4 DEF MaskInv, ModemInv
<1>2. CASE AddClient
  <2>1. /\ NextKind \in Kind /\ loaded' = loaded \union {NextKind} /\ building' = "none"
        /\ NextKind \in loaded \/ building = NextKind
        /\ UNCHANGED <<mClientData, mEvtMask, mLocAdapters, apiQ, modemMask, refused>>
    BY <1>2, AddClientTypes DEF AddClient, adapters, modem
  <2>2. building = "none" \/ building = NextKind
    BY DEF Typed, CallOK
  <2>3. Announcers' = loaded' \union ({building'} \ {"none"})
    BY <2>1, <2>2 DEF MaskInv, Announcers, Kind
  <2>4. ModemInv'
    BY <2>1 DEF MaskInv, ModemInv, Announcers
  <2>. QED  BY <2>1, <2>3, <2>4 DEF MaskInv
<1>. QED  BY <1>1, <1>2

LEMMA TablesMask ==
    ASSUME Typed, MaskInv, HandleAdd \/ HandleRemove
    PROVE  MaskInv'
<1>. DEFINE m == Head(msgQ)
<1>1. /\ m.kind \in Kind /\ \E callbacks : mClientData' = [mClientData EXCEPT ![m.kind][m.client] = callbacks]
      /\ mEvtMask' = [mEvtMask EXCEPT ![m.kind] =
            {f \in UNION {mClientData'[m.kind][c] : c \in Client} : KindOf[f] = m.kind}]
      /\ apiQ' = Append(apiQ, "open") /\ UNCHANGED <<loaded, building, mLocAdapters>>
  <2>1. m.kind \in Kind
    BY HeadMessage, MessageFields DEF HandleAdd, HandleRemove, Handling, Typed
  <2>2. CASE HandleAdd
    <3>1. mClientData' = [mClientData EXCEPT ![m.kind][m.client] = m.callbacks]
          /\ UpdateClientsEventMask(m.kind) /\ UNCHANGED <<locationApi, mLocAdapters>>
      BY <2>2 DEF HandleAdd
    <3>. HIDE DEF m
    <3>. QED  BY <2>1, <3>1 DEF UpdateClientsEventMask, locationApi
  <2>3. CASE HandleRemove
    <3>1. mClientData' = [mClientData EXCEPT ![m.kind][m.client] = {}]
          /\ UpdateClientsEventMask(m.kind) /\ UNCHANGED <<loaded, building, mLocAdapters>>
      BY <2>3 DEF HandleRemove, EraseClient
    <3>. HIDE DEF m
    <3>. QED  BY <2>1, <3>1 DEF UpdateClientsEventMask
  <2>. QED  BY <2>2, <2>3
<1>. HIDE DEF m
<1>2. apiQ' # <<>>
  BY <1>1 DEF Typed, QueuesOK
<1>3. ASSUME NEW k \in Kind
      PROVE  mEvtMask'[k] = {f \in UNION {mClientData'[k][c] : c \in Client} : KindOf[f] = k}
  <2>1. CASE k = m.kind
    BY <1>1, <2>1 DEF Typed, AdaptersOK
  <2>2. CASE k # m.kind
    <3>1. mClientData'[k] = mClientData[k] /\ mEvtMask'[k] = mEvtMask[k]
      BY <1>1, <2>2 DEF Typed, AdaptersOK
    <3>. QED  BY <3>1 DEF MaskInv
  <2>. QED  BY <2>1, <2>2
<1>. QED  BY <1>1, <1>2, <1>3 DEF MaskInv, ModemInv, Announcers

LEMMA InitMask == Init => MaskInv
  BY DEF Init, MaskInv, ModemInv, Announcers

LEMMA MaskStep ==
    ASSUME Typed, MaskInv, [Next]_vars
    PROVE  MaskInv'
<1>1. CASE LocApiTask
  <2>1. UNCHANGED <<mClientData, mEvtMask, mLocAdapters, loaded, building>>
    BY <1>1 DEF LocApiTask, locationApi, adapters
  <2>2. refused' = TRUE \/ modemMask' = UNION {mEvtMask[mLocAdapters[i]] : i \in DOMAIN mLocAdapters}
    BY <1>1 DEF LocApiTask, Open
  <2>3. ModemInv'
    BY <2>1, <2>2 DEF ModemInv, Announcers
  <2>. QED  BY <2>1, <2>3, SameMask
<1>2. CASE EngineDown
  <2>1. apiQ' # <<>> /\ UNCHANGED <<mClientData, mEvtMask, mLocAdapters, loaded, building>>
    BY <1>2 DEF EngineDown, locationApi, adapters, Typed, QueuesOK
  <2>. QED  BY <2>1, SameMask DEF ModemInv
<1>3. CASE UNCHANGED <<mClientData, mEvtMask, mLocAdapters, loaded, building, apiQ, refused, modemMask>>
  <2>1. ModemInv'
    BY <1>3 DEF MaskInv, ModemInv, Announcers
  <2>. QED  BY <1>3, <2>1, SameMask
<1>4. ASSUME NEW c \in Client, NEW callbacks \in Uses,
             CreateInstance(c, callbacks) \/ UpdateCallbacks(c, callbacks)
      PROVE  MaskInv'
  BY <1>3, <1>4 DEF CreateInstance, UpdateCallbacks, Enter, adapters, modem
<1>5. ASSUME NEW c \in Client, NEW tells \in BOOLEAN, Destroy(c, tells)  PROVE MaskInv'
  BY <1>3, <1>5 DEF Destroy, adapters, modem
<1>6. CASE Return
  BY <1>3, <1>6 DEF Return, adapters, modem
<1>7. CASE HandleRequest \/ HandleEngineUp
  BY <1>3, <1>7 DEF HandleRequest, HandleEngineUp, locationApi, modem
<1>8. CASE UNCHANGED vars
  BY <1>3, <1>8 DEF vars, locationApi, adapters, modem
<1>. QED
  BY <1>1, <1>2, <1>4, <1>5, <1>6, <1>7, <1>8, CallsMask, TablesMask DEF Next, AdapterTask

\* The last addition in the queue, if any, gives the callbacks the client gave last.
LastAdd(q, k, c, callbacks) ==
    \A i \in At(q, "add", k, c) :
        (\A j \in At(q, "add", k, c) : j <= i) => q[i].callbacks = callbacks

\* What the adapter's table holds, or will: had is what it holds now.
Latest(q, had, k, c, callbacks) ==
    /\ LastAdd(q, k, c, callbacks)
    /\ At(q, "add", k, c) = {} => had = callbacks

\* What a client gave last, and whether the adapter was sent it
Given(c) == IF call.client = c THEN call.callbacks ELSE clientData[c]
Settled(k, c) ==
    IF call.client = c
    THEN k \in (Kinds(call.callbacks) \intersect Loadable) \ call.left
    ELSE life[c] = "used" /\ k \in Kinds(clientData[c]) \intersect Loadable

TableInv ==
    \A k \in Kind, c \in Client :
        Settled(k, c) => Latest(msgQ, mClientData[k][c], k, c, Given(c))

LEMMA AppendLatest ==
    ASSUME NEW q \in Seq(Message), NEW p \in Seq(Message), NEW k, NEW c, NEW had, NEW callbacks,
           Latest(q, had, k, c, callbacks), At(p, "add", k, c) = {}
    PROVE  Latest(q \o p, had, k, c, callbacks)
<1>1. At(q \o p, "add", k, c) = At(q, "add", k, c)
  BY AtOthers
<1>2. \A i \in At(q, "add", k, c) : (q \o p)[i] = q[i]
  <2>1. \A i \in At(q, "add", k, c) : i \in 1..Len(q)
    BY AtConcat
  <2>. QED  BY <2>1, ConcatShape
<1>. QED  BY <1>1, <1>2 DEF Latest, LastAdd

LEMMA AddedLatest ==
    ASSUME NEW q \in Seq(Message), NEW p \in Seq(Message), NEW k, NEW c, NEW had, NEW callbacks,
           At(p, "add", k, c) = {1}, p[1].callbacks = callbacks
    PROVE  Latest(q \o p, had, k, c, callbacks)
<1>. DEFINE r == q \o p
<1>1. /\ Len(q) \in Nat /\ 1 + Len(q) \in At(r, "add", k, c) /\ r[1 + Len(q)] = p[1]
      /\ \A i \in At(r, "add", k, c) :
            i \in 1..Len(q) \/ (i - Len(q) \in At(p, "add", k, c) /\ i \in Nat)
  <2>1. 1 \in 1..Len(p) /\ 1 + Len(q) \in At(r, "add", k, c)
    BY AtConcat
  <2>2. Len(q) \in Nat /\ r[1 + Len(q)] = p[1] /\ DOMAIN r \subseteq Nat
    BY <2>1, ConcatShape
  <2>3. \A i \in At(r, "add", k, c) : i \in 1..Len(q) \/ i - Len(q) \in At(p, "add", k, c)
    BY AtConcat
  <2>. QED  BY <2>1, <2>2, <2>3 DEF At
<1>. HIDE DEF r
<1>2. ASSUME NEW i \in At(r, "add", k, c), \A j \in At(r, "add", k, c) : j <= i
      PROVE  i = 1 + Len(q)
  <2>1. 1 + Len(q) <= i
    BY <1>1, <1>2
  <2>2. i \notin 1..Len(q)
    BY <1>1, <2>1
  <2>3. i - Len(q) = 1 /\ i \in Nat
    BY <1>1, <2>2
  <2>. QED  BY <1>1, <2>3
<1>3. LastAdd(r, k, c, callbacks)
  BY <1>1, <1>2 DEF LastAdd
<1>. QED  BY <1>1, <1>3 DEF Latest, r

LEMMA PopLatest ==
    ASSUME NEW q \in Seq(Message), q # <<>>, NEW k, NEW c, NEW had, NEW callbacks,
           Latest(q, had, k, c, callbacks)
    PROVE  LET m == Head(q)
           IN  IF m.type = "add" /\ m.kind = k /\ m.client = c
               THEN Latest(Tail(q), m.callbacks, k, c, callbacks)
               ELSE Latest(Tail(q), had, k, c, callbacks)
<1>. DEFINE m == Head(q)
            t == Tail(q)
            adds == At(q, "add", k, c)
            adds2 == At(t, "add", k, c)
<1>1. /\ \A i \in adds2 : i + 1 \in adds /\ i \in Nat /\ i > 0
      /\ \A i \in adds : i = 1 \/ (i - 1 \in adds2 /\ i > 1)
      /\ \A i \in adds : i \in Nat
      /\ 1 \in adds <=> m.type = "add" /\ m.kind = k /\ m.client = c
  BY AtTail
<1>2. /\ \A i \in adds : (\A j \in adds : j <= i) => q[i].callbacks = callbacks
      /\ adds = {} => had = callbacks
  BY DEF Latest, LastAdd
<1>3. q[1] = m /\ \A i \in adds2 : t[i] = q[i + 1]
  <2>1. q[1] = m /\ \A i \in DOMAIN t : t[i] = q[i + 1]
    OBVIOUS
  <2>. QED  BY <2>1 DEF At
<1>4. LastAdd(t, k, c, callbacks)
      <=> \A i \in adds2 : (\A j \in adds2 : j <= i) => t[i].callbacks = callbacks
  BY DEF LastAdd
<1>. HIDE DEF m, t, adds, adds2
<1>5. LastAdd(t, k, c, callbacks)
  <2>. SUFFICES ASSUME NEW i \in adds2, \A j \in adds2 : j <= i  PROVE t[i].callbacks = callbacks
    BY <1>4
  <2>1. i + 1 \in adds /\ i \in Nat /\ i > 0
    BY <1>1
  <2>2. ASSUME NEW j \in adds  PROVE j <= i + 1
    <3>1. CASE j = 1
      BY <2>1, <3>1
    <3>2. CASE j - 1 \in adds2
      <4>1. j - 1 <= i /\ j \in Nat
        BY <1>1, <2>2, <3>2
      <4>. QED  BY <2>1, <4>1
    <3>. QED  BY <1>1, <2>2, <3>1, <3>2
  <2>. QED  BY <1>2, <1>3, <2>1, <2>2
<1>6. ASSUME adds2 = {}
      PROVE  IF 1 \in adds THEN m.callbacks = callbacks ELSE had = callbacks
  <2>1. \A i \in adds : i = 1
    BY <1>1, <1>6
  <2>2. CASE 1 \in adds
    <3>1. \A j \in adds : j <= 1
      BY <2>1
    <3>. QED  BY <1>2, <1>3, <2>2, <3>1
  <2>3. CASE 1 \notin adds
    BY <1>2, <2>1, <2>3
  <2>. QED  BY <2>2, <2>3
<1>7. IF 1 \in adds THEN Latest(t, m.callbacks, k, c, callbacks) ELSE Latest(t, had, k, c, callbacks)
  BY <1>5, <1>6 DEF Latest, adds2
<1>. QED  BY <1>1, <1>7 DEF m, t

\* A step that adds no client to an adapter and handles no message
LEMMA AppendTable ==
    ASSUME Typed, TableInv, NEW p \in Seq(Message), msgQ' = msgQ \o p, UNCHANGED mClientData,
           \A k \in Kind, c \in Client : At(p, "add", k, c) = {},
           \A k \in Kind, c \in Client : Settled(k, c)' => Settled(k, c) /\ Given(c)' = Given(c)
    PROVE  TableInv'
<1>1. ASSUME NEW k \in Kind, NEW c \in Client, Settled(k, c)'
      PROVE  Latest(msgQ', mClientData'[k][c], k, c, Given(c)')
  <2>1. msgQ \in Seq(Message) /\ Latest(msgQ, mClientData[k][c], k, c, Given(c))
    BY <1>1 DEF TableInv, Typed, QueuesOK
  <2>2. Latest(msgQ \o p, mClientData[k][c], k, c, Given(c))
    BY <2>1, AppendLatest
  <2>. QED  BY <1>1, <2>2
<1>2. \A k \in Kind, c \in Client : (Settled(k, c) => Latest(msgQ, mClientData[k][c], k, c, Given(c)))'
  BY <1>1 DEF Latest, LastAdd, At
<1>. QED  BY <1>2 DEF TableInv

LEMMA SameTable ==
    ASSUME Typed, TableInv, UNCHANGED <<msgQ, mClientData>>,
           \A k \in Kind, c \in Client : Settled(k, c)' => Settled(k, c) /\ Given(c)' = Given(c)
    PROVE  TableInv'
<1>. DEFINE p == <<>>
<1>1. p \in Seq(Message) /\ msgQ' = msgQ \o p
  BY DEF Typed, QueuesOK
<1>2. \A k \in Kind, c \in Client : At(p, "add", k, c) = {}
  BY DEF At
<1>. HIDE DEF p
<1>. QED  BY <1>1, <1>2, AppendTable

LEMMA CallsTable ==
    ASSUME Typed, TableInv, NEW c \in Client,
           \/ \E callbacks \in Uses : CreateInstance(c, callbacks) \/ UpdateCallbacks(c, callbacks)
           \/ \E tells \in BOOLEAN : Destroy(c, tells)
    PROVE  TableInv'
<1>1. ASSUME NEW callbacks \in Uses, CreateInstance(c, callbacks) \/ UpdateCallbacks(c, callbacks)
      PROVE  TableInv'
  <2>1. /\ call = Idle /\ call'.client = c /\ call'.callbacks = callbacks
        /\ call'.left = Kinds(callbacks) \intersect Loadable
        /\ UNCHANGED <<msgQ, mClientData, clientData>>
        /\ life' = life \/ life' = [life EXCEPT ![c] = "creating"]
    BY <1>1 DEF CreateInstance, UpdateCallbacks, Enter, adapters
  <2>2. ASSUME NEW k \in Kind, NEW d \in Client, Settled(k, d)'
        PROVE  Settled(k, d) /\ Given(d)' = Given(d)
    <3>1. d # c /\ call.client # d
      BY <2>1, <2>2 DEF Settled, Idle
    <3>2. life'[d] = life[d]
      BY <2>1, <3>1 DEF Typed, ClientsOK
    <3>. QED  BY <2>1, <2>2, <3>1, <3>2 DEF Settled, Given
  <2>. QED  BY <2>1, <2>2, SameTable
<1>2. ASSUME NEW tells \in BOOLEAN, Destroy(c, tells)  PROVE TableInv'
  <2>1. /\ call = Idle /\ Removals(c) \in Seq(Message) /\ msgQ' = msgQ \o Removals(c)
        /\ clientData' = [clientData EXCEPT ![c] = {}]
        /\ life'[c] # "used" /\ \A d \in Client \ {c} : life'[d] = life[d]
        /\ UNCHANGED <<call, mClientData>>
    BY <1>2, DestroyTypes DEF Destroy, adapters
  <2>2. \A k \in Kind, d \in Client : At(Removals(c), "add", k, d) = {}
    BY RemovalsAt
  <2>3. ASSUME NEW k \in Kind, NEW d \in Client, Settled(k, d)'
        PROVE  Settled(k, d) /\ Given(d)' = Given(d)
    <3>1. call'.client # d /\ d # c
      BY <2>1, <2>3 DEF Settled, Idle
    <3>2. clientData'[d] = clientData[d]
      BY <2>1, <3>1 DEF Typed, LocationApiOK
    <3>. QED  BY <2>1, <2>3, <3>1, <3>2 DEF Settled, Given
  <2>. QED  BY <2>1, <2>2, <2>3, AppendTable
<1>. QED  BY <1>1, <1>2

LEMMA AddClientTable ==
    ASSUME Typed, TableInv, AddClient
    PROVE  TableInv'
<1>. DEFINE k0 == NextKind
            c0 == call.client
            p == AddedBy(NextKind)
<1>1. /\ k0 \in Kind /\ c0 \in Client /\ call'.client = c0 /\ call'.callbacks = call.callbacks
      /\ call'.left = call.left \ {k0} /\ msgQ' = msgQ \o p
      /\ msgQ \in Seq(Message) /\ p \in Seq(Message)
  BY AddClientTypes, AddedTypes DEF Typed, CallOK, QueuesOK
<1>2. UNCHANGED <<clientData, mClientData, life>>
  BY DEF AddClient, adapters, clients
<1>3. /\ \A k \in Kind, c \in Client :
            At(p, "add", k, c) = IF k = k0 /\ c = c0 THEN {1} ELSE {}
      /\ p[1].callbacks = call.callbacks
  BY <1>1, AddedAt DEF Typed
<1>4. \A c \in Client : Given(c)' = Given(c)
  BY <1>1, <1>2 DEF Given
<1>5. \A k \in Kind, c \in Client : Settled(k, c)' => Settled(k, c) \/ (k = k0 /\ c = c0)
  BY <1>1, <1>2 DEF Settled
<1>6. Given(c0) = call.callbacks
  BY DEF Given
<1>. HIDE DEF k0, c0, p
<1>7. ASSUME NEW k \in Kind, NEW c \in Client, Settled(k, c)'
      PROVE  Latest(msgQ', mClientData'[k][c], k, c, Given(c)')
  <2>1. CASE k = k0 /\ c = c0
    BY <1>1, <1>2, <1>3, <1>4, <1>6, <2>1, AddedLatest
  <2>2. CASE ~ (k = k0 /\ c = c0)
    <3>1. Latest(msgQ, mClientData[k][c], k, c, Given(c)) /\ At(p, "add", k, c) = {}
      BY <1>3, <1>5, <1>7, <2>2 DEF TableInv
    <3>. QED  BY <1>1, <1>2, <1>4, <3>1, AppendLatest
  <2>. QED  BY <2>1, <2>2
<1>8. \A k \in Kind, c \in Client : (Settled(k, c) => Latest(msgQ, mClientData[k][c], k, c, Given(c)))'
  BY <1>7 DEF Latest, LastAdd, At
<1>. QED  BY <1>8 DEF TableInv

LEMMA ReturnTable ==
    ASSUME Typed, TableInv, Return
    PROVE  TableInv'
<1>1. /\ call.left = {} /\ call' = Idle /\ UNCHANGED <<msgQ, mClientData>> /\ call.client \in Client
      /\ clientData' = [clientData EXCEPT ![call.client] = call.callbacks]
      /\ \A c \in Client : life'[c] = IF c = call.client THEN "used" ELSE life[c]
  BY ReturnTypes DEF Return, adapters
<1>2. ASSUME NEW k \in Kind, NEW c \in Client, Settled(k, c)'
      PROVE  Settled(k, c) /\ Given(c)' = Given(c)
  <2>1. call'.client # c
    BY <1>1 DEF Idle
  <2>2. clientData'[c] = IF c = call.client THEN call.callbacks ELSE clientData[c]
    BY <1>1 DEF Typed, LocationApiOK
  <2>. QED  BY <1>1, <1>2, <2>1, <2>2 DEF Settled, Given
<1>. QED  BY <1>1, <1>2, SameTable

\* Behind the message that is handled there may come requests.
LEMMA HandlersTable ==
    ASSUME Typed, PairInv, TableInv, AdapterTask
    PROVE  TableInv'
<1>. DEFINE m == Head(msgQ)
            t == Tail(msgQ)
<1>1. msgQ \in Seq(Message) /\ msgQ # <<>> /\ m.kind \in Kind /\ t \in Seq(Message)
  BY HeadMessage, MessageFields
  DEF AdapterTask, HandleAdd, HandleRemove, HandleRequest, HandleEngineUp, Handling, Typed, QueuesOK
<1>2. UNCHANGED <<clientData, call>>
  BY DEF AdapterTask, HandleAdd, HandleRemove, HandleRequest, HandleEngineUp, locationApi
<1>3. \A c \in Client : life'[c] = "used" => life[c] = "used"
  BY HandleRemoveTypes
  DEF AdapterTask, HandleAdd, HandleRequest, HandleEngineUp, clients
<1>4. \A k \in Kind, c \in Client : Settled(k, c)' => Settled(k, c) /\ Given(c)' = Given(c)
  BY <1>2, <1>3 DEF Settled, Given
<1>5. \E p \in Seq(Message) : /\ msgQ' = t \o p
                              /\ \A k \in Kind, c \in Client : At(p, "add", k, c) = {}
  <2>1. CASE HandleEngineUp
    <3>1. PICK p \in Seq(Request) : msgQ' = t \o p
      BY <2>1, HandleEngineUpTypes
    <3>2. p \in Seq(Message) /\ \A i \in DOMAIN p : p[i].type \in {"request", "engineUp"}
      BY RequestsOnly
    <3>3. \A k \in Kind, c \in Client : At(p, "add", k, c) = {}
      BY <3>2, Unrelated
    <3>. QED  BY <3>1, <3>2, <3>3
  <2>2. CASE HandleAdd \/ HandleRemove \/ HandleRequest
    <3>1. msgQ' = t
      BY <2>2 DEF HandleAdd, HandleRemove, HandleRequest
    <3>. HIDE DEF t
    <3>2. <<>> \in Seq(Message) /\ msgQ' = t \o <<>>
      BY <1>1, <3>1
    <3>3. \A k \in Kind, c \in Client : At(<<>>, "add", k, c) = {}
      BY DEF At
    <3>. QED  BY <3>2, <3>3
  <2>. QED  BY <2>1, <2>2 DEF AdapterTask
<1>6. PICK p \in Seq(Message) : msgQ' = t \o p /\ \A k \in Kind, c \in Client : At(p, "add", k, c) = {}
  BY <1>5
<1>7. ASSUME NEW k \in Kind, NEW c \in Client, Settled(k, c)
      PROVE  Latest(t, mClientData'[k][c], k, c, Given(c))
  <2>1. Latest(msgQ, mClientData[k][c], k, c, Given(c))
    BY <1>7 DEF TableInv
  <2>2. IF m.type = "add" /\ m.kind = k /\ m.client = c
        THEN Latest(t, m.callbacks, k, c, Given(c))
        ELSE Latest(t, mClientData[k][c], k, c, Given(c))
    BY <1>1, <2>1, PopLatest
  <2>3. IF m.type = "add" /\ m.kind = k /\ m.client = c
        THEN mClientData'[k][c] = m.callbacks ELSE mClientData'[k][c] = mClientData[k][c]
    <3>1. CASE HandleAdd
      <4>1. m.type = "add" /\ mClientData' = [mClientData EXCEPT ![m.kind][m.client] = m.callbacks]
        BY <3>1 DEF HandleAdd, Handling
      <4>. HIDE DEF m
      <4>. QED  BY <1>1, <4>1 DEF Typed, AdaptersOK
    <3>2. CASE HandleRemove
      <4>1. m.type = "remove" /\ mClientData' = [mClientData EXCEPT ![m.kind][m.client] = {}]
        BY <3>2 DEF HandleRemove, Handling, EraseClient
      <4>2. ~ (m.kind = k /\ m.client = c)
        <5>1. life[c] \in {"creating", "used"}
          BY <1>7 DEF Settled, Typed, CallOK, Idle
        <5>2. At(msgQ, "remove", k, c) = {}
          BY <5>1 DEF PairInv, Pair
        <5>3. 1 \notin At(msgQ, "remove", k, c)
          BY <5>2
        <5>. QED  BY <1>1, <4>1, <5>3, AtTail
      <4>. HIDE DEF m
      <4>. QED  BY <1>1, <4>1, <4>2 DEF Typed, AdaptersOK
    <3>3. CASE HandleRequest \/ HandleEngineUp
      <4>1. m.type # "add" /\ mClientData' = mClientData
        BY <3>3 DEF HandleRequest, HandleEngineUp, Handling
      <4>. QED  BY <4>1
    <3>. QED  BY <3>1, <3>2, <3>3 DEF AdapterTask
  <2>. QED  BY <2>2, <2>3
<1>. HIDE DEF m, t
<1>8. ASSUME NEW k \in Kind, NEW c \in Client, Settled(k, c)'
      PROVE  Latest(msgQ', mClientData'[k][c], k, c, Given(c)')
  BY <1>1, <1>4, <1>6, <1>7, <1>8, AppendLatest
<1>9. \A k \in Kind, c \in Client : (Settled(k, c) => Latest(msgQ, mClientData[k][c], k, c, Given(c)))'
  BY <1>8 DEF Latest, LastAdd, At
<1>. QED  BY <1>9 DEF TableInv

LEMMA InitTable == Init => TableInv
  BY DEF Init, TableInv, Settled, Idle

LEMMA TableStep ==
    ASSUME Typed, PairInv, TableInv, [Next]_vars
    PROVE  TableInv'
<1>1. CASE \/ \E c \in Client, callbacks \in Uses : CreateInstance(c, callbacks)
           \/ \E c \in Client, callbacks \in Uses : UpdateCallbacks(c, callbacks)
           \/ \E c \in Client, tells \in BOOLEAN : Destroy(c, tells)
  BY <1>1, CallsTable
<1>2. CASE AddClient \/ Return
  BY <1>2, AddClientTable, ReturnTable
<1>3. CASE AdapterTask
  BY <1>3, HandlersTable
<1>4. CASE LocApiTask
  <2>1. PICK p \in Seq(Announced) : msgQ' = msgQ \o p
    BY <1>4, LocApiTaskTypes
  <2>2. \A i \in DOMAIN p : p[i] \in Announced
    OBVIOUS
  <2>3. \A k \in Kind, c \in Client : At(p, "add", k, c) = {}
    BY <2>2 DEF At, Announced
  <2>4. p \in Seq(Message)
    <3>1. Announced \subseteq Message
      BY DEF Announced
    <3>. HIDE DEF Announced
    <3>. QED  BY <3>1
  <2>5. UNCHANGED <<mClientData, clientData, call, life>>
    BY <1>4 DEF LocApiTask, locationApi, adapters, clients
  <2>6. \A k \in Kind, c \in Client : Settled(k, c)' => Settled(k, c) /\ Given(c)' = Given(c)
    BY <2>5 DEF Settled, Given
  <2>. QED  BY <2>1, <2>3, <2>4, <2>5, <2>6, AppendTable
<1>5. CASE Construct \/ EngineDown \/ UNCHANGED vars
  <2>1. UNCHANGED <<msgQ, mClientData, clientData, call, life>>
    BY <1>5 DEF Construct, EngineDown, vars, locationApi, adapters, clients
  <2>2. \A k \in Kind, c \in Client : Settled(k, c)' => Settled(k, c) /\ Given(c)' = Given(c)
    BY <2>1 DEF Settled, Given
  <2>. QED  BY <2>1, <2>2, SameTable
<1>. QED  BY <1>1, <1>2, <1>3, <1>4, <1>5 DEF Next

\* When nothing is under way the tables are those of the clients.
LEMMA QuietTables ==
    ASSUME Typed, PairInv, TableInv, Quiet, dropped = {}, NEW k \in loaded, NEW c \in Client,
           NEW f, KindOf[f] = k, f \in Callback
    PROVE  f \in mClientData[k][c] <=> f \in clientData[c]
<1>1. /\ k \in Kind /\ k \in Loadable /\ call = Idle /\ call.client # c
      /\ Kinds(call.callbacks) = {}
  BY DEF Quiet, Idle, Typed, LocationApiOK, Kinds
<1>2. At(msgQ, "add", k, c) = {} /\ At(msgQ, "remove", k, c) = {}
  BY DEF Quiet, At
<1>3. ASSUME f \in clientData[c]  PROVE mClientData[k][c] = clientData[c]
  <2>1. life[c] = "used" /\ k \in Kinds(clientData[c])
    BY <1>3 DEF Typed, CallOK, Kinds
  <2>2. Settled(k, c) /\ Given(c) = clientData[c]
    BY <1>1, <2>1 DEF Settled, Given
  <2>. QED  BY <1>1, <1>2, <2>2 DEF TableInv, Latest
<1>4. ASSUME f \in mClientData[k][c]  PROVE mClientData[k][c] = clientData[c]
  <2>1. Here(k, c) /\ Pair(k, c) /\ ~ Going(msgQ, k, c)
    BY <1>1, <1>2, <1>4 DEF Here, PairInv, Going
  <2>2. life[c] \in {"creating", "used"} /\ Wants(k, c)
    BY <2>1 DEF Pair
  <2>3. life[c] = "used" /\ k \in Kinds(clientData[c])
    BY <1>1, <2>2 DEF Wants, Typed, CallOK
  <2>4. Settled(k, c) /\ Given(c) = clientData[c]
    BY <1>1, <2>3 DEF Settled, Given
  <2>. QED  BY <1>1, <1>2, <2>4 DEF TableInv, Latest
<1>. QED  BY <1>3, <1>4

\* No change of a client is lost between the calls, the adapters' task and
\* LocApi's: when nothing is under way the modem reports what the clients there
\* are listen to, and nothing else.
THEOREM ModemCorrect == Spec => []ModemReportsWhatIsHeard
<1>1. Typed /\ PairInv /\ MaskInv /\ TableInv => ModemReportsWhatIsHeard
  <2>. SUFFICES ASSUME Typed, PairInv, MaskInv, TableInv, Quiet, dropped = {}
                PROVE  modemMask = {f \in UNION {clientData[c] : c \in Client} : KindOf[f] \in loaded}
    BY DEF ModemReportsWhatIsHeard
  <2>1. modemMask = UNION {mEvtMask[k] : k \in loaded}
    BY DEF Quiet, MaskInv, ModemInv, Typed, CallOK
  <2>2. loaded \subseteq Kind
    BY DEF Typed, LocationApiOK
  <2>3. \A f : f \in modemMask <=>
                 \E k \in loaded, c \in Client : f \in mClientData[k][c] /\ KindOf[f] = k
    BY <2>1, <2>2 DEF MaskInv
  <2>4. \A k \in loaded, c \in Client : mClientData[k][c] \subseteq Callback /\ clientData[c] \subseteq Callback
    BY <2>2 DEF Typed, AdaptersOK, LocationApiOK
  <2>5. \A f \in Callback, k \in loaded, c \in Client :
            KindOf[f] = k => (f \in mClientData[k][c] <=> f \in clientData[c])
    BY QuietTables
  <2>6. \A f : f \in modemMask <=> \E c \in Client : f \in clientData[c] /\ KindOf[f] \in loaded
    BY <2>3, <2>4, <2>5 DEF Typed, LocationApiOK
  <2>. QED  BY <2>6
<1>. QED
  BY <1>1, InitTyped, TypedStep, InitPair, PairStep, InitMask, MaskStep, InitTable, TableStep, PTL
  DEF Spec

=============================================================================

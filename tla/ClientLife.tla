----------------------------- MODULE ClientLife -----------------------------
(***************************************************************************)
(* The life of a LocationAPI client: LocationAPI.cpp creates it, changes   *)
(* its callbacks and destroys it under gDataMutex, each adapter keeps a    *)
(* table of clients on the task they all share (LocAdapterBase.cpp), and   *)
(* LocApiBase.cpp opens the modem for the events the adapters' tables ask  *)
(* for, on a task of its own.  Adapters are made by the first client that  *)
(* needs them.  A callback stands for the events it needs reported.        *)
(***************************************************************************)
EXTENDS Naturals, Sequences

CONSTANTS
    Client,             \* LocationAPI objects
    Callback, KindOf,   \* callbacks, and the adapter each is for
    Uses,               \* what a client may pass for callbacks
    Loadable,           \* adapters whose library loadLocationInterface finds
    None,
    MaxEvents,          \* bound on updates, restarts and refusals together
    MaxQueued           \* a client calls while at most so many messages wait

Kind == {"gnss", "batching", "geofence"}

\* Each client of the HIDL services passes at least one adapter's callback.
ASSUME LifeAssumption ==
    /\ KindOf \in [Callback -> Kind] /\ Loadable \subseteq Kind
    /\ Uses \subseteq SUBSET Callback /\ {} \notin Uses
    /\ None \notin Client
    /\ MaxEvents \in Nat /\ MaxQueued \in Nat

VARIABLES
    clientData,     \* gData.clientData: a client's callbacks, {} for no entry
    destroyData,    \* gData.destroyClientData: waitAdapterMask, {} for no entry
    loaded,         \* the adapters that are made
    call,           \* the call that holds gDataMutex, if any, and what is left of it
    building,       \* the adapter whose base class is constructed, but not all of it
    mClientData,    \* each adapter's table of clients: callbacks, {} for no entry
    mEvtMask,       \* each adapter's events
    known,          \* mIsEngineCapabilitiesKnown
    mPendingMsgs,   \* clients whose request for capabilities an adapter put off
    msgQ,           \* the adapters' task
    mLocAdapters, apiQ,     \* LocApiBase: its adapters, and its task
    modemMask,      \* events the modem was last opened for
    refused,        \* the last open() failed
    engineKnown,    \* ContextBase::sIsEngineCapabilitiesKnown
    life,           \* how far a client is: "told" once destroyCompleteCb was called
    heard,          \* clients whose capabilitiesCb was called
    dropped,        \* clients that gave up all callbacks of an adapter
    deaf,           \* adapters that missed their last engine-up event
    events          \* how much of the bound is used

locationApi == <<clientData, destroyData, loaded, call, building>>
adapters == <<mClientData, mEvtMask, known, mPendingMsgs>>
modem == <<modemMask, refused, engineKnown, deaf>>
clients == <<life, heard, dropped>>
vars == <<locationApi, adapters, modem, clients, msgQ, mLocAdapters, apiQ, events>>

Use == events < MaxEvents /\ events' = events + 1

MayCall == Len(msgQ) + Len(apiQ) <= MaxQueued

Idle == [op |-> "none", client |-> None, callbacks |-> {}, left |-> {}, asked |-> FALSE]

Msg(type, k, c, callbacks) ==
    [type |-> type, kind |-> k, client |-> c, callbacks |-> callbacks]

\* isGnssClient, isBatchingClient, isGeofenceClient
Kinds(callbacks) == {KindOf[f] : f \in callbacks}

Init ==
    /\ clientData = [c \in Client |-> {}] /\ destroyData = [c \in Client |-> {}]
    /\ loaded = {} /\ call = Idle /\ building = "none"
    /\ mClientData = [k \in Kind |-> [c \in Client |-> {}]]
    /\ mEvtMask = [k \in Kind |-> {}]
    /\ known = [k \in Kind |-> FALSE] /\ mPendingMsgs = [k \in Kind |-> <<>>]
    /\ msgQ = <<>> /\ mLocAdapters = <<>> /\ apiQ = <<>>
    /\ modemMask = {} /\ refused = FALSE /\ engineKnown = FALSE /\ deaf = {}
    /\ life = [c \in Client |-> "new"] /\ heard = {} /\ dropped = {}
    /\ events = 0

-----------------------------------------------------------------------------
(* Calls of the clients, which hold gDataMutex to their end *)

\* the adapters destroy() removes a client from
Leaves(c) == Kinds(clientData[c]) \intersect loaded

Enter(op, c, callbacks) ==
    /\ call = Idle /\ MayCall
    /\ call' = [op |-> op, client |-> c, callbacks |-> callbacks,
                left |-> Kinds(callbacks) \intersect Loadable, asked |-> FALSE]
    /\ UNCHANGED <<clientData, destroyData, loaded, building, adapters, modem,
                   msgQ, mLocAdapters, apiQ, heard>>

\* createInstance
CreateInstance(c, callbacks) ==
    /\ life[c] = "new" /\ life' = [life EXCEPT ![c] = "creating"]
    /\ Enter("create", c, callbacks)
    /\ UNCHANGED <<dropped, events>>

\* updateCallbacks
UpdateCallbacks(c, callbacks) ==
    /\ life[c] = "used" /\ Use
    /\ Enter("update", c, callbacks)
    /\ dropped' = IF Leaves(c) \subseteq Kinds(callbacks) THEN dropped ELSE dropped \union {c}
    /\ UNCHANGED life

NextKind == IF "gnss" \in call.left THEN "gnss"
            ELSE IF "batching" \in call.left THEN "batching" ELSE "geofence"

\* initialize(): the base constructor announces the adapter before the rest
\* of it is constructed
Construct ==
    LET k == NextKind
    IN  /\ call.left # {} /\ k \notin loaded /\ building = "none"
        /\ building' = k
        /\ known' = [known EXCEPT ![k] = engineKnown]
        /\ mLocAdapters' = Append(mLocAdapters, k)
        /\ apiQ' = Append(apiQ, k)
        /\ UNCHANGED <<clientData, destroyData, loaded, call, mClientData, mEvtMask,
                       mPendingMsgs, modem, clients, msgQ, events>>

\* addClient, and for the first adapter of a new client requestCapabilities
AddClient ==
    LET k == NextKind
        asks == call.op = "create" /\ ~ call.asked
    IN  /\ call.left # {} /\ (k \in loaded \/ building = k)
        /\ loaded' = loaded \union {k} /\ building' = "none"
        /\ msgQ' = msgQ \o <<Msg("add", k, call.client, call.callbacks)>>
                        \o (IF asks THEN <<Msg("request", k, call.client, {})>> ELSE <<>>)
        /\ call' = [call EXCEPT !.left = @ \ {k}, !.asked = TRUE]
        /\ UNCHANGED <<clientData, destroyData, adapters, modem, clients,
                       mLocAdapters, apiQ, events>>

Return ==
    /\ call # Idle /\ call.left = {}
    /\ clientData' = [clientData EXCEPT ![call.client] = call.callbacks]
    /\ life' = [life EXCEPT ![call.client] = "used"]
    /\ call' = Idle
    /\ UNCHANGED <<destroyData, loaded, building, adapters, modem, heard, dropped,
                   msgQ, mLocAdapters, apiQ, events>>

Removal(k, c) == IF k \in Leaves(c) THEN <<Msg("remove", k, c, {})>> ELSE <<>>

\* destroy(), with or without a callback to be told by when it is complete
Destroy(c, tells) ==
    /\ life[c] = "used" /\ call = Idle /\ MayCall
    /\ destroyData' = IF tells THEN [destroyData EXCEPT ![c] = Leaves(c)] ELSE destroyData
    /\ msgQ' = msgQ \o Removal("gnss", c) \o Removal("batching", c) \o Removal("geofence", c)
    /\ clientData' = [clientData EXCEPT ![c] = {}]
    /\ life' = [life EXCEPT ![c] = IF ~ tells THEN "left"
                                   ELSE IF Leaves(c) = {} THEN "told" ELSE "destroying"]
    /\ UNCHANGED <<loaded, call, building, adapters, modem, heard, dropped,
                   mLocAdapters, apiQ, events>>

-----------------------------------------------------------------------------
(* The adapters' task *)

\* updateClientsEventMask: what the adapter's clients listen to, posted to LocApi
UpdateClientsEventMask(k) ==
    /\ mEvtMask' = [mEvtMask EXCEPT ![k] =
            {f \in UNION {mClientData'[k][c] : c \in Client} : KindOf[f] = k}]
    /\ apiQ' = Append(apiQ, "open")

Handling(type) == msgQ # <<>> /\ Head(msgQ).type = type

\* saveClient
HandleAdd ==
    LET m == Head(msgQ)
    IN  /\ Handling("add")
        /\ mClientData' = [mClientData EXCEPT ![m.kind][m.client] = m.callbacks]
        /\ UpdateClientsEventMask(m.kind)
        /\ msgQ' = Tail(msgQ)
        /\ UNCHANGED <<locationApi, known, mPendingMsgs, modem, clients, mLocAdapters, events>>

\* mutant: the mask is updated only when a client is added
EraseClientOnly(k, c) ==
    /\ mClientData' = [mClientData EXCEPT ![k][c] = {}]
    /\ UNCHANGED <<mEvtMask, apiQ>>

EraseClient(k, c) ==
    /\ mClientData' = [mClientData EXCEPT ![k][c] = {}]
    /\ UpdateClientsEventMask(k)

\* mutant: the first adapter's callback completes the destruction
OnRemoveFirst(k, c) ==
    /\ destroyData' = [destroyData EXCEPT ![c] = {}]
    /\ life' = IF destroyData[c] # {} THEN [life EXCEPT ![c] = "told"] ELSE life

\* mutant: the mask keeps the adapter that is done instead of the others
OnRemoveMasked(k, c) ==
    /\ destroyData' = [destroyData EXCEPT ![c] = @ \intersect {k}]
    /\ life' = IF destroyData[c] # {} /\ destroyData'[c] = {}
               THEN [life EXCEPT ![c] = "told"] ELSE life

\* onRemoveClientCompleteCb: the last adapter awaited tells the client
OnRemoveClientComplete(k, c) ==
    /\ destroyData' = [destroyData EXCEPT ![c] = @ \ {k}]
    /\ life' = IF destroyData[c] # {} /\ destroyData'[c] = {}
               THEN [life EXCEPT ![c] = "told"] ELSE life

\* the message of removeClientCommand: its callback waits for gDataMutex
HandleRemove ==
    LET m == Head(msgQ)
    IN  /\ Handling("remove") /\ call = Idle
        /\ EraseClient(m.kind, m.client)
        /\ OnRemoveClientComplete(m.kind, m.client)
        /\ msgQ' = Tail(msgQ)
        /\ UNCHANGED <<clientData, loaded, call, building, known, mPendingMsgs, modem,
                       heard, dropped, mLocAdapters, events>>

Tells(k, cs) == heard' = heard \union {c \in cs : mClientData[k][c] # {}}

\* the message of requestCapabilitiesCommand
HandleRequest ==
    LET m == Head(msgQ)
    IN  /\ Handling("request")
        /\ IF known[m.kind]
           THEN Tells(m.kind, {m.client}) /\ UNCHANGED mPendingMsgs
           ELSE /\ mPendingMsgs' = [mPendingMsgs EXCEPT ![m.kind] = Append(@, m)]
                /\ UNCHANGED heard
        /\ msgQ' = Tail(msgQ)
        /\ UNCHANGED <<locationApi, mClientData, mEvtMask, known, modem, life, dropped,
                       mLocAdapters, apiQ, events>>

\* the message of handleEngineUpEvent: broadcastCapabilities, and what was put
\* off is posted again
HandleEngineUp ==
    LET k == Head(msgQ).kind
    IN  /\ Handling("engineUp")
        /\ known' = [known EXCEPT ![k] = TRUE]
        /\ Tells(k, Client)
        /\ msgQ' = Tail(msgQ) \o mPendingMsgs[k]
        /\ mPendingMsgs' = [mPendingMsgs EXCEPT ![k] = <<>>]
        /\ UNCHANGED <<locationApi, mClientData, mEvtMask, modem, life, dropped,
                       mLocAdapters, apiQ, events>>

AdapterTask == HandleAdd \/ HandleRemove \/ HandleRequest \/ HandleEngineUp

-----------------------------------------------------------------------------
(* LocApi's task *)

Announce(k, ks) == IF k \in ks THEN <<Msg("engineUp", k, None, {})>> ELSE <<>>

\* mutant: only a restart of the modem is announced
EngineUpSilently(ks) == msgQ' = msgQ /\ deaf' = deaf \ ks

\* handleEngineUpEvent of some adapters: one that is not constructed yet may
\* have only its base class's, which does nothing
EngineUp(ks) ==
    \E missed \in SUBSET (ks \intersect {building}) :
        /\ msgQ' = msgQ \o Announce("gnss", ks \ missed)
                        \o Announce("batching", ks \ missed)
                        \o Announce("geofence", ks \ missed)
        /\ deaf' = (deaf \ ks) \union missed

\* open() with the mask of all adapters; ks are to be told that it succeeded
Open(ks) ==
    \/ /\ modemMask' = UNION {mEvtMask[mLocAdapters[i]] : i \in DOMAIN mLocAdapters}
       /\ refused' = FALSE /\ engineKnown' = TRUE
       /\ EngineUp(ks)
       /\ UNCHANGED events
    \/ /\ Use
       /\ refused' = TRUE /\ deaf' = deaf \union ks
       /\ UNCHANGED <<modemMask, engineKnown, msgQ>>

\* LocOpenMsg, of an adapter that was added or for a change of mask; LocSsrMsg
LocApiTask ==
    /\ apiQ # <<>> /\ apiQ' = Tail(apiQ)
    /\ Open(CASE Head(apiQ) = "open" -> {}
              [] Head(apiQ) = "ssr" -> {mLocAdapters[i] : i \in DOMAIN mLocAdapters}
              [] OTHER -> {Head(apiQ)})
    /\ UNCHANGED <<locationApi, adapters, clients, mLocAdapters>>

\* handleEngineDownEvent: the modem restarts
EngineDown ==
    /\ mLocAdapters # <<>> /\ Use
    /\ apiQ' = Append(apiQ, "ssr")
    /\ UNCHANGED <<locationApi, adapters, modem, clients, msgQ, mLocAdapters>>

Next ==
    \/ \E c \in Client, callbacks \in Uses : CreateInstance(c, callbacks)
    \/ \E c \in Client, callbacks \in Uses : UpdateCallbacks(c, callbacks)
    \/ \E c \in Client, tells \in BOOLEAN : Destroy(c, tells)
    \/ Construct \/ AddClient \/ Return
    \/ AdapterTask \/ LocApiTask \/ EngineDown

\* A call under way goes on, and so do the two tasks; no client has to call.
Fairness == /\ WF_vars(Construct \/ AddClient \/ Return)
            /\ WF_vars(AdapterTask) /\ WF_vars(LocApiTask)

Spec == Init /\ [][Next]_vars /\ Fairness

-----------------------------------------------------------------------------
(* Correctness *)

Request == [type : {"request"}, kind : Kind, client : Client, callbacks : {{}}]

Message ==
    Request
    \union [type : {"add"}, kind : Kind, client : Client, callbacks : SUBSET Callback]
    \union [type : {"remove"}, kind : Kind, client : Client, callbacks : {{}}]
    \union [type : {"engineUp"}, kind : Kind, client : {None}, callbacks : {{}}]

Call == [op : {"none", "create", "update"}, client : Client \union {None},
         callbacks : SUBSET Callback, left : SUBSET Kind, asked : BOOLEAN]

\* Every variable has its type.
TypeOK ==
    /\ clientData \in [Client -> SUBSET Callback]
    /\ destroyData \in [Client -> SUBSET Kind]
    /\ loaded \subseteq Loadable /\ call \in Call /\ building \in Kind \union {"none"}
    /\ mClientData \in [Kind -> [Client -> SUBSET Callback]]
    /\ mEvtMask \in [Kind -> SUBSET Callback]
    /\ known \in [Kind -> BOOLEAN] /\ mPendingMsgs \in [Kind -> Seq(Request)]
    /\ msgQ \in Seq(Message)
    /\ mLocAdapters \in Seq(Kind) /\ apiQ \in Seq(Kind \union {"open", "ssr"})
    /\ modemMask \subseteq Callback /\ refused \in BOOLEAN /\ engineKnown \in BOOLEAN
    /\ life \in [Client -> {"new", "creating", "used", "destroying", "told", "left"}]
    /\ heard \subseteq Client /\ dropped \subseteq Client /\ deaf \subseteq Kind

Queued(type, k, c) ==
    \E i \in DOMAIN msgQ : msgQ[i].type = type /\ msgQ[i].kind = k /\ msgQ[i].client = c

\* Once a client is told that it is destroyed, no adapter has it in its table,
\* or will, so none of its callbacks is called any more ("the memory still
\* remains valid until destroyCompleteCb is invoked", LocationAPI.h:50) --
\* unless an update of its callbacks left an adapter that destroy() then skips.
ForgottenOnceTold ==
    \A c \in Client : life[c] = "told" /\ c \notin dropped =>
        \A k \in Kind : mClientData[k][c] = {} /\ ~ Queued("add", k, c)

\* A client that asks to be told when it is destroyed is told.
DestroyEnds == \A c \in Client : life[c] = "destroying" ~> life[c] = "told"

\* Nothing is under way, and the modem took the last mask.
Quiet == call = Idle /\ msgQ = <<>> /\ apiQ = <<>> /\ ~ refused

\* Then the modem reports what the clients there are listen to, and nothing
\* else: no change of a client is lost between the three threads.
ModemReportsWhatIsHeard ==
    Quiet /\ dropped = {} =>
        modemMask = {f \in UNION {clientData[c] : c \in Client} : KindOf[f] \in loaded}

Asked(k, c) ==
    \/ Queued("request", k, c)
    \/ \E i \in DOMAIN mPendingMsgs[k] : mPendingMsgs[k][i].client = c

\* A client that asked for the capabilities hears them, or goes away, or the
\* adapter it asked missed that the engine is up.
CapabilitiesHeard ==
    \A k \in Kind, c \in Client :
        Asked(k, c) ~> c \in heard \/ life[c] \in {"destroying", "told", "left"} \/ k \in deaf

=============================================================================

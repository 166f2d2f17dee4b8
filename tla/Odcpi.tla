-------------------------------- MODULE Odcpi --------------------------------
(***************************************************************************)
(* On-demand position injection: the modem asks for coarse positions and   *)
(* the adapter asks the framework for them, again each time a timer        *)
(* expires for as long as the modem wants more.  OdcpiTimer keeps a flag   *)
(* of its own beside LocTimer's state: the flag stays set from start()     *)
(* until the adapter handles the expiry.                                   *)
(***************************************************************************)
EXTENDS Naturals, Sequences

CONSTANT MaxEvents      \* bound on what the modem and the framework send

ASSUME OdcpiAssumption == MaxEvents \in Nat

VARIABLES
    registered,             \* is mOdcpiRequestCb set?
    mOdcpiRequestActive,
    mOdcpiRequest,          \* its isEmergencyMode
    mActive,                \* OdcpiTimer's flag
    armed,                  \* LocTimer: is there a delegate?
    firing,                 \* is the timer thread between stop() and timeOutCallback()?
    msgQ,                   \* the adapter's messages
    asked,                  \* what the framework was last asked for
    asking,                 \* did the last step ask it?
    events

timerVars == <<mActive, armed, firing>>
odcpiVars == <<registered, mOdcpiRequestActive, mOdcpiRequest, timerVars, msgQ, asked, asking, events>>

Message == [type : {"init", "stop", "engineUp", "expire"}]
               \union [type : {"start"}, emergency : BOOLEAN]

FlagsOK ==
    /\ registered \in BOOLEAN /\ mOdcpiRequestActive \in BOOLEAN /\ mOdcpiRequest \in BOOLEAN
    /\ mActive \in BOOLEAN /\ armed \in BOOLEAN /\ firing \in BOOLEAN /\ asking \in BOOLEAN
DataOK ==
    /\ msgQ \in Seq(Message)
    /\ asked \in {"nothing", "normal", "emergency"} /\ events \in 0..MaxEvents
OdcpiTypeOK == FlagsOK /\ DataOK

OdcpiInit ==
    /\ registered = FALSE /\ mOdcpiRequestActive = FALSE /\ mOdcpiRequest = FALSE
    /\ mActive = FALSE /\ armed = FALSE /\ firing = FALSE
    /\ msgQ = <<>> /\ asked = "nothing" /\ asking = FALSE /\ events = 0

-----------------------------------------------------------------------------
(* The timer.  start() of a running LocTimer does nothing. *)

Start == mActive' = TRUE /\ armed' = TRUE /\ UNCHANGED firing
Stop == mActive' = FALSE /\ armed' = FALSE /\ UNCHANGED firing
Restart == Start    \* stop(), then start()

\* LocTimerDelegate::expire: LocTimer's stop(), which leaves mActive alone, ...
Expire ==
    /\ armed /\ ~firing
    /\ armed' = FALSE /\ firing' = TRUE /\ asking' = FALSE
    /\ UNCHANGED <<registered, mOdcpiRequestActive, mOdcpiRequest, mActive, msgQ, asked, events>>

\* ... and timeOutCallback, on the timer's thread
TimeOutCallback ==
    /\ firing /\ firing' = FALSE /\ asking' = FALSE
    /\ msgQ' = Append(msgQ, [type |-> "expire"])
    /\ UNCHANGED <<registered, mOdcpiRequestActive, mOdcpiRequest, mActive, armed, asked, events>>

-----------------------------------------------------------------------------
(* The modem and the framework *)

\* requestOdcpiEvent, initOdcpiCommand and, after a restart of the modem, handleEngineUpEvent
Arrive(m) ==
    /\ events < MaxEvents /\ events' = events + 1
    /\ msgQ' = Append(msgQ, m) /\ asking' = FALSE
    /\ UNCHANGED <<registered, mOdcpiRequestActive, mOdcpiRequest, timerVars, asked>>

-----------------------------------------------------------------------------
(* The adapter *)

Take(type) == msgQ # <<>> /\ Head(msgQ).type = type /\ msgQ' = Tail(msgQ) /\ UNCHANGED events

Ask(emergency) == asking' = TRUE /\ asked' = (IF emergency THEN "emergency" ELSE "normal")
AskNothing == asking' = FALSE /\ UNCHANGED asked

InitOdcpi ==
    /\ Take("init") /\ registered' = TRUE /\ AskNothing
    /\ UNCHANGED <<mOdcpiRequestActive, mOdcpiRequest, timerVars>>

\* Mutant: a request for an emergency waits for the timer like any other.
RequestOdcpiWaiting ==
    /\ Take("start") /\ registered /\ UNCHANGED registered
    /\ mOdcpiRequestActive' = TRUE
    /\ mOdcpiRequest' = Head(msgQ).emergency
    /\ IF ~mOdcpiRequestActive /\ ~mActive
       THEN Ask(Head(msgQ).emergency) /\ Start
       ELSE AskNothing /\ UNCHANGED timerVars

RequestOdcpi ==
    /\ Take("start") /\ registered /\ UNCHANGED registered
    /\ mOdcpiRequestActive' = TRUE
    /\ mOdcpiRequest' = Head(msgQ).emergency
    /\ \/ /\ ~mOdcpiRequestActive /\ ~mActive
          /\ Ask(Head(msgQ).emergency) /\ Start
       \/ /\ mOdcpiRequestActive \/ mActive
          /\ ~mOdcpiRequest /\ Head(msgQ).emergency
          /\ Ask(TRUE) /\ Restart
       \/ /\ mOdcpiRequestActive \/ mActive
          /\ mOdcpiRequest \/ ~Head(msgQ).emergency
          /\ AskNothing /\ UNCHANGED timerVars

\* The timer runs on: more requests may come.
RequestOdcpiStop ==
    /\ Take("stop") /\ registered
    /\ mOdcpiRequestActive' = FALSE /\ AskNothing
    /\ UNCHANGED <<registered, mOdcpiRequest, timerVars>>

RequestOdcpiUnsupported ==
    /\ Take("start") \/ Take("stop")
    /\ ~registered /\ AskNothing
    /\ UNCHANGED <<registered, mOdcpiRequestActive, mOdcpiRequest, timerVars>>

\* restartSessions
OdcpiEngineUp ==
    /\ Take("engineUp")
    /\ mOdcpiRequestActive' = FALSE /\ AskNothing
    /\ UNCHANGED <<registered, mOdcpiRequest, timerVars>>

\* Mutant: the framework is asked again, the timer is not started again.
OdcpiTimerExpireOnce ==
    /\ Take("expire")
    /\ UNCHANGED <<registered, mOdcpiRequestActive, mOdcpiRequest>>
    /\ IF mOdcpiRequestActive
       THEN Ask(mOdcpiRequest) /\ UNCHANGED timerVars
       ELSE AskNothing /\ Stop

\* Mutant: the timer is stopped without its flag, by LocTimer's stop().
OdcpiTimerExpireUnmarked ==
    /\ Take("expire")
    /\ UNCHANGED <<registered, mOdcpiRequestActive, mOdcpiRequest>>
    /\ IF mOdcpiRequestActive
       THEN Ask(mOdcpiRequest) /\ Restart
       ELSE AskNothing /\ armed' = FALSE /\ UNCHANGED <<mActive, firing>>

OdcpiTimerExpire ==
    /\ Take("expire")
    /\ UNCHANGED <<registered, mOdcpiRequestActive, mOdcpiRequest>>
    /\ IF mOdcpiRequestActive
       THEN Ask(mOdcpiRequest) /\ Restart
       ELSE AskNothing /\ Stop

Adapter ==
    \/ InitOdcpi \/ RequestOdcpi \/ RequestOdcpiStop \/ RequestOdcpiUnsupported
    \/ OdcpiEngineUp \/ OdcpiTimerExpire

OdcpiNext ==
    \/ \E m \in Message : m.type # "expire" /\ Arrive(m)
    \/ Expire \/ TimeOutCallback
    \/ Adapter

(* The timer's thread and the adapter's keep running; the modem and the   *)
(* framework need not send anything.                                      *)
OdcpiFairness == WF_odcpiVars(Expire) /\ WF_odcpiVars(TimeOutCallback) /\ WF_odcpiVars(Adapter)

OdcpiSpec == OdcpiInit /\ [][OdcpiNext]_odcpiVars /\ OdcpiFairness

-----------------------------------------------------------------------------
ExpiryComing == armed \/ firing \/ \E i \in DOMAIN msgQ : msgQ[i].type = "expire"

(* An active request has its timer marked as running, and a timer marked   *)
(* as running is going to be heard of: it is armed, on its way out, or its *)
(* expiry waits in the adapter's queue.  Otherwise no position would be    *)
(* asked for again, and no new request would ever reach the framework.     *)
RetryComing ==
    /\ mOdcpiRequestActive => mActive
    /\ mActive => ExpiryComing

(* When the adapter's request is for an emergency, that is what the        *)
(* framework was last asked for, however the requests, the stops and the   *)
(* timer's expiries fall.                                                  *)
EmergencyReached == mOdcpiRequest => asked = "emergency"

(* The framework is asked again and again for as long as the modem has not *)
(* stopped its request.                                                    *)
AskedUntilStopped == []<>(~mOdcpiRequestActive \/ asking)

(* What the comments of requestOdcpi promise: except for an emergency that *)
(* replaces another request, the framework is not asked again before the   *)
(* timer started with the last request has expired.                        *)
NoSpam == [][asking' /\ armed => ~mOdcpiRequest /\ mOdcpiRequest']_odcpiVars

=============================================================================

------------------------------ MODULE MCBatching ------------------------------
(***************************************************************************)
(* Batching for TLC.  A history variable tells whether two pieces of work  *)
(* on trips were ever under way at once.  Most of what the adapter keeps   *)
(* about trips holds only while they are not, and while no call of the     *)
(* modem fails: the exploration stops there, but for the run of            *)
(* NeverLate, which needs neither.                                         *)
(***************************************************************************)
EXTENDS Batching, TLC

TwoTrips == {[d |-> 1, i |-> 2], [d |-> 2, i |-> 1]}
ClientSymmetry == Permutations(Client)

VARIABLE overlapped

\* Calls about trips that LocApi has to take, and news of trips for the adapter
TripCall(c) == c.op \in {"tripStart", "tripStop", "query"}
TripNews(m) == m.type \in {"tripStarted", "queried", "requeried", "restarted", "resumed",
                           "tripStopped", "tripReport"}
Overlap == Len(SelectSeq(apiQ, TripCall)) + Len(SelectSeq(msgQ, TripNews)) > 1

MCInit == Init /\ overlapped = FALSE
MCNext == ~overlapped /\ "failure" \notin used /\ Next /\ overlapped' = Overlap'
MCSpec == MCInit /\ [][MCNext]_<<vars, overlapped>>

Orderly == ~overlapped /\ "failure" \notin used
Undisturbed == ~overlapped /\ used = {}

(* When there is nothing left to do, every session that batches in the     *)
(* modem is one the adapter has saved, in the mode it has saved, through   *)
(* updates between modes, removals of clients and restarts of the modem    *)
(* (stopBatching's restart, stopClientSessions, restartSessions).          *)
ModemBatchesAsSaved ==
    Quiet /\ Orderly => \A s \in Session : modem[s] # None => mBatchingSessions[s] = modem[s]

(* When there is nothing left to do, the modem batches for trips if and    *)
(* only if there are some, with the distance and interval the adapter      *)
(* takes it to have: what a trip that joins or leaves is measured against. *)
TripBatchAsKept ==
    Quiet /\ Orderly /\ "remove" \notin used =>
        /\ OnTrip # {} <=> batch # None
        /\ batch # None => ongoing = [d |-> batch.d, i |-> batch.i]

(* A trip is not reported completed before its distance was covered,       *)
(* whatever trips began, ended or changed while it lasted                  *)
(* (reportCompletedTripsEvent's sums, and their unsigned subtractions).    *)
NeverEarly == Undisturbed => early = {}

(* Whoever batches something that reports by itself hears of full batches. *)
BatchFullHeard ==
    Quiet /\ Undisturbed /\ ((\E s \in Session : modem[s] = "routine") \/ batch # None) => batchFull

(* A batch of the modem is never longer than what a trip in it has left:   *)
(* each is reported when its distance is covered, not later.               *)
NeverLate ==
    Quiet /\ Undisturbed /\ batch # None => \A s \in OnTrip :
        batch.d - batch.covered <= since[s] + mTripSessions[s].d - travelled

=============================================================================

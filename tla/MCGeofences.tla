----------------------------- MODULE MCGeofences -----------------------------
(* Geofences for TLC: the client's ids are interchangeable. *)
EXTENDS Geofences, TLC

IdSymmetry == Permutations(Id)

=============================================================================

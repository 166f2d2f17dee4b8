---------------------------- MODULE MCClientLife ----------------------------
(* ClientLife for TLC: two clients; the batching library cannot be loaded. *)
EXTENDS ClientLife, TLC

MCKindOf == [f \in Callback |->
    CASE f = "tracking" -> "gnss" [] f = "batch" -> "batching" [] f = "breach" -> "geofence"]

Symmetric == Permutations(Client)

=============================================================================

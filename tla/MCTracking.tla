----------------------------- MODULE MCTracking -----------------------------
(* Tracking for TLC: two clients, one with two sessions, and small options. *)
EXTENDS Tracking

CONSTANTS a, b

MCClientOf == [s \in Session |-> IF s = 2 THEN b ELSE a]

MCOption(i, p, d) == [interval |-> i, power |-> p, distance |-> d]

\* time based only: two of low power (M4) and a slow one of normal power (M2)
MCTimeOptions == {MCOption(1, 4, FALSE), MCOption(2, 4, FALSE), MCOption(3, 2, FALSE)}

\* time based and distance based
MCBothOptions == {MCOption(1, 2, FALSE), MCOption(2, 2, FALSE), MCOption(2, 2, TRUE)}

=============================================================================

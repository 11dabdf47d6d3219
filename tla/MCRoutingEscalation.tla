------------------------- MODULE MCRoutingEscalation -------------------------
(* Small instances of RoutingEscalation for TLC.                             *)
EXTENDS RoutingEscalation, TLC

CONSTANTS e1, e2, r1, r2

\* Nothing tells one executor from the other.
Symmetry == Permutations(Exec)
=============================================================================

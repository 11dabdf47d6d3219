--------------------------- MODULE MCControlQueue ---------------------------
(* Small instances of ControlQueue for TLC.                                *)
EXTENDS ControlQueue

CONSTANTS t1, t2, c1, c2

OneHost  == [t \in Task |-> c1]
TwoHosts == [t \in Task |-> IF t = t1 THEN c1 ELSE c2]
=============================================================================

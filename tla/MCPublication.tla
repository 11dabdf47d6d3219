---------------------------- MODULE MCPublication ----------------------------
(* Small instances of Publication for TLC.                                   *)
EXTENDS Publication, TLC

CONSTANTS i1, i2, c1, b1, h1

\* Nothing tells one identity, commit or process from another.
Symmetry == Permutations(Id) \cup Permutations(Commit)
              \cup Permutations(Boss) \cup Permutations(Host)
=============================================================================

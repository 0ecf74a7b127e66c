--------------------------- MODULE MCDownPortRetry ---------------------------
(***************************************************************************)
(* Instances of DownPortRetry with half a second per tick.                 *)
(***************************************************************************)
EXTENDS DownPortRetry, TLC

CONSTANTS h1, h2

Symmetry == Permutations(Hashes)
=============================================================================

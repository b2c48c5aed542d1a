--------------------------- MODULE MCDescriptors ---------------------------
(* Few numbers, so that they run out and are used again.                   *)
EXTENDS Descriptors, TLC

CONSTANTS c1, c2, v1, v2

Symmetry == Permutations({c1, c2}) \cup Permutations({v1, v2})
=============================================================================

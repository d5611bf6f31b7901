--------------------------- MODULE MCResponseCache ---------------------------
(* Small instances of ResponseCache for TLC. *)
EXTENDS ResponseCache

CONSTANTS k1, k2, r1, r2

Symmetry == Permutations(Readers)
=============================================================================

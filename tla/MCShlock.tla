------------------------------ MODULE MCShlock ------------------------------
(* Small instances of Shlock for TLC. *)
EXTENDS Shlock

CONSTANTS p1, p2, p3

=============================================================================

---------------------------- MODULE MCCorpusBuild ----------------------------
(* Small instances of CorpusBuild for TLC. *)
EXTENDS CorpusBuild

CONSTANTS b1, s1, a1, c1, c2
=============================================================================

---------------------------- MODULE MCSharedLock ----------------------------
(* Small instances of SharedLock for TLC. *)
EXTENDS SharedLock

CONSTANTS c1, c2, l1, b1
=============================================================================

----------------------------- MODULE MCOnDemand -----------------------------
(* Small instances of OnDemand for TLC. *)
EXTENDS OnDemand

CONSTANTS k1, k2, r1, r2

=============================================================================

------------------------------ MODULE MCIngest ------------------------------
(* Small instances of IngestResume for TLC.                                *)
EXTENDS IngestResume

CONSTANTS r1, r2

(* Trades of the first month belong to r1, those of later months to r2.    *)
MCTarget == [m \in Months |-> IF m = 1 THEN r1 ELSE r2]
=============================================================================

---------------------------- MODULE MonthLedger -----------------------------
(***************************************************************************)
(* What the ledger ingest_progress promises to resumed runs, without       *)
(* stages, regions or processes: a unit is loaded, then recorded; once     *)
(* recorded it is never loaded again; and a unit loaded but not recorded   *)
(* is loaded a second time only in place of a run that was lost.           *)
(***************************************************************************)
EXTENDS Naturals

CONSTANT Unit

VARIABLES loaded, recorded, waste, losses

lvars == <<loaded, recorded, waste, losses>>

Init == loaded = {} /\ recorded = {} /\ waste = 0 /\ losses = 0

Load(u) ==
    /\ u \notin loaded
    /\ loaded' = loaded \cup {u}
    /\ UNCHANGED <<recorded, waste, losses>>

Reload(u) ==
    /\ u \in loaded \ recorded
    /\ waste < losses
    /\ waste' = waste + 1
    /\ UNCHANGED <<loaded, recorded, losses>>

Record(u) ==
    /\ u \in loaded
    /\ recorded' = recorded \cup {u}
    /\ UNCHANGED <<loaded, waste, losses>>

Lose ==
    /\ losses' = losses + 1
    /\ UNCHANGED <<loaded, recorded, waste>>

Next == Lose \/ \E u \in Unit : Load(u) \/ Reload(u) \/ Record(u)

Spec == Init /\ [][Next]_lvars
=============================================================================

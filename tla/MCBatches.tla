------------------------------ MODULE MCBatches ------------------------------
(* Three complexes, the first of which arrives late; two categories.       *)
EXTENDS Batches

MCCategories == {"SW8", "PARK"}
MCNoKey == {2}
MCBadRows == {<<2, "SW8">>, <<3, "PARK">>, <<3, "fact">>}
MCSilent == {2}
MCJobs == {"refill", "ledger", "unit", "gym", "poi", "geocode", "school", "zone"}
MCRefill == {"refill"}
=============================================================================

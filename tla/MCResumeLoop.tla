---------------------------- MODULE MCResumeLoop ----------------------------
(* Two months of one region: an empty one and one of two pages, behind a   *)
(* one-page complex list.                                                  *)
EXTENDS ResumeLoop

ConstMonths == {1, 2}
ConstPages == [u \in {0, 1, 2} |-> IF u = 0 THEN 1 ELSE IF u = 1 THEN 0 ELSE 2]
=============================================================================

------------------------------ MODULE MCStaging ------------------------------
(* Three complexes, two asked about at a time, and the lines that tell the *)
(* rules of the parsers apart: a good one, a plan on a wiki with a summary *)
(* that is too long, a generic word, a blocked domain, a source that       *)
(* cannot be traced, and no JSON at all.  The largest complex never gets a *)
(* usable line, and the smallest is not asked about at first.              *)
EXTENDS Staging

Line(c, u, s, f, t, n) ==
    [json |-> TRUE, complex |-> c, url |-> u, state |-> s, future |-> f, done |-> FALSE,
     token |-> t, evidence |-> TRUE, size |-> n, conf |-> 8]

MCCrons == {"cron1", "cron2"}
MCManual == {"hand"}
MCAttrs == {"gym", "review", "floorplan"}
MCManualAttrs == {"floorplan"}
MCBlocked == {"naver"}
MCUntraceable == {"none"}
MCWiki == {"wiki"}
MCAnswers ==
    {<<Line(2, "blog", "yes", FALSE, TRUE, 1), Line(3, "wiki", "yes", TRUE, TRUE, 5)>>,
     <<[json |-> FALSE], Line(1, "naver", "yes", FALSE, TRUE, 1),
       Line(2, "blog", "yes", FALSE, FALSE, 0), Line(3, "none", "maybe", FALSE, TRUE, 1)>>}
=============================================================================

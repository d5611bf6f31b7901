------------------------------ MODULE MCMarket ------------------------------
(* The tables of MCJoin, what is known of the buildings, and five queries.  *)
(* The two sales of K1 are just as far apart as one unit type may be, and   *)
(* two areas of its register, left by two enrichments, are nearer.          *)
EXTENDS Search, MCJoin

None == [coord |-> <<>>, sido |-> "", sigungu |-> "", attr |-> <<>>, text |-> <<>>, near |-> <<>>,
         schools |-> {}, units |-> {}, gym |-> {}, pet |-> {}, pet_allowed |-> {}]
Web(state, conf, source) == [state |-> state, conf |-> conf, source |-> source, evidence |-> TRUE]
Unit(area, households) ==
    [net_area |-> area, household_count |-> households, source |-> "ledger_exclusive"]
MCBare == [None EXCEPT !.sigungu = "Agu", !.sido = "A"]
MCFacts ==
    K1.id :> [None EXCEPT !.coord = <<1, 1>>, !.sigungu = "Agu", !.sido = "A", !.schools = {"elem"},
                !.attr = [household_count |-> 900, has_daycare |-> 0],
                !.near = [mart |-> [dist |-> 300, count |-> 2]],
                !.units = {Unit(600, 60), Unit(605, 50), Unit(700, 20)},
                !.gym = {Web("yes", 88, "kakao_local"), Web("no", 90, "web_verified")}]
    @@ K3.id :> [None EXCEPT !.coord = <<2, 1>>, !.sigungu = "Agu", !.sido = "A",
                !.attr = [household_count |-> 300, has_daycare |-> 1],
                !.near = [mart |-> [dist |-> 1500, count |-> 0]],
                !.gym = {Web("no", 70, "web")}, !.pet_allowed = {Web("conditional", 60, "seed")}]
    @@ K4.id :> [None EXCEPT !.coord = <<2, 2>>, !.sigungu = "Bgu", !.sido = "B",
                !.gym = {Web("unknown", 50, "web")}, !.pet = {Web("no", 50, "web")}]
    @@ BuildingKey(S4, "A") :> [MCBare EXCEPT !.coord = <<3, 3>>]
    @@ BuildingKey(R1, "A") :> [MCBare EXCEPT !.coord = <<1, 2>>]

AnyQuery == [deal |-> "sale", lo |-> <<>>, hi |-> <<>>, least |-> <<>>, most |-> <<>>, text |-> <<>>,
        type |-> "any", maxdist |-> <<>>, mincount |-> <<>>, assigned |-> <<>>,
        box |-> [lat |-> <<0, 9>>, lng |-> <<0, 9>>], limit |-> 50, level |-> 8,
        soft |-> [gym |-> "none", pet |-> "none", criteria |-> <<>>]]
MCSchoolLike == {<<"elementary", "elem">>}
MCQueries ==
    {[AnyQuery EXCEPT !.limit = 2, !.level = 1, !.soft.gym = "preferred"],
     [AnyQuery EXCEPT !.limit = 1, !.hi = [price |-> 9], !.lo = [net_area |-> 150]],
     [AnyQuery EXCEPT !.limit = 1, !.deal = "jeonse", !.hi = [deposit |-> 9], !.level = 5],
     [AnyQuery EXCEPT !.mincount = [mart |-> 1], !.type = "apartment", !.level = 11,
                 !.soft.pet = "required", !.soft.criteria = <<<<"has_daycare", 1>>>>],
     [AnyQuery EXCEPT !.assigned = <<"elementary">>, !.least = [household_count |-> 500], !.box = <<>>]}
=============================================================================

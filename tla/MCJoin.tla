------------------------------- MODULE MCJoin -------------------------------
(* Two cities with a dong of the same name and three registered complexes.  *)
(* By name S1 is as near to K1 as to K3, and only the lot tells; S5 is of   *)
(* the same building, as the portal gave it before there were codes, and    *)
(* fits K4 of the other city as well; R1 is of another estate on that lot;  *)
(* S4 and R2 carry their own building.  MCRatio is the percentage difflib   *)
(* gives such names.                                                        *)
EXTENDS Join

MCNames == {"hyundai 1", "dong hyundai 1", "hyundai 1 plus", "hyundai 2", "samho"}
MCNorm == [n \in MCNames |-> n]
MCNumbers == [n \in MCNames |-> CASE n = "samho" -> {} [] n = "hyundai 2" -> {2} [] OTHER -> {1}]
MCRatio == [p \in MCNames \X MCNames |->
              IF "samho" \in {p[1], p[2]} THEN 30
              ELSE IF "hyundai 1 plus" \in {p[1], p[2]} THEN 88 ELSE 80]
MCWithin == {<<"hyundai 1", "dong hyundai 1">>}

Bjd(n) == [sgg |-> n, n |-> 1]
Row(code, name, sgg, lot) ==
    [id |-> [kind |-> "kapt", sgg |-> "", dong |-> "", lot |-> "", norm |-> code],
     name |-> name, bjd |-> Bjd(sgg), dong |-> "d", lot |-> lot, type |-> "apartment"]

K1 == Row("k1", "dong hyundai 1", "A", "L1")
K3 == Row("k3", "hyundai 1 plus", "A", "L2")
K4 == Row("k4", "hyundai 1", "B", "L1")
MCKapt == {K1, K3, K4}

Sale(name, type, lot, area, price, date) ==
    [name |-> name, type |-> type, sgg |-> "A", dong |-> "d", lot |-> lot,
     bjd |-> IF type = "apartment" THEN Bjd("A") ELSE NoBjd,
     net_area |-> area, price |-> price, deal_date |-> date]

Rent(name, lot, area, deposit, rent_type, date) ==
    [name |-> name, type |-> "apartment", sgg |-> "A", dong |-> "d", lot |-> lot,
     net_area |-> area, deposit |-> deposit, rent_type |-> rent_type,
     monthly_rent |-> IF rent_type = "monthly" THEN 5 ELSE 0, deal_date |-> date]

S1 == Sale("hyundai 1", "apartment", "L1", 610, 9, 3)
S4 == Sale("hyundai 1", "officetel", "L1", 200, 3, 4)
S5 == [Sale("hyundai 1", "apartment", "L1", 640, 8, 1) EXCEPT !.bjd = NoBjd]
R1 == Rent("hyundai 2", "L1", 600, 5, "jeonse", 2)
R2 == [Rent("samho", "", 200, 6, "monthly", 3) EXCEPT !.type = "rowhouse"]

MCSales == {S1, S4, S5}
MCRents == {R1, R2}
MCPartial == {K1}
=============================================================================

-------------------------------- MODULE Join --------------------------------
(***************************************************************************)
(* How a trade finds its building.  The K-apt master and the trades of     *)
(* MOLIT share no key, so store/join_repo.py links them by the legal dong  *)
(* and the likeness of the names (match/fuzzy.py), then by the lot.  Trades *)
(* of rowhouses and officetels carry their own building (nonapt_repo.py),   *)
(* and apartments nobody registered are derived from the trades left over  *)
(* (backfill_derived_apartments.py), which reads them outside the lock.    *)
(*                                                                         *)
(* A name is a value: what the regular expressions of match/normalize.py   *)
(* and difflib make of it are the constants Norm, Numbers, Ratio, Within.  *)
(***************************************************************************)
EXTENDS Naturals, FiniteSets

CONSTANTS
    Kapt,     \* rows the K-apt master gives for table complex
    Partial,  \* those of which it may answer the details without the basis
    Sales,    \* trades of table transaction, one per txn_id
    Rents,    \* trades of table rent_transaction
    Names,    \* raw names of trades and buildings
    Norm,     \* normalize_name: [Names -> names], NoName when nothing is left
    Numbers,  \* name_numbers of the normalized name
    Ratio,    \* percent: max of SequenceMatcher and _token_ratio, [Names \X Names -> 0..100]
    Within,   \* pairs <<query, candidate>> where the query is part of the candidate
    NoName, NoLot

NoBjd == [sgg |-> "", n |-> 0]
NoComplex == [kind |-> "none", sgg |-> "", dong |-> "", lot |-> NoLot, norm |-> NoName]

ASSUME NameFacts ==
    /\ Norm \in [Names -> Names \cup {NoName}]
    /\ Numbers \in [Names -> SUBSET Nat]
    /\ Ratio \in [Names \X Names -> 0..100]
    /\ \A a, b \in Names : Norm[a] = Norm[b] => Numbers[a] = Numbers[b]

ASSUME MasterFacts ==
    /\ \A k \in Kapt : /\ k.id.kind = "kapt" /\ k.name \in Names
                       /\ k.bjd # NoBjd /\ k.type = "apartment"
    /\ Partial \subseteq Kapt
    /\ \A k, j \in Kapt : /\ k.id = j.id => k = j
                          /\ k.bjd = j.bjd => k.dong = j.dong

ASSUME TradeFacts ==
    /\ \A t \in Sales \cup Rents : t.name \in Names
                                   /\ t.type \in {"apartment", "rowhouse", "officetel"}
    /\ \A t \in Sales : t.type = "apartment" => t.bjd = NoBjd \/ t.bjd.sgg = t.sgg

VARIABLES
    complex,  \* rows of table complex: K-apt's and those derived from trades
    sale,     \* trade -> its row [link, bjd] of transaction; link is complex_id
    rent,     \* the same of rent_transaction, where bjd is filled in later
    batch,    \* what a derivation has read and not yet flushed
    hurried   \* history: sales linked while rows of the master were missing

vars == <<complex, sale, rent, batch, hurried>>

-----------------------------------------------------------------------------
(* Likeness of names: a percentage, and never across differing numbers.    *)

Threshold == 85
Gap == 5
Floor == 70
Contained == 90

Crossed(q, c) == Numbers[q] # {} /\ Numbers[c] # {} /\ Numbers[q] \cap Numbers[c] = {}

SimilarityUnguarded(q, c) ==   \* mutant: numbers may differ
    IF Norm[q] = NoName \/ Norm[c] = NoName THEN 0
    ELSE IF Norm[q] = Norm[c] THEN 100
    ELSE IF <<q, c>> \in Within /\ Ratio[<<q, c>>] < Contained THEN Contained
    ELSE Ratio[<<q, c>>]

Similarity(q, c) ==
    IF Norm[q] = NoName \/ Norm[c] = NoName THEN 0
    ELSE IF Norm[q] = Norm[c] THEN 100
    ELSE IF Crossed(q, c) THEN 0
    ELSE IF <<q, c>> \in Within /\ Ratio[<<q, c>>] < Contained THEN Contained
    ELSE Ratio[<<q, c>>]

\* best_match: the one candidate good enough and clear of all others.
BestMatch(name, rows) ==
    {c \in rows : /\ Similarity(name, c.name) >= Threshold
                  /\ \A d \in rows \ {c} :
                        Similarity(name, c.name) >= Similarity(name, d.name) + Gap}

-----------------------------------------------------------------------------
(* Candidates of a trade whose row has this bjd, and its match among them. *)

Candidates(t, bjd, rows) ==
    IF bjd # NoBjd THEN {c \in rows : c.bjd = bjd}
    ELSE {c \in rows : t.dong # "" /\ c.dong = t.dong}

JibunPeers(t, cands) == {c \in cands : t.lot # NoLot /\ c.lot = t.lot}

SameNumbers(t, peers) ==
    {c \in peers : Numbers[t.name] # {} /\ Numbers[c.name] = Numbers[t.name]}

\* Several buildings on one lot: doubles of one name, else the one with the
\* numbers of the trade, else the name once more among the few.
Disambiguate(t, peers) ==
    LET plausible == {c \in peers : Similarity(t.name, c.name) >= Floor}
        same == SameNumbers(t, peers)
    IN  IF plausible # {} /\ \A c, d \in peers : Norm[c.name] = Norm[d.name] THEN plausible
        ELSE IF Cardinality(same) = 1 /\ same \subseteq plausible THEN same
        ELSE BestMatch(t.name, peers)

JibunMatch(t, cands) ==
    LET peers == JibunPeers(t, cands)
    IN  IF Cardinality(peers) = 1
        THEN {c \in peers : Similarity(t.name, c.name) >= Floor}
        ELSE Disambiguate(t, peers)

\* The rows a pending trade may be linked to: none, one, or doubles of one.
Matches(t, bjd, rows) ==
    LET cands == Candidates(t, bjd, rows)
        named == BestMatch(t.name, cands)
    IN  IF named # {} THEN named ELSE JibunMatch(t, cands)

Pending(table) == {t \in DOMAIN table : table[t].link = NoComplex}

MatchIds(t, bjd, rows) ==
    LET found == Matches(t, bjd, rows)
    IN  IF found = {} THEN {NoComplex} ELSE {c.id : c \in found}

Relink(row, id) == [link |-> id, bjd |-> row.bjd]

\* backfill_matches: all that is pending, in one commit.
Joined(table, new, rows) ==
    \E pick \in [Pending(table) -> {c.id : c \in rows} \cup {NoComplex}] :
        /\ \A t \in Pending(table) : pick[t] \in MatchIds(t, table[t].bjd, rows)
        /\ new = [t \in DOMAIN table |->
                     IF t \in Pending(table) THEN Relink(table[t], pick[t]) ELSE table[t]]

\* recall_breakdown: why the trades still pending have no match.
RecallBucket(t, bjd, rows) ==
    LET cands == Candidates(t, bjd, rows)
        peers == JibunPeers(t, cands)
    IN  IF bjd = NoBjd /\ t.dong = "" THEN "structural"
        ELSE IF t.lot = NoLot THEN "no_jibun"
        ELSE IF peers = {} THEN "structural"
        ELSE IF JibunMatch(t, cands) # {} THEN "jibun_recoverable"
        ELSE IF Cardinality(peers) = 1 THEN "name_blocked" ELSE "collision"

RecallBreakdown(table, rows) ==
    [b \in {"jibun_recoverable", "name_blocked", "collision", "structural", "no_jibun"} |->
        {t \in Pending(table) : RecallBucket(t, table[t].bjd, rows) = b}]

-----------------------------------------------------------------------------
(* Buildings that exist only because of their trades.                      *)

Prefix(type) == IF type = "apartment" THEN "ap" ELSE IF type = "rowhouse" THEN "ro" ELSE "of"

BuildingKey(t, sgg) ==
    [kind |-> Prefix(t.type), sgg |-> sgg, dong |-> t.dong, lot |-> t.lot, norm |-> Norm[t.name]]

BuildingCoded(t, sgg) ==   \* mutant: the building gets the code of the dong
    [id |-> BuildingKey(t, sgg), name |-> t.name, bjd |-> [sgg |-> sgg, n |-> 1],
     dong |-> t.dong, lot |-> t.lot, type |-> t.type]

\* upsert_nonapt_building: no bjd, the address is that of the trade, and the
\* name that of the last trade written.
Building(t, sgg) ==
    [id |-> BuildingKey(t, sgg), name |-> t.name, bjd |-> NoBjd, dong |-> t.dong,
     lot |-> t.lot, type |-> t.type]

Put(row) == {c \in complex : c.id # row.id} \cup {row}

IsDerivable(t, bjd) == Norm[t.name] # NoName /\ bjd # NoBjd /\ t.lot # NoLot

-----------------------------------------------------------------------------
Init == /\ complex = {} /\ sale = [t \in {} |-> NoComplex]
        /\ rent = [t \in {} |-> NoComplex] /\ batch = {} /\ hurried = {}

\* An answer without the basis overwrites the code and the addresses with NULL.
Stripped(k) == [k EXCEPT !.bjd = NoBjd, !.dong = "", !.lot = NoLot]

LoadComplex(k) ==
    /\ \/ complex' = Put(k)
       \/ k \in Partial /\ complex' = Put(Stripped(k))
    /\ UNCHANGED <<sale, rent, batch, hurried>>

\* Fetched again, a trade keeps its link; what MOLIT gives is written anew.
Upserted(table, t, bjd) ==
    [u \in DOMAIN table \cup {t} |->
        IF u # t THEN table[u]
        ELSE [link |-> IF t \in DOMAIN table THEN table[t].link ELSE NoComplex, bjd |-> bjd]]

\* The trade of a building of its own: bjd_code is not among the columns.
Linked(table, t, id) ==
    [u \in DOMAIN table \cup {t} |->
        IF u # t THEN table[u]
        ELSE [link |-> id, bjd |-> IF t \in DOMAIN table THEN table[t].bjd ELSE NoBjd]]

LoadSale(t) ==
    /\ t.type = "apartment"
    /\ sale' = Upserted(sale, t, t.bjd)
    /\ UNCHANGED <<complex, rent, batch, hurried>>

LoadRent(t) ==
    /\ t.type = "apartment"
    /\ rent' = Upserted(rent, t, NoBjd)
    /\ UNCHANGED <<complex, sale, batch, hurried>>

LoadNonaptSale(t) ==
    /\ t.type # "apartment"
    /\ complex' = Put(Building(t, t.sgg))
    /\ sale' = Linked(sale, t, BuildingKey(t, t.sgg))
    /\ UNCHANGED <<rent, batch, hurried>>

LoadNonaptRent(t) ==
    /\ t.type # "apartment"
    /\ complex' = Put(Building(t, t.sgg))
    /\ rent' = Linked(rent, t, BuildingKey(t, t.sgg))
    /\ UNCHANGED <<sale, batch, hurried>>

JoinSales ==
    /\ Joined(sale, sale', complex)
    /\ hurried' = IF Kapt \subseteq complex THEN hurried
                  ELSE hurried \cup {t \in Pending(sale) : sale'[t].link # NoComplex}
    /\ UNCHANGED <<complex, rent, batch>>

\* The bjd codes of the complexes in that dong of that city.
BjdOf(sgg, dong) == {c.bjd : c \in {d \in complex : d.bjd # NoBjd /\ d.bjd.sgg = sgg
                                                    /\ d.dong = dong /\ dong # ""}}

FilledBjd(t, bjd) ==
    IF bjd = NoBjd /\ Cardinality(BjdOf(t.sgg, t.dong)) = 1
    THEN CHOOSE b \in BjdOf(t.sgg, t.dong) : TRUE
    ELSE bjd

Filled == [t \in DOMAIN rent |-> [link |-> rent[t].link, bjd |-> FilledBjd(t, rent[t].bjd)]]

\* The rent stage commits the codes first, then the links: a run killed in
\* between leaves the codes.
RentStage ==
    /\ rent' = Filled \/ Joined(Filled, rent', complex)
    /\ UNCHANGED <<complex, sale, batch, hurried>>

-----------------------------------------------------------------------------
(* Derivation of unregistered apartments.                                  *)

Orphans(name, table) ==
    {[table |-> name, trade |-> t, key |-> BuildingKey(t, table[t].bjd.sgg)] :
        t \in {u \in Pending(table) : IsDerivable(u, table[u].bjd)}}

DeriveRead ==
    /\ batch = {}
    /\ \/ batch' = Orphans("sale", sale)
       \/ batch' = Orphans("rent", rent)
    /\ UNCHANGED <<complex, sale, rent, hurried>>

LinkAlways(table, t, id) ==   \* mutant: the link is not looked at again
    [table EXCEPT ![t] = Relink(table[t], id)]

\* UPDATE ... SET complex_id WHERE txn_id AND complex_id IS NULL.
LinkIfNone(table, t, id) ==
    [table EXCEPT ![t] = IF table[t].link = NoComplex THEN Relink(table[t], id) ELSE table[t]]

\* Under the lock: the building first, then the trade unless it has a link.
DeriveFlush(b) ==
    /\ complex' = Put(Building(b.trade, b.key.sgg))
    /\ IF b.table = "sale"
       THEN sale' = LinkIfNone(sale, b.trade, b.key) /\ UNCHANGED rent
       ELSE rent' = LinkIfNone(rent, b.trade, b.key) /\ UNCHANGED sale
    /\ batch' = batch \ {b}
    /\ UNCHANGED hurried

\* The lock was busy for this batch, the limit is reached, or the run died.
DeriveDrop ==
    /\ batch # {}
    /\ batch' = {}
    /\ UNCHANGED <<complex, sale, rent, hurried>>

Next ==
    \/ \E k \in Kapt : LoadComplex(k)
    \/ \E t \in Sales : LoadSale(t) \/ LoadNonaptSale(t)
    \/ \E t \in Rents : LoadRent(t) \/ LoadNonaptRent(t)
    \/ JoinSales
    \/ RentStage
    \/ DeriveRead
    \/ \E b \in batch : DeriveFlush(b)
    \/ DeriveDrop

Spec == Init /\ [][Next]_vars

-----------------------------------------------------------------------------
Ids == {c.id : c \in complex}
OwnKey(t) == BuildingKey(t, t.sgg)

\* The rows of the buildings that exist, the master's as they are when complete:
\* a link outlives the code and the address of its row.
Full == {c \in complex : c.id.kind # "kapt"} \cup {k \in Kapt : k.id \in Ids}

\* A link names a building that exists: the trade's own, or one of the same
\* bjd code (without a code of the same dong) whose numbers it does not cross.
SaleSound(t) ==
    \/ sale[t].link = NoComplex
    \/ sale[t].link = OwnKey(t) /\ OwnKey(t) \in Ids
    \/ /\ t.type = "apartment"
       /\ \E c \in Full : /\ c.id = sale[t].link /\ ~Crossed(t.name, c.name)
                          /\ IF t.bjd = NoBjd THEN c.dong = t.dong ELSE c.bjd = t.bjd

RentSound(t) ==
    \/ rent[t].link = NoComplex
    \/ rent[t].link = OwnKey(t) /\ OwnKey(t) \in Ids
    \/ /\ t.type = "apartment"
       /\ \E c \in Full : /\ c.id = rent[t].link /\ ~Crossed(t.name, c.name)
                          /\ c.dong = t.dong

\* No dangling link, and none that crosses the number guard of fuzzy.py (to
\* another phase or block of the estate), whatever order loads, joins, the
\* filling of rent codes and derivations come in and whatever they overwrite.
\* A name with numbers on one side only passes the guard.  Of a rent, and of a
\* sale of old without a code, only the name of the dong is claimed, not the city.
LinksSound == (\A t \in DOMAIN sale : SaleSound(t)) /\ (\A t \in DOMAIN rent : RentSound(t))

\* A link is for good: a trade fetched again keeps it (_UPDATE_COLUMNS), and a
\* derivation that read the trade as pending before the join linked it does
\* not take it away (the guard of the UPDATE in _flush).
LinksStick ==
    [][/\ \A t \in DOMAIN sale : sale[t].link # NoComplex => sale'[t].link = sale[t].link
       /\ \A t \in DOMAIN rent : rent[t].link # NoComplex => rent'[t].link = rent[t].link]_vars

\* A sale with a code linked when the master was complete has the link the
\* master alone gives: buildings derived from trades, which share its dong, its
\* lot and even its name, never attract it nor make its match ambiguous.  A sale
\* without one is narrowed by the name of its dong, and there they do.
MatchIsReference ==
    \A t \in DOMAIN sale \ hurried :
        t.type = "apartment" /\ t.bjd # NoBjd =>
            sale[t].link \in {NoComplex, OwnKey(t)} \cup MatchIds(t, t.bjd, Kapt)

\* Apartments are matched with the K-apt master (nonapt_repo.py): the join never
\* links the trade of an apartment to a rowhouse or an officetel.
SameKind ==
    \A table \in {sale, rent}, c \in complex : \A t \in DOMAIN table :
        t.type = "apartment" /\ table[t].link = c.id => c.type = "apartment"

\* The report (recall_report.py) and the join agree: a pending trade it counts
\* as recoverable by the lot is one the next join links, and one it counts as
\* lost to the lot is linked by its name or not at all.
RecallExact ==
    \A t \in Pending(sale) :
        LET found == Matches(t, sale[t].bjd, complex)
        IN  IF t \in RecallBreakdown(sale, complex)["jibun_recoverable"] THEN found # {}
            ELSE found = BestMatch(t.name, Candidates(t, sale[t].bjd, complex))

=============================================================================

------------------------------- MODULE Search -------------------------------
(***************************************************************************)
(* What a query shows of the tables that Join fills: the list of the cards  *)
(* (search/repo.py, ordered by search/criteria.py and ranking.py), the map  *)
(* (markers, or clusters per administrative region) and the unit types of   *)
(* one building.  A query only reads, so these are operators over the state *)
(* of Join; the properties hold in every state loads and joins can reach.   *)
(*                                                                         *)
(* What Batches and Staging write about a building is the constant Facts:   *)
(* a missing row is a missing element, a NULL a missing attribute.  Areas   *)
(* are tenths of a square metre, scores are per mille, confidences per cent.*)
(***************************************************************************)
EXTENDS Join, Sequences, SequencesExt, FiniteSetsExt

CONSTANTS
    Facts,          \* function from some ids to what is known of the building
    Bare,           \* what is known of the others
    SchoolLike,     \* pairs <<query, school name>> school_similarity accepts
    IndividualMax,  \* MARKER_INDIVIDUAL_MAX
    MarkerCap,      \* MARKER_CAP
    Queries         \* the HardFilterSpecs a configuration asks

\* What the columns and the stored facts hold.
FactSane(f) ==
    /\ \A a \in DOMAIN f.attr : f.attr[a] \in Int
    /\ \A p \in DOMAIN f.near : f.near[p].dist \in Nat /\ f.near[p].count \in Nat
    /\ IsFiniteSet(f.units) /\ \A u \in f.units : u.net_area \in Nat
    /\ \A facts \in {f.gym, f.pet, f.pet_allowed} :
          IsFiniteSet(facts) /\ \A g \in facts : g.conf \in 0..100
    /\ \A g \in f.gym : g.state \in {"yes", "no", "unknown"}

ASSUME SaneFacts ==
    /\ FactSane(Bare) /\ \A id \in DOMAIN Facts : FactSane(Facts[id])
    /\ \A t \in Sales \cup Rents : t.net_area \in Nat /\ t.deal_date \in Nat

FactsOf(c) == IF c.id \in DOMAIN Facts THEN Facts[c.id] ELSE Bare
Located(c) == FactsOf(c).coord # <<>>

-----------------------------------------------------------------------------
(* Sums and orders.                                                        *)

\* The sum of a function with natural values, counted one by one.
Total(f) == Cardinality(UNION {{x} \X (1..f[x]) : x \in DOMAIN f})

SumOf(terms) ==
    LET sum[n \in 0..Len(terms)] == IF n = 0 THEN 0 ELSE sum[n - 1] + terms[n]
    IN  sum[Len(terms)]

\* A stable sort, greatest key first: a row comes after those before it.
Before(key, i, j) == key[i] > key[j] \/ (key[i] = key[j] /\ i < j)
Place(key, i) == Cardinality({j \in DOMAIN key : Before(key, j, i)}) + 1
SortedBy(rows, key) ==
    [p \in DOMAIN rows |-> rows[CHOOSE i \in DOMAIN rows : Place(key, i) = p]]

-----------------------------------------------------------------------------
(* HardFilterSpec: which conditions were given, and whether they are sane. *)

\* The price axes of a deal; those of the other deals are ignored.
Axes == [sale    |-> {"net_area", "deal_date", "price"},
         jeonse  |-> {"net_area", "deal_date", "deposit"},
         monthly |-> {"net_area", "deal_date", "deposit", "monthly_rent"}]

HasBox(s) == s.box # <<>>
HasTxnFilters(s) == (DOMAIN s.lo \cup DOMAIN s.hi) \cap Axes[s.deal] # {}

-----------------------------------------------------------------------------
(* WHERE.  An attribute a building lacks fails its condition; a distance    *)
(* nobody has computed yet passes it; a school must be assigned.            *)

InBox(s, f) ==
    /\ f.coord # <<>>
    /\ f.coord[1] \in s.box.lat[1]..s.box.lat[2]
    /\ f.coord[2] \in s.box.lng[1]..s.box.lng[2]

SchoolNames == UNION {FactsOf(c).schools : c \in complex}
ResolveAssigned(query) == {n \in SchoolNames : <<query, n>> \in SchoolLike}

ComplexWhere(s, c) ==
    LET f == FactsOf(c)
    IN  /\ \A a \in DOMAIN s.least : a \in DOMAIN f.attr /\ f.attr[a] >= s.least[a]
        /\ \A a \in DOMAIN s.most : a \in DOMAIN f.attr /\ f.attr[a] <= s.most[a]
        /\ \A a \in DOMAIN s.text : a \in DOMAIN f.text /\ s.text[a] = f.text[a]
        /\ s.type \in {"any", c.type}
        /\ HasBox(s) => InBox(s, f)
        /\ \A p \in DOMAIN s.maxdist \cap DOMAIN f.near : f.near[p].dist <= s.maxdist[p]
        /\ \A p \in DOMAIN s.mincount \cap DOMAIN f.near : f.near[p].count >= s.mincount[p]
        /\ s.assigned # <<>> => ResolveAssigned(s.assigned[1]) \cap f.schools # {}

TradeTable(s) == IF s.deal = "sale" THEN sale ELSE rent
AmountCol(s) == IF s.deal = "sale" THEN "price" ELSE "deposit"

TxnWhere(s, t) ==
    /\ \A a \in DOMAIN s.lo \cap Axes[s.deal] : t[a] >= s.lo[a]
    /\ \A a \in DOMAIN s.hi \cap Axes[s.deal] : t[a] <= s.hi[a]
    /\ s.deal # "sale" => t.rent_type = s.deal

TradesOf(s, c) == {t \in DOMAIN TradeTable(s) : TradeTable(s)[t].link = c.id}
MatchingTrades(s, c) == {t \in TradesOf(s, c) : TxnWhere(s, t)}

\* deal_date of the latest, 0 when there is none (NULL sorts last).
Latest(trades) == Max({0} \cup {t.deal_date : t \in trades})
Representative(trades) == CHOOSE t \in trades : t.deal_date = Latest(trades)

-----------------------------------------------------------------------------
(* Buckets of unit areas: areas closer than a tolerance are one unit type.  *)

AreaThreshold(a) == Min({40, Max({15, a \div 20})})

\* The areas that open a bucket: farther from the one below than allowed.
Opens(areas) ==
    {a \in areas : LET below == {b \in areas : b < a}
                   IN  below = {} \/ a - Max(below) > AreaThreshold(Max(below))}

BucketOf(a, areas) == Max({o \in Opens(areas) : o <= a})

MostOf(size) == {a \in DOMAIN size : \A b \in DOMAIN size : size[b] <= size[a]}

Bucket(s, group) ==
    LET areas == {t.net_area : t \in group}
        at(a) == {t \in group : t.net_area = a}
        frequent == MostOf([a \in areas |-> Cardinality(at(a))])
        recent == Representative(group)
        amounts == {t[AmountCol(s)] : t \in group}
    IN  [net_area |-> Min(MostOf([a \in frequent |-> Latest(at(a))])),
         transaction_count |-> Cardinality(group),
         recent_amount |-> recent[AmountCol(s)], recent_deal_date |-> recent.deal_date,
         amount_min |-> Min(amounts), amount_max |-> Max(amounts)]

ClusterAreaBuckets(s, trades) ==
    LET areas == {t.net_area : t \in trades}
    IN  {Bucket(s, {t \in trades : BucketOf(t.net_area, areas) = o}) : o \in Opens(areas)}

Away(b, u) == Max({b.net_area, u.net_area}) - Min({b.net_area, u.net_area})
Near(u, free) == {b \in free : Away(b, u) <= AreaThreshold(u.net_area)}
Nearest(u, free) == CHOOSE b \in Near(u, free) : \A d \in Near(u, free) : Away(b, u) <= Away(d, u)

GiveAgain(acc, u) ==   \* mutant: a bucket may be given twice
    IF Near(u, acc.free) = {}
    THEN [acc EXCEPT !.rows = @ \cup {[area |-> u.net_area, types |-> {u}, traded |-> {}]}]
    ELSE LET b == Nearest(u, acc.free)
         IN  [acc EXCEPT !.rows = @ \cup {[area |-> b.net_area, types |-> {u}, traded |-> {b}]}]

\* A type of the register takes the nearest bucket of trades still free.
Give(acc, u) ==
    IF Near(u, acc.free) = {}
    THEN [acc EXCEPT !.rows = @ \cup {[area |-> u.net_area, types |-> {u}, traded |-> {}]}]
    ELSE LET b == Nearest(u, acc.free)
         IN  [free |-> acc.free \ {b},
              rows |-> acc.rows \cup {[area |-> b.net_area, types |-> {u}, traded |-> {b}]}]

Given(buckets, catalog) ==
    LET given[n \in 0..Len(catalog)] ==
            IF n = 0 THEN [free |-> buckets, rows |-> {}] ELSE Give(given[n - 1], catalog[n])
    IN  given[Len(catalog)]

\* The rows of unit_type, one per area and source, as the enrichments left them:
\* a later one adds its areas to those of an earlier one, however near.
Register(c) ==
    LET types == SetToSeq(FactsOf(c).units)
    IN  SortedBy(types, [i \in DOMAIN types |-> -types[i].net_area])

\* The types of the register, smallest first, then the buckets left over.
UnitTypeCatalog(s, c) ==
    LET buckets == ClusterAreaBuckets(s, MatchingTrades(s, c))
        catalog == Register(c)
        given == Given(buckets, catalog)
    IN  [has_catalog |-> catalog # <<>>,
         types |-> given.rows \cup {[area |-> b.net_area, types |-> {}, traded |-> {b}] :
                                        b \in given.free}]

-----------------------------------------------------------------------------
(* Facts from the web, of which a building may have several: synthesize_*. *)

NoFact == [state |-> "none", conf |-> 0]
Primary(facts) == CHOOSE f \in facts : \A g \in facts : g.conf <= f.conf

SynthesizeGymTop(facts) ==   \* mutant: the surest source alone decides
    IF facts = {} THEN NoFact
    ELSE [state |-> Primary(facts).state, conf |-> Primary(facts).conf]

\* A yes of any source wins; the map and a document together weigh more.
SynthesizeGym(facts) ==
    LET yes == {f \in facts : f.state = "yes"}
        sources == {f.source : f \in {g \in yes : g.evidence}}
        top == Primary(yes).conf
    IN  IF facts = {} THEN NoFact
        ELSE IF yes = {} THEN [state |-> Primary(facts).state, conf |-> Primary(facts).conf]
        ELSE [state |-> "yes",
              conf |-> IF {"kakao_local", "web_verified"} \subseteq sources
                       THEN Min({97, top + 5}) ELSE top]

Synthesize(facts) ==
    IF facts = {} THEN NoFact
    ELSE [state |-> Primary(facts).state, conf |-> Primary(facts).conf]

\* The seeds of old carry another name for pet: read only without a new fact.
SynthesizePet(f) == Synthesize(IF f.pet # {} THEN f.pet ELSE f.pet_allowed)

-----------------------------------------------------------------------------
(* Soft criteria: REGISTRY, its scorers and the weighted sum.              *)

Neutral == 300
StateSignal(summary) ==
    CASE summary.state = "yes" -> 600 + 4 * summary.conf
      [] summary.state = "conditional" -> 500 + 3 * summary.conf
      [] summary.state = "no" -> 100
      [] OTHER -> Neutral

NumericSignal(v, cap) == 100 + (900 * Min({cap, v})) \div cap
DistSignal(d, cap) == 100 + (900 * (cap - Min({cap, d}))) \div cap

NumericCap == [elevator_count |-> 20, cctv_count |-> 200, parking_ratio |-> 15,
               household_count |-> 2000, top_floor |-> 40]
CountCap == [mart |-> 3, conv |-> 15]
DistCap == [elem_dist |-> 1000, mid_dist |-> 1500, high_dist |-> 2000, hospital |-> 1500,
            pharmacy |-> 1000, park |-> 1000]
SoftAble == {"gym", "pet", "subway_time", "has_daycare", "approval_year"}
                \cup DOMAIN NumericCap \cup DOMAIN CountCap \cup DOMAIN DistCap

HasData(key, c) ==
    LET f == FactsOf(c)
    IN  CASE key = "gym" -> SynthesizeGym(f.gym).state # "none"
          [] key = "pet" -> SynthesizePet(f).state # "none"
          [] key \in DOMAIN CountCap \cup DOMAIN DistCap -> key \in DOMAIN f.near
          [] OTHER -> key \in DOMAIN f.attr

Score(key, c) ==
    LET f == FactsOf(c)
    IN  IF ~HasData(key, c) THEN Neutral
        ELSE CASE key = "gym" -> StateSignal(SynthesizeGym(f.gym))
               [] key = "pet" -> StateSignal(SynthesizePet(f))
               [] key = "has_daycare" -> IF f.attr[key] = 1 THEN 1000 ELSE 100
               [] key = "subway_time" -> 100 + 225 * (4 - f.attr[key])
               [] key = "approval_year" -> NumericSignal(Max({1980, f.attr[key]}) - 1980, 45)
               [] key \in DOMAIN NumericCap -> NumericSignal(f.attr[key], NumericCap[key])
               [] key \in DOMAIN CountCap -> NumericSignal(f.near[key].count, CountCap[key])
               [] key \in DOMAIN DistCap -> DistSignal(f.near[key].dist, DistCap[key])

Status(key, c) ==
    IF ~HasData(key, c) THEN "unknown"
    ELSE IF Score(key, c) >= 600 THEN "match"
    ELSE IF Score(key, c) > Neutral THEN "partial" ELSE "miss"

\* What a HardFilterSpec and its SoftSpec are validated for.
Coherent(s) ==
    /\ \A a \in DOMAIN s.lo \cap DOMAIN s.hi : s.lo[a] <= s.hi[a]
    /\ \A a \in DOMAIN s.least \cap DOMAIN s.most : s.least[a] <= s.most[a]
    /\ HasBox(s) => s.box.lat[1] <= s.box.lat[2] /\ s.box.lng[1] <= s.box.lng[2]
    /\ s.limit \in 1..200
    /\ s.soft.criteria \in Seq(SoftAble \X Nat)
    /\ {s.soft.gym, s.soft.pet} \subseteq {"required", "preferred", "none"}

ASSUME SaneQueries == \A s \in Queries : Coherent(s)

PrefWeight == [required |-> 2, preferred |-> 1, none |-> 0]

\* Gym and pet by preference, the rest by weight; the active ones count.
Criteria(soft) ==
    <<<<"gym", PrefWeight[soft.gym]>>, <<"pet", PrefWeight[soft.pet]>>>> \o soft.criteria
ActiveCriteria(soft) == {i \in DOMAIN Criteria(soft) : Criteria(soft)[i][2] > 0}

\* A key given twice has the weights added up, and counts twice.
Weight(soft, key) ==
    SumOf([i \in DOMAIN Criteria(soft) |->
              IF Criteria(soft)[i][1] = key THEN Criteria(soft)[i][2] ELSE 0])

WeightedSum(soft, c) ==
    LET key(i) == Criteria(soft)[i][1]
    IN  SumOf([i \in DOMAIN Criteria(soft) |->
                  IF i \in ActiveCriteria(soft)
                  THEN Weight(soft, key(i)) * Score(key(i), c) ELSE 0])

\* Equal sums keep the order of the search.
RankCandidates(rows, soft) ==
    IF ActiveCriteria(soft) = {} THEN rows
    ELSE SortedBy(rows, [i \in DOMAIN rows |-> WeightedSum(soft, rows[i])])

-----------------------------------------------------------------------------
(* The list.                                                               *)

ListWhere(s, c) ==
    /\ ComplexWhere(s, c)
    /\ HasTxnFilters(s) => MatchingTrades(s, c) # {}

Hits(s) == {c \in complex : ListWhere(s, c)}

\* recent_sub: only a query with trade filters looks at the matching trades.
Recent(s, c) == Latest(IF HasTxnFilters(s) THEN MatchingTrades(s, c) ELSE TradesOf(s, c))

CutThenSorted(s) ==   \* mutant: the limit before the order
    LET hits == SetToSeq(Hits(s))
        cut == SubSeq(hits, 1, Min({s.limit, Len(hits)}))
    IN  SortedBy(cut, [i \in DOMAIN cut |-> Recent(s, cut[i])])

\* Sorted and cut in SQL; complex_id, which breaks ties, is any fixed order.
SearchComplexes(s) ==
    LET hits == SetToSeq(Hits(s))
        rows == SortedBy(hits, [i \in DOMAIN hits |-> Recent(s, hits[i])])
    IN  SubSeq(rows, 1, Min({s.limit, Len(hits)}))

RunSearch(s) == RankCandidates(SearchComplexes(s), s.soft)

-----------------------------------------------------------------------------
(* The map.                                                                *)

MarkerWhereUntraded(s, c) ==   \* mutant: the map ignores the trade filters
    ComplexWhere(s, c) /\ Located(c)

MarkerWhere(s, c) ==
    /\ ComplexWhere(s, c)
    /\ Located(c)
    /\ HasTxnFilters(s) => \E t \in TradesOf(s, c) : TxnWhere(s, t)

LSido == 10
LSigungu == 8
LDong == 5

ZoomBand(level) ==
    IF level >= LSido THEN "sido" ELSE IF level >= LSigungu THEN "sigungu"
    ELSE IF level >= LDong THEN "dong" ELSE "individual"

ZoomTo(admin) ==
    CASE admin = "sido" -> LSido - 1 [] admin = "sigungu" -> LSigungu - 1 [] OTHER -> LDong - 1

\* The columns a band groups by; every building of the viewport is in one group.
RegionKey(admin, c) ==
    LET f == FactsOf(c)
    IN  CASE admin = "sido" -> <<f.sido>>
          [] admin = "sigungu" -> <<f.sigungu>>
          [] admin = "dong" -> <<f.sigungu, c.dong>>

RegionClusters(rows, admin) ==
    {[region |-> key, admin |-> admin, zoom_to |-> ZoomTo(admin),
      count |-> Cardinality({c \in rows : RegionKey(admin, c) = key})] :
        key \in {RegionKey(admin, c) : c \in rows}}

Marker(s, c) ==
    LET trades == MatchingTrades(s, c)
    IN  [id |-> c.id, price |-> IF trades = {} THEN {} ELSE {Representative(trades)[AmountCol(s)]}]

\* Without a limit all of them; with one, the first in the order of complex_id.
FetchMarkers(s, rows, limit) ==
    LET ordered == SetToSeq(rows)
    IN  {Marker(s, ordered[i]) : i \in 1..Min({limit, Len(ordered)})}

MarkerFeed(s) ==
    LET rows == {c \in complex : MarkerWhere(s, c)}
        few == Cardinality(rows) <= IndividualMax
        band == ZoomBand(s.level)
        none == [mode |-> "markers", markers |-> {}, clusters |-> {}]
    IN  IF ~HasBox(s)
        THEN [none EXCEPT !.markers =
                 FetchMarkers(s, rows, IF few THEN Cardinality(rows) ELSE MarkerCap)]
        ELSE IF band = "individual" /\ few
        THEN [none EXCEPT !.markers = FetchMarkers(s, rows, Cardinality(rows))]
        ELSE [none EXCEPT !.mode = "clusters",
                          !.clusters = RegionClusters(rows, IF band = "individual" THEN "dong" ELSE band)]

-----------------------------------------------------------------------------
\* The list and the map, two queries with the same filters, show the same
\* buildings: each located hit has its marker, or is counted in exactly one
\* cluster, and a click on a cluster lands in the next finer band.  A query
\* without a box is left out: its markers are cut at MARKER_CAP.
ListMapAgree ==
    \A s \in Queries :
        LET feed == MarkerFeed(s)
            located == {c \in Hits(s) : Located(c)}
        IN  HasBox(s) =>
            IF feed.mode = "markers" THEN {m.id : m \in feed.markers} = {c.id : c \in located}
            ELSE /\ Total([k \in feed.clusters |-> k.count]) = Cardinality(located)
                 /\ \A k, l \in feed.clusters : k.region = l.region => k = l
                 /\ \A k \in feed.clusters :
                       ZoomBand(k.zoom_to) = CASE k.admin = "sido" -> "sigungu"
                                               [] k.admin = "sigungu" -> "dong"
                                               [] OTHER -> "individual"

LatestFirst(s, shown) ==
    LET date(c) == Latest(MatchingTrades(s, c))
    IN  \A i \in DOMAIN shown :
          /\ \A j \in DOMAIN shown : i < j => date(shown[i]) >= date(shown[j])
          /\ \A c \in Hits(s) \ Range(shown) : date(shown[i]) >= date(c)

\* The list is cut after it is sorted by the latest trade, before any trade of
\* a card is read: what a card shows as its latest trade is never older than
\* that of a hit the limit left out.  (Rents without a filter are sorted by the
\* latest rent of either kind, so for them it does not hold.)
MostRecent ==
    \A s \in Queries :
        s.deal = "sale" \/ HasTxnFilters(s) => LatestFirst(s, SearchComplexes(s))

\* In the catalog of unit types no trade is lost or shown under two types, and
\* every row of the register is there, once, traded or not.
EveryTradeShown ==
    \A s \in Queries, c \in complex :
        LET rows == UnitTypeCatalog(s, c).types
            count(r) == Total([b \in r.traded |-> b.transaction_count])
        IN  /\ Total([r \in rows |-> count(r)]) = Cardinality(MatchingTrades(s, c))
            /\ {r.types : r \in rows} \ {{}} = {{u} : u \in FactsOf(c).units}

DemotedOnly(soft, before, after) ==
    LET keys == {Criteria(soft)[i][1] : i \in ActiveCriteria(soft)}
        unknown(c) == \A k \in keys : Status(k, c) = "unknown"
        missed(c) == \A k \in keys : Status(k, c) = "miss" /\ Score(k, c) < Neutral
        seen(c) == \E f \in FactsOf(c).gym : f.state = "yes"
    IN  /\ Len(after) = Len(before) /\ Range(after) = Range(before)
        /\ keys # {} => \A i, j \in DOMAIN after :
              i < j => /\ ~(missed(after[i]) /\ unknown(after[j]))
                       /\ keys = {"gym"} /\ seen(after[j]) => seen(after[i])

\* Ranking never drops or doubles a hit, lets one nothing is known of pass one
\* known to miss, and a gym one source has seen is not denied by another.
DemoteNotExclude ==
    \A s \in Queries : DemotedOnly(s.soft, SearchComplexes(s), RunSearch(s))

=============================================================================

---------------------------- MODULE Batches_proofs ----------------------------
(***************************************************************************)
(* For any number of complexes, any script, batch size and limit: failed   *)
(* calls, quotas and kills leave nothing behind that was not answered.     *)
(* Sound is inductive once the complex that is written but not recorded    *)
(* (owed) is counted in, and every positive answer is known to be a row.   *)
(***************************************************************************)
EXTENDS Batches, TLAPS, FiniteSetTheorems

Said(c) == \E how \in {"near", "skip", "empty"} : <<c, "fact", how>> \in answered

SInv == /\ rows \cup buf \subseteq answered
        /\ \A c : <<c, "fact", "near">> \in answered => <<c, "fact", "near">> \in rows
        /\ \A c \in done : Said(c)
        /\ owed # None => Said(owed)

\* A step that stores what it is told, and forgets no fact.
LEMMA Tells ==
  ASSUME SInv, rows' \cup buf' \subseteq answered', answered \subseteq answered',
         \A c : <<c, "fact", "near">> \in answered' =>
                   <<c, "fact", "near">> \in answered \/ <<c, "fact", "near">> \in rows',
         \A c : <<c, "fact", "near">> \in rows => <<c, "fact", "near">> \in rows',
         \A c \in done' : c \in done \/ Said(c)' \/ (c = owed /\ owed # None),
         owed' # None => owed' = owed \/ Said(owed)'
  PROVE  SInv'
<1>1. \A c : Said(c) => Said(c)'
  BY DEF Said
<1>. QED  BY <1>1 DEF SInv

\* A step that hears nothing new, and loses only what is not committed.
LEMMA Keeps ==
  ASSUME SInv, answered' = answered, rows \subseteq rows', rows' \cup buf' \subseteq rows \cup buf,
         done' \subseteq done \cup ({owed} \ {None}), owed' \in {owed, None}
  PROVE  SInv'
BY DEF SInv, Said

LEMMA StopRunInv == ASSUME SInv, StopRun PROVE SInv'
BY Keeps DEF StopRun, Committed, world

-----------------------------------------------------------------------------
(* One complex, script by script.                                          *)

LEMMA StoredHow == \A c, how : /\ how = "near" => Stored(c, how) = {<<c, "fact", how>>}
                               /\ how # "near" => Stored(c, how) = {}
BY DEF Stored

LEMMA RefillInv == ASSUME SInv, NEW c, RefillTurn(c) PROVE SInv'
<1>1. ASSUME RefillAnswered(c) PROVE SInv'
  BY <1>1, Tells DEF RefillAnswered, Say, SInv, Said, None
<1>2. ASSUME RefillFailed(c) PROVE SInv'
  BY <1>2, Keeps, StopRunInv DEF RefillFailed, RefillNothing
<1>. QED  BY <1>1, <1>2 DEF RefillTurn

LEMMA LedgerInv == ASSUME SInv, NEW c, LedgerTurn(c) PROVE SInv'
<1>1. ASSUME LedgerAnswered(c) PROVE SInv'
  <2>1. PICK how \in LedgerAnswers(c) :
           answered' = answered \cup {<<c, "fact", how>>} /\ rows' = rows \cup Stored(c, how)
    BY <1>1 DEF LedgerAnswered, Say
  <2>2. how \in {"near", "empty"} /\ done' = done \cup {c} /\ UNCHANGED <<buf, owed>>
    BY <1>1 DEF LedgerAnswered, LedgerAnswers
  <2>3. CASE how = "near"
    BY <2>1, <2>2, <2>3, StoredHow, Tells DEF SInv, Said
  <2>4. CASE how = "empty"
    BY <2>1, <2>2, <2>4, StoredHow, Tells DEF SInv, Said
  <2>. QED  BY <2>2, <2>3, <2>4
<1>. QED  BY <1>1, StopRunInv DEF LedgerTurn, LedgerFailed

LEMMA UnitInv == ASSUME SInv, NEW c, UnitTurn(c) PROVE SInv'
<1>1. ASSUME UnitAnswered(c) PROVE SInv'
  <2>1. PICK how \in UnitAnswers(c) :
           answered' = answered \cup {<<c, "fact", how>>} /\ rows' = rows \cup Stored(c, how)
    BY <1>1 DEF UnitAnswered, Say
  <2>2. how \in {"near", "empty"} /\ owed' = c /\ UNCHANGED <<buf, done>>
    BY <1>1 DEF UnitAnswered, UnitAnswers
  <2>3. CASE how = "near"
    BY <2>1, <2>2, <2>3, StoredHow, Tells DEF SInv, Said
  <2>4. CASE how = "empty"
    BY <2>1, <2>2, <2>4, StoredHow, Tells DEF SInv, Said
  <2>. QED  BY <2>2, <2>3, <2>4
<1>. QED  BY <1>1, StopRunInv DEF UnitTurn, UnitFailed

LEMMA GymInv == ASSUME SInv, NEW c, GymTurn(c) PROVE SInv'
<1>1. ASSUME GymAnswered(c) PROVE SInv'
  <2>1. PICK how \in KakaoGet(c, "fact", {"near", "empty"}) :
           answered' = answered \cup {<<c, "fact", how>>} /\ rows' = rows \cup Stored(c, how)
    BY <1>1 DEF GymAnswered, Say
  <2>2. how \in {"near", "skip", "empty"} /\ owed' = c /\ UNCHANGED <<buf, done>>
    BY <1>1 DEF GymAnswered, KakaoGet
  <2>3. CASE how = "near"
    BY <2>1, <2>2, <2>3, StoredHow, Tells DEF SInv, Said
  <2>4. CASE how # "near"
    BY <2>1, <2>2, <2>4, StoredHow, Tells DEF SInv, Said
  <2>. QED  BY <2>3, <2>4
<1>2. ASSUME GymFailed(c) PROVE SInv'
  BY <1>2, Keeps, StopRunInv DEF GymFailed
<1>. QED  BY <1>1, <1>2 DEF GymTurn

LEMMA PoiInv == ASSUME SInv, NEW c, PoiTurn(c) PROVE SInv'
<1>1. ASSUME PoiAnswered(c) PROVE SInv'
  <2>1. PICK k \in Categories : \E how \in KakaoGet(c, k, {"near"}) :
           /\ answered' = answered \cup {<<c, k, how>>}
           /\ rows \subseteq rows' /\ rows' \cup buf' \subseteq rows \cup buf \cup {<<c, k, how>>}
    BY <1>1 DEF PoiAnswered, Say
  <2>2. k # "fact" /\ UNCHANGED <<done, owed>>
    BY <1>1, BatchConstants DEF PoiAnswered
  <2>. QED  BY <2>1, <2>2, Tells DEF SInv
<1>2. ASSUME PoiFailed(c) PROVE SInv'
  BY <1>2, Keeps, StopRunInv DEF PoiFailed, Committed
<1>. QED  BY <1>1, <1>2 DEF PoiTurn

LEMMA LocalInv == ASSUME SInv, NEW c, SchoolAnswered(c) \/ ZoneAnswered(c) PROVE SInv'
<1>1. ASSUME SchoolAnswered(c) PROVE SInv'
  <2>1. PICK new : /\ \A d, how : <<d, "fact", how>> \notin new
                   /\ rows' = rows \cup new /\ answered' = answered \cup new
    <3>. DEFINE new == {c} \X (Categories \ DoneCategories(c)) \X {"near"}
    <3>1. \A d, how : <<d, "fact", how>> \notin new
      BY BatchConstants
    <3>2. rows' = rows \cup new /\ answered' = answered \cup new
      BY <1>1 DEF SchoolAnswered
    <3>. QED  BY <3>1, <3>2
  <2>. QED  BY <1>1, <2>1, Tells DEF SchoolAnswered, SInv
<1>2. ASSUME ZoneAnswered(c) PROVE SInv'
  <2>1. PICK how : /\ rows' = {f \in rows : f[1] # c \/ f[2] # "zone"} \cup {<<c, "zone", how>>}
                   /\ answered' = answered \cup {<<c, "zone", how>>}
    BY <1>2 DEF ZoneAnswered, Say
  <2>2. \A d : <<d, "fact", "near">> \in rows => <<d, "fact", "near">> \in rows'
    BY <2>1
  <2>. QED  BY <1>2, <2>1, <2>2, Tells DEF ZoneAnswered, SInv
<1>. QED  BY <1>1, <1>2

LEMMA GeocodeInv == ASSUME SInv, NEW c, GeocodeAnswered(c) \/ GeocodeFailed(c) PROVE SInv'
<1>1. ASSUME GeocodeAnswered(c) PROVE SInv'
  BY <1>1, Tells DEF GeocodeAnswered, Say, SInv
<1>2. ASSUME GeocodeFailed(c) PROVE SInv'
  BY <1>2, Keeps DEF GeocodeFailed, GeocodeNothing, Committed
<1>. QED  BY <1>1, <1>2

-----------------------------------------------------------------------------
LEMMA OtherInv == ASSUME SInv, NEW c, OtherAdds(c) PROVE SInv'
<1>1. PICK new \in {{}, {<<c, "coord", "near">>}} :
         rows' = rows \cup new /\ answered' = answered \cup new /\ UNCHANGED <<buf, done, owed>>
  BY DEF OtherAdds
<1>. QED  BY <1>1, Tells DEF SInv

LEMMA SInit == Init => SInv
<1>. SUFFICES ASSUME Init PROVE SInv
  OBVIOUS
<1>1. \A c, how : <<c, "fact", how>> \notin known \X {"coord"} \X {"near"}
  OBVIOUS
<1>. QED  BY <1>1 DEF Init, SInv

LEMMA SNext == SInv /\ [Next]_vars => SInv'
<1>. SUFFICES ASSUME SInv, [Next]_vars PROVE SInv'
  OBVIOUS
<1>1. CASE Start \/ Acquire \/ Yield \/ Crash \/ OtherTakes \/ OtherReleases \/ UNCHANGED vars
  BY <1>1, Keeps DEF Start, Acquire, Yield, Crash, OtherTakes, OtherReleases, vars
<1>2. CASE EndBatch
  BY <1>2, Keeps DEF EndBatch, Committed
<1>3. CASE RecordMonth
  BY <1>3, Keeps DEF RecordMonth
<1>4. CASE \E c \in Complexes : Handle(c)
  BY <1>4, RefillInv, LedgerInv, UnitInv, GymInv, PoiInv, LocalInv, GeocodeInv DEF Handle
<1>5. CASE \E c \in Complexes : OtherAdds(c)
  BY <1>5, OtherInv
<1>. QED  BY <1>1, <1>2, <1>3, <1>4, <1>5 DEF Next

(* Whatever fails and whoever is killed: a row, a skip marker and a ledger *)
(* entry were answered, and a recorded complex that has data has it stored.*)
THEOREM RecordedIsAnswered == Spec => []Sound
<1>1. SInv => Sound
  BY DEF SInv, Sound, Said
<1>. QED  BY <1>1, SInit, SNext, PTL DEF Spec

-----------------------------------------------------------------------------
(* The rows of a complex are as many as its finished categories.           *)

Categorised == {f \in rows \cup buf : f[2] \in Categories}

UInv == job \in {"poi", "school"} =>
          /\ \A f \in Categorised : f = <<f[1], f[2], f[3]>> /\ f[3] \in {"near", "skip"}
          /\ \A f, g \in Categorised : f[1] = g[1] /\ f[2] = g[2] => f = g

\* A step that stores nothing but answers for categories not yet finished.
LEMMA AddsOne ==
  ASSUME UInv, job' = job, NEW c, NEW levels, NEW how,
         \A k \in levels : k \in Categories => how \in {"near", "skip"} /\ k \notin DoneCategories(c),
         \A f \in rows' \cup buf' : f \in rows \cup buf \/ (\E k \in levels : f = <<c, k, how>>)
  PROVE  UInv'
<1>. SUFFICES ASSUME job \in {"poi", "school"}
              PROVE  /\ \A f \in Categorised' : f = <<f[1], f[2], f[3]>> /\ f[3] \in {"near", "skip"}
                     /\ \A f, g \in Categorised' : f[1] = g[1] /\ f[2] = g[2] => f = g
  BY DEF UInv
<1>1. \A f \in Categorised' : f \in Categorised
                            \/ (\E k \in levels : k \in Categories /\ f = <<c, k, how>>)
  BY DEF Categorised
<1>2. ASSUME NEW f \in Categorised, f[1] = c PROVE f[2] \in DoneCategories(c)
  <2>1. f = <<c, f[2], f[3]>> /\ f[3] \in {"near", "skip"} /\ f[2] \in Categories
    BY <1>2 DEF UInv, Categorised
  <2>2. f \in rows \cup buf
    BY DEF Categorised
  <2>. QED  BY <2>1, <2>2 DEF DoneCategories
<1>3. \A f \in Categorised' : f = <<f[1], f[2], f[3]>> /\ f[3] \in {"near", "skip"}
  BY <1>1 DEF UInv
<1>4. ASSUME NEW f \in Categorised', NEW g \in Categorised', f[1] = g[1], f[2] = g[2] PROVE f = g
  <2>1. CASE f \in Categorised /\ g \in Categorised
    BY <1>4, <2>1 DEF UInv
  <2>2. CASE f \notin Categorised /\ g \notin Categorised
    BY <1>1, <1>4, <2>2
  <2>3. CASE f \in Categorised /\ g \notin Categorised
    BY <1>1, <1>2, <1>4, <2>3
  <2>4. CASE f \notin Categorised /\ g \in Categorised
    BY <1>1, <1>2, <1>4, <2>4
  <2>. QED  BY <2>1, <2>2, <2>3, <2>4
<1>. QED  BY <1>3, <1>4

LEMMA AddsNone ==
  ASSUME UInv, job' = job, rows' \cup buf' \subseteq rows \cup buf
  PROVE  UInv'
BY DEF UInv, Categorised

LEMMA UInit == Init => UInv
BY BatchConstants DEF Init, UInv, Categorised

LEMMA UNext == UInv /\ [Next]_vars => UInv'
<1>. SUFFICES ASSUME UInv, [Next]_vars PROVE UInv'
  OBVIOUS
<1>1. job' = job
  BY DEF Next, vars, world, Start, Acquire, Yield, EndBatch, RecordMonth, Crash, Handle,
         RefillTurn, RefillAnswered, RefillNothing, RefillFailed, LedgerTurn, LedgerAnswered, LedgerFailed,
         UnitTurn, UnitAnswered, UnitFailed, GymTurn, GymAnswered, GymFailed, PoiTurn,
         PoiAnswered, PoiFailed, SchoolAnswered, ZoneAnswered, GeocodeAnswered, GeocodeNothing, GeocodeFailed,
         StopRun, OtherTakes, OtherAdds, OtherReleases
<1>. SUFFICES ASSUME job \in {"poi", "school"} PROVE UInv'
  BY <1>1 DEF UInv
<1>2. CASE Start \/ Acquire \/ Yield \/ Crash \/ OtherTakes \/ OtherReleases \/ EndBatch
           \/ RecordMonth \/ UNCHANGED vars
  BY <1>1, <1>2, AddsNone DEF Start, Acquire, Yield, Crash, OtherTakes, OtherReleases, EndBatch,
     RecordMonth, Committed, vars
<1>3. ASSUME NEW c \in Complexes, PoiAnswered(c) PROVE UInv'
  <2>1. PICK k \in Categories \ DoneCategories(c) : \E how \in KakaoGet(c, k, {"near"}) :
           rows' \cup buf' \subseteq rows \cup buf \cup {<<c, k, how>>}
    BY <1>3 DEF PoiAnswered
  <2>2. PICK how \in KakaoGet(c, k, {"near"}) :
           rows' \cup buf' \subseteq rows \cup buf \cup {<<c, k, how>>}
    BY <2>1
  <2>3. how \in {"near", "skip"}
    BY DEF KakaoGet
  <2>4. \A f \in rows' \cup buf' : f \in rows \cup buf \/ (\E l \in {k} : f = <<c, l, how>>)
    BY <2>2
  <2>. QED  BY <1>1, <2>3, <2>4, AddsOne
<1>4. ASSUME NEW c \in Complexes, PoiFailed(c) PROVE UInv'
  BY <1>1, <1>4, AddsNone DEF PoiFailed, Committed, StopRun
<1>5. ASSUME NEW c \in Complexes, SchoolAnswered(c) PROVE UInv'
  <2>. DEFINE levels == Categories \ DoneCategories(c)
  <2>1. \A f \in rows' \cup buf' : f \in rows \cup buf \/ (\E k \in levels : f = <<c, k, "near">>)
    BY <1>5 DEF SchoolAnswered
  <2>2. \A k \in levels : k \in Categories => "near" \in {"near", "skip"} /\ k \notin DoneCategories(c)
    OBVIOUS
  <2>. HIDE DEF levels
  <2>. QED  BY <1>1, <2>1, <2>2, AddsOne
<1>6. CASE \E c \in Complexes : Handle(c)
  BY <1>3, <1>4, <1>5, <1>6 DEF Handle, RefillTurn, LedgerTurn, UnitTurn, GymTurn, PoiTurn
<1>7. ASSUME NEW c \in Complexes, OtherAdds(c) PROVE UInv'
  <2>. DEFINE levels == {"coord"}
  <2>1. \A f \in rows' \cup buf' : f \in rows \cup buf \/ (\E k \in levels : f = <<c, k, "near">>)
    BY <1>7 DEF OtherAdds
  <2>2. \A k \in levels : k \in Categories => "near" \in {"near", "skip"} /\ k \notin DoneCategories(c)
    BY BatchConstants
  <2>. HIDE DEF levels
  <2>. QED  BY <1>1, <2>1, <2>2, AddsOne
<1>. QED  BY <1>2, <1>6, <1>7 DEF Next

\* A finite set and the rows that name each of its members once.
LEMMA OncePerCategory ==
  ASSUME UInv, job \in {"poi", "school"}, NEW c
  PROVE  Cardinality({f \in rows \cup buf : f[1] = c /\ f[2] \in Categories})
            = Cardinality(DoneCategories(c))
<1>. DEFINE S == {f \in rows \cup buf : f[1] = c /\ f[2] \in Categories}
            D == DoneCategories(c)
            row == [k \in D |-> CHOOSE f \in S : f[2] = k]
<1>1. IsFiniteSet(D)
  BY FS_Subset, BatchConstants DEF DoneCategories
<1>2. \A f \in S : f = <<c, f[2], f[3]>> /\ f[2] \in D
  BY DEF UInv, Categorised, DoneCategories
<1>3. \A f, g \in S : f[2] = g[2] => f = g
  BY DEF UInv, Categorised
<1>4. \A k \in D : \E f \in S : f[2] = k
  <2>. SUFFICES ASSUME NEW k \in D PROVE \E f \in S : f[2] = k
    OBVIOUS
  <2>1. PICK how : <<c, k, how>> \in rows \cup buf /\ k \in Categories
    BY DEF DoneCategories
  <2>2. <<c, k, how>> \in S /\ <<c, k, how>>[2] = k
    BY <2>1
  <2>. QED  BY <2>2
<1>. HIDE DEF S, D
<1>5. \A k \in D : row[k] \in S /\ row[k][2] = k
  BY <1>4
<1>6. row \in [D -> S] /\ \A a, b \in D : row[a] = row[b] => a = b
  BY <1>5
<1>7. \A f \in S : f[2] \in D /\ row[f[2]] = f
  BY <1>2, <1>3, <1>5
<1>8. ExistsBijection(D, S)
  <2>. HIDE DEF row
  <2>1. row \in Injection(D, S)
    BY <1>6 DEF Injection, IsInjective
  <2>2. row \in Surjection(D, S)
    BY <1>6, <1>7 DEF Surjection
  <2>. QED  BY <2>1, <2>2 DEF ExistsBijection, Bijection
<1>. QED  BY <1>1, <1>8, FS_Bijection DEF S, D

(* The SELECT that counts rows and the loop that names categories agree,   *)
(* so no complex with all categories is selected for ever and none that    *)
(* lacks one is passed over.                                               *)
THEOREM CountsAgree == Spec => []CountMeansDone
<1>1. UInv => CountMeansDone
  BY OncePerCategory DEF CountMeansDone
<1>. QED  BY <1>1, UInit, UNext, PTL DEF Spec

=============================================================================

------------------------------- MODULE Batches -------------------------------
(***************************************************************************)
(* The scripts that fill attributes of the complexes already loaded: they  *)
(* select the complexes that lack something, in the order of complex_id,   *)
(* ask a portal about each, write what it answers and remember that it     *)
(* answered, all in batches under the shared lock.                         *)
(*                                                                         *)
(*   refill   refill_kapt_fields.py        ledger  enrich_building_ledger  *)
(*   unit     enrich_unit_type.py          gym     enrich_gym_kakao.py     *)
(*   poi      enrich_poi.py                geocode backfill_geocode.sh     *)
(*   school   load_school_locations.py     zone    load_school_zones.py    *)
(*                                                                         *)
(* The first four read what is missing once and cut it into batches; the   *)
(* others select again for every batch.  A behaviour runs one of them over *)
(* and over.  Which batch waits for which holder of the lock is the        *)
(* business of SharedLock: here the lock is free, ours, or another's.      *)
(***************************************************************************)
EXTENDS Naturals, Sequences, SequencesExt, FiniteSets

CONSTANTS
    N,           \* complexes, numbered in the order of complex_id
    Early,       \* how many of them come first from outside, late
    Limit,       \* --limit: complexes of one run
    Chunk,       \* --batch-size / --chunk: complexes per hold of the lock
    Categories,  \* CATEGORIES of poi/proximity.py, LEVEL_ORDER of schools
    MaxKills,    \* bound on killed runs
    NoKey,       \* complexes whose key yields no jibun or no bjdong code
    BadRows,     \* pairs <<complex, what>> Kakao answers with 400, however often asked
    Silent,      \* complexes K-apt, or the geocoder, has nothing about, however often asked
    Jobs         \* the scripts a configuration looks at

Complexes == 1..N

ASSUME BatchConstants ==
    /\ N \in Nat /\ Early \in 0..N /\ Limit \in Nat \ {0} /\ Chunk \in Nat \ {0}
    /\ NoKey \subseteq Complexes /\ Silent \subseteq Complexes /\ MaxKills \in Nat
    /\ BadRows \subseteq Complexes \X (Categories \cup {"fact"})
    /\ Jobs \subseteq {"refill", "ledger", "unit", "gym", "poi", "geocode", "school", "zone"}
    /\ IsFiniteSet(Categories) /\ "fact" \notin Categories /\ "coord" \notin Categories

None == 0

VARIABLES
    job,       \* the script of this behaviour
    known,     \* rows of table complex
    rows,      \* committed facts <<complex, what, "near" or "skip">>
    buf,       \* written, not committed
    done,      \* complexes in ingest_progress under the script's stage
    owed,      \* complex written but not yet recorded in the ledger
    pc,        \* "off", "wait" (for the lock), "work"
    todo,      \* complexes left of the batch in hand
    rest,      \* complexes of later batches (scripts that select once)
    left,      \* complexes the run may still finish (scripts that re-select)
    moved,     \* complexes this batch has finished
    stopped,   \* geocode: the portal refused during this batch
    lock,      \* "free", "run", "other"
    answered,  \* history: what the portals, or the local tables, have said
    kills      \* history: runs killed so far

vars == <<job, known, rows, buf, done, owed, pc, todo, rest, left, moved, stopped,
          lock, answered, kills>>
world == <<job, known, kills>>
progress == <<rest, left>>

Snapshot == {"refill", "ledger", "unit", "gym"}

Kinds == Categories \cup {"fact", "coord", "zone"}
Facts == Complexes \X Kinds \X {"near", "skip", "empty"}

TypeOK ==
    /\ job \in Jobs /\ known \subseteq Complexes
    /\ rows \subseteq Facts /\ buf \subseteq Facts /\ answered \subseteq Facts
    /\ done \subseteq Complexes /\ owed \in Complexes \cup {None}
    /\ pc \in {"off", "wait", "work"}
    /\ todo \in Seq(Complexes) /\ rest \in Seq(Complexes)
    /\ left \in 0..Limit /\ moved \in Nat
    /\ stopped \in BOOLEAN /\ kills \in 0..MaxKills
    /\ lock \in {"free", "run", "other"}

Init ==
    /\ job \in Jobs
    /\ known = Early + 1 .. N
    /\ rows = (IF job = "geocode" THEN {} ELSE known \X {"coord"} \X {"near"})
    /\ answered = rows
    /\ buf = {} /\ done = {} /\ owed = None
    /\ pc = "off" /\ todo = <<>> /\ rest = <<>> /\ left = 0 /\ moved = 0
    /\ stopped = FALSE /\ lock = "free" /\ kills = 0

-----------------------------------------------------------------------------
(* What the SELECTs return.                                                *)

Located == {c \in known : <<c, "coord", "near">> \in rows}

RefillPending == known \ done                    \* all_complex_ids minus refilled_ids
LedgerPending == known \ done                    \* nonapt_targets minus enriched_ids
UnitPending == known \ done
GymPending == Located \ done
GeocodePending == known \ Located

(* A category counts as done whether it has an answer or a skip marker:    *)
(* the suffix is stripped.                                                 *)
DoneCategoriesUnstripped(c) ==   \* mutant: the marker keeps its suffix
    {k \in Categories : <<c, k, "near">> \in rows \cup buf}
DoneCategories(c) ==
    {k \in Categories : \E how \in {"near", "skip"} : <<c, k, how>> \in rows \cup buf}

(* The SELECT counts rows, markers included, and knows no category.        *)
PoiPending ==
    {c \in Located : Cardinality({f \in rows : f[1] = c /\ f[2] \in Categories})
                        < Cardinality(Categories)}
SchoolPending ==
    {c \in Located : Cardinality({f \in rows : f[1] = c /\ f[2] \in Categories})
                        < Cardinality(Categories)}
ZonePending == {c \in Located : ~ \E f \in rows : f[1] = c /\ f[2] = "zone"}

Pending ==
    CASE job = "refill" -> RefillPending
      [] job = "ledger" -> LedgerPending
      [] job = "unit" -> UnitPending
      [] job = "gym" -> GymPending
      [] job = "geocode" -> GeocodePending
      [] job = "poi" -> PoiPending
      [] job = "school" -> SchoolPending
      [] job = "zone" -> ZonePending

Ordered(S) == SetToSortSeq(S, <)                 \* ORDER BY complex_id
First(s, n) == SubSeq(s, 1, IF n < Len(s) THEN n ELSE Len(s))
Smaller(a, b) == IF a < b THEN a ELSE b

-----------------------------------------------------------------------------
(* A run begins, takes the lock for a batch, gives it back.                *)

SnapshotRun ==
    rest' = First(Ordered(Pending), Limit) /\ left' = 0
SweepRun ==
    rest' = <<>> /\ left' = Limit
ChunkRun ==
    rest' = <<>> /\ left' = 0

RefillMain == job = "refill" /\ SnapshotRun
LedgerMain == job = "ledger" /\ SnapshotRun
UnitMain == job = "unit" /\ SnapshotRun
GymMain == job = "gym" /\ SnapshotRun
PoiMain == job = "poi" /\ SweepRun
SchoolMain == job = "school" /\ SweepRun
ZoneMain == job = "zone" /\ SweepRun
GeocodeMain == job = "geocode" /\ ChunkRun

Start ==
    /\ pc = "off"
    /\ pc' = "wait"
    /\ \/ RefillMain \/ LedgerMain \/ UnitMain \/ GymMain
       \/ PoiMain \/ SchoolMain \/ ZoneMain \/ GeocodeMain
    /\ UNCHANGED <<world, rows, buf, done, owed, todo, moved, stopped, lock, answered>>

Acquire ==
    /\ pc = "wait" /\ lock = "free"
    /\ lock' = "run" /\ pc' = "work"
    /\ IF job \in Snapshot
       THEN /\ todo' = First(rest, Chunk)
            /\ rest' = SubSeq(rest, Chunk + 1, Len(rest))
       ELSE /\ todo' = First(Ordered(Pending),
                             IF job = "geocode" THEN Chunk ELSE Smaller(Chunk, left))
            /\ UNCHANGED rest
    /\ UNCHANGED <<world, rows, buf, done, owed, left, moved, stopped, answered>>

(* ShlockBatch: max_spin is over, the run yields.  The geocode driver      *)
(* waits on instead.                                                       *)
Yield ==
    /\ pc = "wait" /\ lock # "free" /\ job # "geocode"
    /\ pc' = "off" /\ rest' = <<>> /\ left' = 0
    /\ UNCHANGED <<world, rows, buf, done, owed, todo, moved, stopped, lock,
                   answered>>

Committed == rows' = rows \cup buf /\ buf' = {}

(* End of `with lock()`: what the run does next depends on the script.     *)
EndSnapshotBatch ==
    /\ job \in Snapshot
    /\ pc' = (IF rest = <<>> THEN "off" ELSE "wait")
    /\ UNCHANGED left
EndSweepBatchForever ==   \* mutant: a batch without progress does not end the run
    /\ job \in {"poi", "school", "zone"}
    /\ pc' = (IF left = moved THEN "off" ELSE "wait")
    /\ left' = left - moved
EndSweepBatch ==
    /\ job \in {"poi", "school", "zone"}
    /\ pc' = (IF moved = 0 \/ left = moved THEN "off" ELSE "wait")  \* "[done]", or the limit
    /\ left' = (IF moved = 0 THEN 0 ELSE left - moved)
EndGeocodeBatch ==
    LET remaining == known \ {c \in known : <<c, "coord", "near">> \in rows \cup buf}
        over == remaining = {} \/ (moved = 0 /\ ~stopped)
    IN  /\ job = "geocode"
        /\ pc' = (IF over THEN "off" ELSE "wait")
        /\ UNCHANGED left

EndBatch ==
    /\ pc = "work" /\ todo = <<>> /\ owed = None
    /\ EndSnapshotBatch \/ EndSweepBatch \/ EndGeocodeBatch
    /\ Committed
    /\ lock' = "free" /\ moved' = 0 /\ stopped' = FALSE
    /\ UNCHANGED <<world, done, owed, todo, rest, answered>>

-----------------------------------------------------------------------------
(* One complex.  Each disjunct is an answer of the portal.                 *)

At(c) == pc = "work" /\ todo # <<>> /\ c = Head(todo) /\ owed = None
NextComplex == todo' = Tail(todo)
Say(c, k, how) == answered' = answered \cup {<<c, k, how>>}

(* The handler of an exhausted quota: commit, leave the batch, end the run *)
(* (`return` inside `with lock()` gives the lock back).                    *)
StopRun ==
    /\ Committed
    /\ pc' = "off" /\ todo' = <<>> /\ rest' = <<>> /\ lock' = "free"
    /\ left' = 0 /\ moved' = 0
    /\ UNCHANGED <<world, done, owed, stopped, answered>>

(* upsert_complex commits by itself, mark_refilled follows.                *)
RefillAnswered(c) ==
    /\ At(c) /\ c \notin Silent
    /\ rows' = rows \cup {<<c, "fact", "near">>} /\ owed' = c
    /\ Say(c, "fact", "near")
    /\ UNCHANGED <<world, buf, done, pc, todo, progress, moved, stopped, lock>>
RefillNothing(c) ==                          \* None: not recorded
    /\ At(c) /\ NextComplex
    /\ UNCHANGED <<world, rows, buf, done, owed, pc, progress, moved, stopped, lock,
                   answered>>
RefillFailed(c) ==
    \/ RefillNothing(c)
    \/ At(c) /\ StopRun                      \* PublicDataError
RefillTurn(c) == job = "refill" /\ (RefillAnswered(c) \/ RefillFailed(c))

(* enrich_building leaves the commit to record_month: one transaction.     *)
LedgerAnswers(c) ==                  \* enriched, or no_jibun, no_bjdong, no_match
    IF c \in NoKey THEN {"empty"} ELSE {"near", "empty"}
Stored(c, how) == {f \in {<<c, "fact", how>>} : how = "near"}
LedgerAnswered(c) ==
    /\ At(c) /\ NextComplex
    /\ \E how \in LedgerAnswers(c) :
          Say(c, "fact", how) /\ rows' = rows \cup Stored(c, how)
    /\ done' = done \cup {c}
    /\ UNCHANGED <<world, buf, owed, pc, progress, moved, stopped, lock>>
LedgerFailed(c) == c \notin NoKey /\ At(c) /\ StopRun   \* PublicDataError, HTTPError
LedgerTurn(c) == job = "ledger" /\ (LedgerAnswered(c) \/ LedgerFailed(c))

(* upsert_unit_types and write_facts commit by themselves; an empty answer *)
(* writes nothing and is recorded all the same.                            *)
UnitAnswers(c) ==                    \* enriched, or no_jibun, no_bjdong, no_units
    IF c \in NoKey THEN {"empty"} ELSE {"near", "empty"}
UnitAnswered(c) ==
    /\ At(c)
    /\ \E how \in UnitAnswers(c) :
          Say(c, "fact", how) /\ rows' = rows \cup Stored(c, how)
    /\ owed' = c
    /\ UNCHANGED <<world, buf, done, pc, todo, progress, moved, stopped, lock>>
UnitFailed(c) == c \notin NoKey /\ At(c) /\ StopRun
UnitTurn(c) == job = "unit" /\ (UnitAnswered(c) \/ UnitFailed(c))

(* How a call to Kakao ends, after its retries: an answer, BadRequestError  *)
(* ("skip") for the rows it refuses however often asked; or else the       *)
(* failures, QuotaExceeded (429, or 400 with code -10) and TransientError. *)
KakaoGet(c, what, found) == IF <<c, what>> \in BadRows THEN {"skip"} ELSE found

GymAnswered(c) ==
    /\ At(c)
    /\ \E how \in KakaoGet(c, "fact", {"near", "empty"}) :
          Say(c, "fact", how) /\ rows' = rows \cup Stored(c, how)
    /\ owed' = c
    /\ UNCHANGED <<world, buf, done, pc, todo, progress, moved, stopped, lock>>
GymFailedRecorded(c) ==   \* mutant: a quota refusal is recorded as processed
    /\ At(c) /\ owed' = c
    /\ UNCHANGED <<world, rows, buf, done, pc, todo, progress, moved, stopped, lock,
                   answered>>
GymFailed(c) ==
    \/ /\ At(c) /\ NextComplex               \* TransientError
       /\ UNCHANGED <<world, rows, buf, done, owed, pc, progress, moved, stopped, lock,
                      answered>>
    \/ At(c) /\ StopRun                      \* QuotaExceeded
GymTurn(c) == job = "gym" /\ (GymAnswered(c) \/ GymFailed(c))

(* record_month in the scripts whose write has committed before.           *)
RecordMonthIfFound ==   \* mutant: a complex without an answer is not recorded
    /\ owed # None
    /\ done' = {c \in done \cup {owed} : c = owed => <<c, "fact", "near">> \in rows}
    /\ owed' = None
    /\ NextComplex
    /\ UNCHANGED <<world, rows, buf, pc, progress, moved, stopped, lock, answered>>
RecordMonth ==
    /\ owed # None
    /\ done' = done \cup {owed} /\ owed' = None
    /\ NextComplex
    /\ UNCHANGED <<world, rows, buf, pc, progress, moved, stopped, lock, answered>>

-----------------------------------------------------------------------------
(* Kakao, category by category; the connection sees its own writes.        *)

PoiAnswered(c) ==
    /\ \E k \in Categories \ DoneCategories(c) :
       \E how \in KakaoGet(c, k, {"near"}) :
          LET written == buf \cup {<<c, k, how>>}
          IN  /\ At(c) /\ Say(c, k, how)
              /\ IF Categories = DoneCategories(c) \cup {k}
                 THEN rows' = rows \cup written /\ buf' = {} /\ NextComplex /\ moved' = moved + 1
                 ELSE buf' = written /\ UNCHANGED <<rows, todo, moved>>
    /\ UNCHANGED <<world, done, owed, pc, progress, stopped, lock>>
PoiFailed(c) ==
    \E k \in Categories \ DoneCategories(c) :
       /\ At(c)
       /\ \/ /\ Committed /\ NextComplex          \* TransientError: the rest of c, next run
             /\ UNCHANGED <<world, done, owed, pc, progress, moved, stopped, lock,
                            answered>>
          \/ StopRun                               \* QuotaExceeded
PoiTurn(c) == job = "poi" /\ (PoiAnswered(c) \/ PoiFailed(c))

(* The local tables: all missing levels at once, one row or a sentinel.    *)
SchoolAnswered(c) ==
    /\ At(c) /\ NextComplex
    /\ LET levels == Categories \ DoneCategories(c)
       IN  /\ rows' = rows \cup ({c} \X levels \X {"near"})
           /\ answered' = answered \cup ({c} \X levels \X {"near"})
    /\ moved' = moved + 1
    /\ UNCHANGED <<world, buf, done, owed, pc, progress, stopped, lock>>

ZoneAnswered(c) ==
    /\ At(c) /\ NextComplex
    /\ \E how \in {"near", "skip"} :             \* "skip": outside every zone
          /\ rows' = {f \in rows : f[1] # c \/ f[2] # "zone"} \cup {<<c, "zone", how>>}
          /\ Say(c, "zone", how)
    /\ moved' = moved + 1
    /\ UNCHANGED <<world, buf, done, owed, pc, progress, stopped, lock>>

(* Coordinates are committed by fifties and when the chunk ends.           *)
GeocodeAnswered(c) ==
    /\ At(c) /\ NextComplex /\ c \notin Silent
    /\ buf' = buf \cup {<<c, "coord", "near">>} /\ moved' = moved + 1
    /\ Say(c, "coord", "near")
    /\ UNCHANGED <<world, rows, done, owed, pc, progress, stopped, lock>>
GeocodeNothing(c) ==                         \* no result: lat stays NULL
    /\ At(c) /\ NextComplex
    /\ UNCHANGED <<world, rows, buf, done, owed, pc, progress, moved, stopped, lock,
                   answered>>
GeocodeFailed(c) ==
    \/ GeocodeNothing(c)
    \/ /\ At(c) /\ Committed                 \* HTTPError: stopped = 1
       /\ todo' = <<>> /\ stopped' = TRUE
       /\ UNCHANGED <<world, done, owed, pc, progress, moved, lock, answered>>

Answered(c) ==
    \/ job = "refill" /\ RefillAnswered(c)
    \/ job = "ledger" /\ LedgerAnswered(c)
    \/ job = "unit" /\ UnitAnswered(c)
    \/ job = "gym" /\ GymAnswered(c)
    \/ job = "poi" /\ PoiAnswered(c)
    \/ job = "school" /\ SchoolAnswered(c)
    \/ job = "zone" /\ ZoneAnswered(c)
    \/ job = "geocode" /\ GeocodeAnswered(c)
NothingKnown(c) ==
    \/ job = "refill" /\ RefillNothing(c)
    \/ job = "geocode" /\ GeocodeNothing(c)
Handle(c) ==
    \/ RefillTurn(c) \/ LedgerTurn(c) \/ UnitTurn(c) \/ GymTurn(c) \/ PoiTurn(c)
    \/ job = "school" /\ SchoolAnswered(c)
    \/ job = "zone" /\ ZoneAnswered(c)
    \/ job = "geocode" /\ (GeocodeAnswered(c) \/ GeocodeFailed(c))

-----------------------------------------------------------------------------
(* The process is killed, or an exception nobody catches ends it: what is  *)
(* not committed is lost, and the lock of a dead PID is anyone's.          *)
Crash ==
    /\ pc # "off" /\ kills < MaxKills
    /\ kills' = kills + 1
    /\ pc' = "off" /\ todo' = <<>> /\ rest' = <<>> /\ buf' = {} /\ owed' = None
    /\ lock' = (IF lock = "run" THEN "free" ELSE lock)
    /\ left' = 0 /\ moved' = 0 /\ stopped' = FALSE
    /\ UNCHANGED <<job, known, rows, done, answered>>

(* Another client of the lock; the ingestion run among them adds complexes *)
(* and finds coordinates, with the same geocoder.                          *)
Mute == IF job \in {"refill", "geocode"} THEN Silent ELSE {}

OtherTakes ==
    /\ lock = "free"
    /\ lock' = "other"
    /\ UNCHANGED <<world, rows, buf, done, owed, pc, todo, progress, moved, stopped,
                   answered>>
OtherAdds(c) ==
    /\ lock = "other" /\ c \notin known
    /\ known' = known \cup {c}
    /\ \E new \in SUBSET (({c} \ Mute) \X {"coord"} \X {"near"}) :
          rows' = rows \cup new /\ answered' = answered \cup new
    /\ UNCHANGED <<job, kills, buf, done, owed, pc, todo, progress, moved, stopped, lock>>
OtherReleases ==
    /\ lock = "other"
    /\ lock' = "free"
    /\ UNCHANGED <<world, rows, buf, done, owed, pc, todo, progress, moved, stopped,
                   answered>>

Next ==
    \/ Start \/ Acquire \/ Yield \/ EndBatch \/ RecordMonth \/ Crash
    \/ \E c \in Complexes : Handle(c)
    \/ OtherTakes \/ OtherReleases \/ (\E c \in Complexes : OtherAdds(c))

(* cron starts the scripts again and again; other holders of the lock give *)
(* it back, now and then within max_spin, and shlock is retried; a call    *)
(* returns.  Of the portals it is assumed that one asked again and again   *)
(* about a complex at last answers what it has, be it nothing: refusals    *)
(* and exhausted quotas do not always fall on the same complex.            *)
Fairness ==
    /\ WF_vars(Start) /\ SF_vars(Acquire) /\ SF_vars(EndBatch) /\ SF_vars(RecordMonth)
    /\ WF_vars(\E c \in Complexes : Handle(c))
    /\ WF_vars(OtherReleases) /\ SF_vars(pc = "wait" /\ OtherReleases)
    /\ \A c \in Complexes :
          /\ SF_vars(Answered(c))
          /\ SF_vars(c \in Silent /\ NothingKnown(c))

Spec == Init /\ [][Next]_vars /\ Fairness

-----------------------------------------------------------------------------

(* What is stored, and what counts as processed, was said by a portal or a *)
(* local table: a failed call, a killed run or an exhausted quota leaves   *)
(* neither a row, nor a skip marker, nor a ledger entry; and a complex in  *)
(* the ledger has its data stored (upsert before mark, one transaction).   *)
Sound ==
    /\ rows \cup buf \subseteq answered
    /\ \A c \in done :
          /\ \E how \in {"near", "skip", "empty"} : <<c, "fact", how>> \in answered
          /\ <<c, "fact", "near">> \in answered => <<c, "fact", "near">> \in rows

(* The SELECT counts rows and done_categories names them; they agree: no   *)
(* category has two rows, so a full count hides no missing category and a  *)
(* complex with every category is not selected for ever.                   *)
CountMeansDone ==
    job \in {"poi", "school"} =>
       \A c \in Located :
          Cardinality({f \in rows \cup buf : f[1] = c /\ f[2] \in Categories})
             = Cardinality(DoneCategories(c))

(* Every complex that lacks something gets it in the end, whatever fails   *)
(* before it in the order and however often runs are killed or the quota   *)
(* is exhausted, unless the portal has nothing about it; provided that     *)
(* those it has nothing about, which stay at the head of the worklist, do  *)
(* not fill a whole run (a whole chunk of the geocoding) by themselves.    *)
RoomLeft == Cardinality(Mute) < (IF job = "geocode" THEN Chunk ELSE Limit)
EveryTurn ==
    \A c \in Complexes : (c \in Pending \ Mute /\ RoomLeft) ~> (c \notin Pending)

(* The same without the proviso: "what failed is not recorded and retried  *)
(* on the next pass" and "--limit bounds a run, over many days"            *)
(* (refill_kapt_fields.py:12, 15) let every complex have its turn.         *)
EveryTurnAtLast ==
    \A c \in Complexes : (c \in Pending \ Mute) ~> (c \notin Pending)

(* Every run ends: a batch without progress is not selected for ever.      *)
RunEnds == (pc # "off") ~> (pc = "off")

=============================================================================

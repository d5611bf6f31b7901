---------------------------- MODULE IngestResume ----------------------------
(***************************************************************************)
(* The resumable ingestion run: ingest_nationwide.main picks the regions   *)
(* that still have work, run_batch hands them one by one to run_ingest,    *)
(* and run_ingest runs the selected stages in canonical order against one  *)
(* SQLite file.  Every fetched month is committed first and written to the *)
(* ledger ingest_progress second; a run may fail at any API call and may   *)
(* be killed between any two commits.                                      *)
(*                                                                         *)
(* Regions and months are numbers because the code walks both in order.    *)
(* A unit <<s, r, m>> is one ledger cell: stage, region, contract month.   *)
(***************************************************************************)
EXTENDS Naturals, FiniteSets

CONSTANTS
    Procs,        \* concurrently started runs (cron ticks, manual commands)
    Regions,      \* sigungu codes, in CSV order
    Months,       \* contract months asked for
    Refs,         \* complexes K-apt lists per region
    NoCoord,      \* refs whose address the geocoder does not find
    Building,     \* the building derived from a region's non-apartment trades
    Target,       \* the ref a month's trades belong to
    Stages,       \* --stages
    Limit,        \* --limit, 0 for none
    ResumeModes,  \* values of --resume the runs may use
    Serialized,   \* every run is started under the shared lock
    MaxKills      \* bound on kills

ASSUME IngestConstants ==
    /\ Regions \subseteq Nat /\ IsFiniteSet(Regions)
    /\ Months \subseteq Nat /\ IsFiniteSet(Months)
    /\ Building \notin Refs /\ NoCoord \subseteq Refs
    /\ Target \in [Months -> Refs]
    /\ Limit \in Nat /\ MaxKills \in Nat
    /\ ResumeModes \subseteq BOOLEAN /\ Serialized \in BOOLEAN

VARIABLES
    complexes,   \* committed rows of table complex, <<region, ref>>
    bare,        \* those without a legal dong code and without addresses
    rows,        \* units whose trade rows are committed
    ledger,      \* committed rows of ingest_progress
    matched,     \* units whose trade rows carry a complex_id
    coords,      \* complexes with coordinates
    pc, job,     \* control state of each run
    outcome,     \* how the latest run ended
    redundant,   \* history: month fetches whose rows were committed already
    kills        \* history: runs killed so far

db == <<complexes, bare, rows, ledger, matched, coords>>
vars == <<complexes, bare, rows, ledger, matched, coords,
          pc, job, outcome, redundant, kills>>

-----------------------------------------------------------------------------

Least(S) == CHOOSE x \in S : \A y \in S : x <= y

(* The steps of one region, in STAGE_ORDER; the rent stage ends with a     *)
(* join of its own and the non-apartment stages keep a ledger per kind.    *)
Order == << "complex", "transaction", "rent", "rent_join",
            "nonapt_rent_rowhouse", "nonapt_rent_officetel",
            "nonapt_sale_rowhouse", "nonapt_sale_officetel", "join", "geocode" >>

StageOf == << "complex", "transaction", "rent", "rent",
              "nonapt_rent", "nonapt_rent",
              "nonapt_sale", "nonapt_sale", "join", "geocode" >>

Steps == 1 .. 10
MonthSteps == {2, 3, 5, 6, 7, 8}
NonaptSteps == {5, 6, 7, 8}
Done == 11

Plan == {n \in Steps : StageOf[n] \in Stages}
StepAfter(n) == LET later == {k \in Plan : k > n}
                IN  IF later = {} THEN Done ELSE Least(later)

Unit == {Order[n] : n \in MonthSteps} \X Regions \X Months

(* A row counts for its region by its legal dong code.                     *)
Coded == complexes \ bare
RegionHasComplex(r) == \E ref \in Refs : <<r, ref>> \in Coded
CompletedMonths(s, r) == {m \in Months : <<s, r, m>> \in ledger}

(* pending_regions: only complex, transaction and rent gate a region; when *)
(* none of them is selected every region passes.                           *)
Gating == {"complex", "transaction", "rent"} \cap Stages
NeedsWorkIfUntouched(r) ==   \* mutant: one loaded month settles the region
    \/ "complex" \in Gating /\ ~RegionHasComplex(r)
    \/ \E s \in Gating \ {"complex"} : CompletedMonths(s, r) = {}
NeedsWork(r) ==
    \/ "complex" \in Gating /\ ~RegionHasComplex(r)
    \/ \E s \in Gating \ {"complex"} : ~(Months \subseteq CompletedMonths(s, r))
PendingRegions == IF Gating = {} THEN Regions ELSE {r \in Regions : NeedsWork(r)}

FirstLimit(S) ==
    IF Limit = 0 THEN S ELSE {r \in S : Cardinality({q \in S : q < r}) < Limit}

(* --resume filters the regions first and --limit counts what is left.     *)
TodoLimitFirst(resume) ==   \* mutant: --limit counts finished regions
    FirstLimit(Regions) \cap (IF resume THEN PendingRegions ELSE Regions)
Todo(resume) == FirstLimit(IF resume THEN PendingRegions ELSE Regions)

(* backfill_matches over one table: every row whose complex is known by    *)
(* now gets its complex_id, the others stay NULL for a later pass.         *)
Joinable(s) == {u \in rows : u[1] = s /\ <<u[2], Target[u[3]]>> \in Coded}

-----------------------------------------------------------------------------

NoJob == [batch |-> {}, region |-> 0, step |-> Done, refs |-> {}, months |-> {},
          resume |-> TRUE]

Init ==
    /\ complexes = {} /\ bare = {} /\ rows = {} /\ ledger = {} /\ matched = {} /\ coords = {}
    /\ pc = [p \in Procs |-> "idle"]
    /\ job = [p \in Procs |-> NoJob]
    /\ outcome = "none" /\ redundant = 0 /\ kills = 0

Quiescent == \A q \in Procs : pc[q] = "idle"

Goto(p, where, what) == /\ pc' = [pc EXCEPT ![p] = where]
                        /\ job' = [job EXCEPT ![p] = what]

(* Leave the current step: the next selected one, or the next region.      *)
Advance(p) ==
    LET n == StepAfter(job[p].step)
    IN  Goto(p, IF n = Done THEN "region" ELSE "stage", [job[p] EXCEPT !.step = n])

(* ingest_nationwide.main up to run_batch.                                 *)
StartRun(p) ==
    /\ pc[p] = "idle"
    /\ Serialized => Quiescent
    /\ \E resume \in ResumeModes :
        /\ Goto(p, IF Todo(resume) = {} THEN "idle" ELSE "region",
                [NoJob EXCEPT !.batch = Todo(resume), !.resume = resume])
        /\ outcome' = IF Todo(resume) = {} THEN "nothing" ELSE "running"
    /\ UNCHANGED <<db, redundant, kills>>

NextRegion(p) ==
    /\ pc[p] = "region" /\ job[p].batch # {}
    /\ LET r == Least(job[p].batch)
           n == StepAfter(0)
       IN  Goto(p, IF n = Done THEN "region" ELSE "stage",
                [job[p] EXCEPT !.region = r, !.batch = @ \ {r}, !.step = n])
    /\ UNCHANGED <<db, outcome, redundant, kills>>

EndRun(p) ==
    /\ pc[p] = "region" /\ job[p].batch = {}
    /\ Goto(p, "idle", NoJob)
    /\ outcome' = "ok"
    /\ UNCHANGED <<db, redundant, kills>>

At(p, n) == pc[p] = "stage" /\ job[p].step = n
SkipsNever(p) == FALSE   \* mutant: the complex stage runs on resume too
SkipsComplex(p) == job[p].resume /\ RegionHasComplex(job[p].region)

(* Stage complex: skipped on resume when the region has any complex,       *)
(* otherwise list_complexes and one detail call and commit per ref.        *)
SkipComplex(p) ==
    /\ At(p, 1) /\ SkipsComplex(p)
    /\ Advance(p)
    /\ UNCHANGED <<db, outcome, redundant, kills>>

ListComplexes(p) ==
    /\ At(p, 1) /\ ~SkipsComplex(p)
    /\ Goto(p, "complex", [job[p] EXCEPT !.refs = Refs])
    /\ UNCHANGED <<db, outcome, redundant, kills>>

(* What the basis and the detail call answer about one complex.  An answer *)
(* without a body is no error: with both bodies missing the complex is     *)
(* left as it is, with that of the basis missing the upsert writes NULL    *)
(* over its code and addresses (coordinates are not among its columns).    *)
AnswersInFull(c) == complexes' = complexes \cup {c} /\ bare' = bare \ {c}
AnswersDetailOnly(c) == complexes' = complexes \cup {c} /\ bare' = bare \cup {c}
AnswersNothing == UNCHANGED <<complexes, bare>>

FetchComplex(p) ==
    /\ pc[p] = "complex"
    /\ \E ref \in job[p].refs :
        /\ LET c == <<job[p].region, ref>>
           IN  AnswersInFull(c) \/ AnswersDetailOnly(c) \/ AnswersNothing
        /\ job' = [job EXCEPT ![p].refs = @ \ {ref}]
    /\ UNCHANGED <<rows, ledger, matched, coords, pc, outcome, redundant, kills>>

EndComplex(p) ==
    /\ pc[p] = "complex" /\ job[p].refs = {}
    /\ Advance(p)
    /\ UNCHANGED <<db, outcome, redundant, kills>>

(* A month stage takes its worklist once, at its start: the months the     *)
(* ledger lacks, or all of them without --resume.                          *)
WorklistAll(p) == Months   \* mutant: the ledger is not consulted
Worklist(p) ==
    IF job[p].resume THEN Months \ CompletedMonths(Order[job[p].step], job[p].region)
    ELSE Months

RecordAhead(p) ==   \* mutant: the worklist is recorded before it is fetched
    /\ pc[p] = "stage" /\ job[p].step \in MonthSteps
    /\ Goto(p, "month", [job[p] EXCEPT !.months = Worklist(p)])
    /\ ledger' = ledger \cup ({Order[job[p].step]} \X {job[p].region} \X Worklist(p))
    /\ UNCHANGED <<complexes, bare, rows, matched, coords, outcome, redundant, kills>>

ListMonths(p) ==
    /\ pc[p] = "stage" /\ job[p].step \in MonthSteps
    /\ Goto(p, "month", [job[p] EXCEPT !.months = Worklist(p)])
    /\ UNCHANGED <<db, outcome, redundant, kills>>

UnitOf(p) == <<Order[job[p].step], job[p].region, Least(job[p].months)>>

(* ingest_*_month: all pages, then every upsert, then one commit.  The     *)
(* non-apartment variants also create the building and link their rows.    *)
LinksAfter(p, u) ==
    IF job[p].step \in NonaptSteps THEN matched \cup {u} ELSE matched

FetchMonth(p) ==
    /\ pc[p] = "month" /\ job[p].months # {}
    /\ LET u == UnitOf(p)
           linked == job[p].step \in NonaptSteps
       IN  /\ rows' = rows \cup {u}
           /\ matched' = LinksAfter(p, u)
           /\ complexes' = IF linked THEN complexes \cup {<<u[2], Building>>} ELSE complexes
           /\ redundant' = IF job[p].resume /\ u \in rows THEN redundant + 1 ELSE redundant
           /\ IF job[p].resume
              THEN Goto(p, "record", job[p])
              ELSE Goto(p, "month", [job[p] EXCEPT !.months = @ \ {u[3]}])
    /\ UNCHANGED <<bare, ledger, coords, outcome, kills>>

RecordMonth(p) ==
    /\ pc[p] = "record"
    /\ LET u == UnitOf(p)
       IN  /\ ledger' = ledger \cup {u}
           /\ Goto(p, "month", [job[p] EXCEPT !.months = @ \ {u[3]}])
    /\ UNCHANGED <<complexes, bare, rows, matched, coords, outcome, redundant, kills>>

EndMonths(p) ==
    /\ pc[p] = "month" /\ job[p].months = {}
    /\ Advance(p)
    /\ UNCHANGED <<db, outcome, redundant, kills>>

RentJoin(p) ==
    /\ At(p, 4)
    /\ matched' = matched \cup Joinable("rent")
    /\ Advance(p)
    /\ UNCHANGED <<complexes, bare, rows, ledger, coords, outcome, redundant, kills>>

JoinRentAgain(p) ==   \* mutant: the join stage names the other table
    /\ At(p, 9)
    /\ matched' = matched \cup Joinable("rent")
    /\ Advance(p)
    /\ UNCHANGED <<complexes, bare, rows, ledger, coords, outcome, redundant, kills>>

Join(p) ==
    /\ At(p, 9)
    /\ matched' = matched \cup Joinable("transaction")
    /\ Advance(p)
    /\ UNCHANGED <<complexes, bare, rows, ledger, coords, outcome, redundant, kills>>

(* backfill_coords commits once, after the last address.  It asks for the  *)
(* rows that have one and no coordinates yet.                              *)
Located(known) == {c \in known : c[2] \notin NoCoord}
Geocode(p) ==
    /\ At(p, 10)
    /\ coords' = coords \cup Located(Coded)
    /\ Advance(p)
    /\ UNCHANGED <<complexes, bare, rows, ledger, matched, outcome, redundant, kills>>

(* Points at which a run is inside an external call: nothing of the step   *)
(* it was in is committed, and the exception leaves run_batch.             *)
InCall(p) == \/ At(p, 1) /\ ~SkipsComplex(p)
             \/ pc[p] = "complex" /\ job[p].refs # {}
             \/ pc[p] = "month" /\ job[p].months # {}
             \/ At(p, 10)

AbortAsEmpty(p) ==   \* mutant: a failed fetch is recorded as an empty month
    /\ InCall(p)
    /\ Goto(p, "idle", NoJob)
    /\ outcome' = "failed"
    /\ ledger' = IF pc[p] = "month" THEN ledger \cup {UnitOf(p)} ELSE ledger
    /\ UNCHANGED <<complexes, bare, rows, matched, coords, redundant, kills>>

Abort(p) ==
    /\ InCall(p)
    /\ Goto(p, "idle", NoJob)
    /\ outcome' = "failed"
    /\ UNCHANGED <<db, redundant, kills>>

(* Power loss, SIGKILL or a locked database between two commits.           *)
Kill(p) ==
    /\ pc[p] # "idle" /\ kills < MaxKills
    /\ Goto(p, "idle", NoJob)
    /\ outcome' = "killed"
    /\ kills' = kills + 1
    /\ UNCHANGED <<db, redundant>>

Progress(p) ==
    \/ StartRun(p) \/ NextRegion(p) \/ EndRun(p)
    \/ SkipComplex(p) \/ ListComplexes(p) \/ FetchComplex(p) \/ EndComplex(p)
    \/ ListMonths(p) \/ FetchMonth(p) \/ RecordMonth(p) \/ EndMonths(p)
    \/ RentJoin(p) \/ Join(p) \/ Geocode(p)

Next == \E p \in Procs : Progress(p) \/ Abort(p) \/ Kill(p)

Spec == Init /\ [][Next]_vars

(* A started run keeps going, cron keeps starting runs, and calls that are *)
(* retried over and over (next tick, next day's quota) succeed some time:  *)
(* in particular a region that is asked again and again gets an answer in  *)
(* full about one of its complexes.                                        *)
FullAnswer(p) == FetchComplex(p) /\ ~(Coded' \subseteq Coded)
Fairness == \A p \in Procs :
    /\ WF_vars(Progress(p))
    /\ SF_vars(ListComplexes(p)) /\ SF_vars(FullAnswer(p))
    /\ SF_vars(FetchMonth(p)) /\ SF_vars(Geocode(p))

FairSpec == Spec /\ Fairness

-----------------------------------------------------------------------------

Job == [batch : SUBSET Regions, region : Regions \cup {0}, step : Steps \cup {Done},
        refs : SUBSET Refs, months : SUBSET Months, resume : BOOLEAN]

Labels == {"idle", "region", "stage", "complex", "month", "record"}

(* Type correctness of the database tables and of every run's state.       *)
TypeOK ==
    /\ complexes \subseteq Regions \X (Refs \cup {Building})
    /\ rows \subseteq Unit /\ ledger \subseteq Unit /\ matched \subseteq Unit
    /\ bare \subseteq complexes /\ coords \subseteq complexes
    /\ pc \in [Procs -> Labels]
    /\ job \in [Procs -> Job]
    /\ outcome \in {"none", "running", "nothing", "ok", "failed", "killed"}
    /\ redundant \in Nat /\ kills \in Nat

(* A month in the ledger has its rows in the database, whatever was killed *)
(* and however runs overlap: a resumed run never skips a month it lacks.   *)
LedgerSound == ledger \subseteq rows

(* Where a run stands in its region: the control part of the invariant     *)
(* that TypeOK and LedgerSound need to be inductive.                       *)
ControlOK(p) ==
    /\ pc[p] \in {"stage", "complex", "month", "record"} =>
           job[p].region \in Regions /\ job[p].step \in Steps
    /\ pc[p] \in {"month", "record"} => job[p].step \in MonthSteps
    /\ pc[p] = "record" => job[p].months # {} /\ job[p].resume /\ UnitOf(p) \in rows

IInv == TypeOK /\ LedgerSound /\ \A p \in Procs : ControlOK(p)

(* The daily cap is not spent twice on a month: under the shared lock the  *)
(* re-fetches of resumed runs number at most the kills (ingest.py: "at     *)
(* worst the one month in progress is fetched again").                     *)
WasteBound == redundant <= kills

(* Why: one run at a time, its worklist is not recorded yet, and every     *)
(* unit loaded but not recorded stands for a kill that has not been paid   *)
(* for with a re-fetch, except the one being recorded now.                 *)
Recording == \E p \in Procs : pc[p] = "record"
OneRun == \A p, q \in Procs : pc[p] # "idle" /\ pc[q] # "idle" => p = q
WasteInv ==
    /\ OneRun
    /\ \A p \in Procs : job[p].resume
    /\ \A p \in Procs : pc[p] \in {"month", "record"} =>
        \A m \in job[p].months : <<Order[job[p].step], job[p].region, m>> \notin ledger
    /\ IsFiniteSet(rows)
    /\ Cardinality(rows \ ledger) + redundant <= kills + (IF Recording THEN 1 ELSE 0)

(* When the latest run ended normally, no sale row whose complex is known  *)
(* was left unmatched by it, whichever runs were cut short before.         *)
SalesJoined == Joinable("transaction") \subseteq matched
RunJoined == outcome = "ok" /\ "join" \in Stages => SalesJoined

(* Why: with one run at a time nothing is loaded between a region's join   *)
(* and the next region, and a run that ends has joined its last region.    *)
JoinInv ==
    /\ OneRun
    /\ outcome = "ok" => Quiescent /\ SalesJoined
    /\ \A p \in Procs :
        /\ pc[p] = "complex" => job[p].step = 1
        /\ At(p, 10) => SalesJoined
        /\ pc[p] = "region" /\ job[p].batch = {} => SalesJoined

(* "Nothing to load" is reported only when every region has every gated    *)
(* month committed and at least one complex (which another run that is at  *)
(* work may take away again, see CodesStay).                             *)
NothingLeftLoaded == outcome = "nothing" =>
    /\ \A s \in Gating \ {"complex"} : {s} \X Regions \X Months \subseteq rows
    /\ "complex" \in Gating /\ Quiescent => \A r \in Regions : RegionHasComplex(r)

(* What ingest_complexes says of itself (complex_repo.py:183): to run it   *)
(* again is safe, no complex that is known loses its code and addresses.   *)
(* It holds under the lock and --resume although a detail answer without   *)
(* the basis writes NULL over them, since complexes are asked for only     *)
(* where none has a code, and once each; without --resume it does not.     *)
CodesStay == [][Coded \subseteq Coded']_vars

(* Why: the complexes a run still has to ask for have no code.             *)
AskedInv == \A p \in Procs : pc[p] = "complex" =>
    \A ref \in job[p].refs : <<job[p].region, ref>> \notin Coded

(* Bounded ticks (--limit) over kills and failing calls still load every   *)
(* region in the end: the limit counts regions with work left only.        *)
LoadCompletes == <>[](PendingRegions = {})

-----------------------------------------------------------------------------
(* What the ledger promises, and the run as an implementation of it.       *)

Promise == INSTANCE MonthLedger WITH
    Unit <- Unit, loaded <- rows, recorded <- ledger, waste <- redundant, losses <- kills

(* Every run is a behaviour of the ledger's promise: a unit is loaded,     *)
(* then recorded, and loaded again only after a kill lost the record.      *)
KeepsPromise == Promise!Spec
=============================================================================

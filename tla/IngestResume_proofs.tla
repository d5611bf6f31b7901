------------------------ MODULE IngestResume_proofs ------------------------
(***************************************************************************)
(* Theorems about the resumable run, for any number of concurrent runs,    *)
(* regions, months and kills, with and without the shared lock.            *)
(***************************************************************************)
EXTENDS IngestResume, FiniteSetTheorems, TLAPS

(* A non-empty set of numbers has a least element, and Least returns it.   *)
LessThan == {ss \in Nat \X Nat : ss[1] < ss[2]}

LEMMA LessThanWellFounded == IsWellFoundedOn(LessThan, Nat)
BY NatLessThanWellFounded DEF OpToRel, LessThan

LEMMA LeastIsLeast ==
    ASSUME NEW S, S \subseteq Nat, S # {}
    PROVE  Least(S) \in S /\ \A y \in S : Least(S) <= y
<1>1. PICK x \in S : \A y \in S : ~ (<<y, x>> \in LessThan)
  BY LessThanWellFounded, WFMin
<1>2. ASSUME NEW y \in S PROVE x <= y
  <2>1. x \in Nat /\ y \in Nat
    OBVIOUS
  <2>2. <<y, x>> \notin LessThan
    BY <1>1
  <2>3. ~(y < x)
    BY <2>1, <2>2 DEF LessThan
  <2>. QED  BY <2>1, <2>3
<1>. QED  BY <1>2 DEF Least

(* The next step of a region is a step or the end of the region.           *)
LEMMA StepAfterType ==
    ASSUME NEW n
    PROVE  StepAfter(n) \in Steps \cup {Done}
<1>. DEFINE later == {k \in Plan : k > n}
<1>1. CASE later = {}
  BY <1>1 DEF StepAfter
<1>2. CASE later # {}
  <2>1. later \subseteq Steps  BY DEF Plan
  <2>2. Least(later) \in later
    <3>1. later \subseteq Nat  BY <2>1 DEF Steps
    <3>. QED  BY <1>2, <3>1, LeastIsLeast
  <2>. QED  BY <1>2, <2>1, <2>2 DEF StepAfter
<1>. QED  BY <1>1, <1>2

(* A month stage of a known region fetches a ledger cell.                  *)
LEMMA UnitOfType ==
    ASSUME NEW p \in Procs, job[p] \in Job, job[p].region \in Regions,
           job[p].step \in MonthSteps, job[p].months # {}
    PROVE  /\ UnitOf(p) \in Unit
           /\ UnitOf(p) = <<Order[job[p].step], job[p].region, Least(job[p].months)>>
           /\ Least(job[p].months) \in job[p].months
<1>1. job[p].months \subseteq Months  BY DEF Job
<1>2. Least(job[p].months) \in job[p].months
  BY <1>1, IngestConstants, LeastIsLeast
<1>. HIDE DEF Order
<1>. QED  BY <1>1, <1>2 DEF UnitOf, Unit

(* Moving one run keeps every other run's control state.                   *)
LEMMA GotoControl ==
    ASSUME TypeOK, \A q \in Procs : ControlOK(q),
           NEW p \in Procs, NEW where \in Labels, NEW what \in Job,
           Goto(p, where, what), rows \subseteq rows',
           where \in {"stage", "complex", "month", "record"} =>
               what.region \in Regions /\ what.step \in Steps,
           where \in {"month", "record"} => what.step \in MonthSteps,
           where = "record" =>
               /\ what.months # {} /\ what.resume
               /\ <<Order[what.step], what.region, Least(what.months)>> \in rows'
    PROVE  pc' \in [Procs -> Labels] /\ job' \in [Procs -> Job]
           /\ \A q \in Procs : ControlOK(q)'
<1>. HIDE DEF Order
<1>1. pc' \in [Procs -> Labels] /\ job' \in [Procs -> Job]
  BY DEF TypeOK, Goto
<1>2. pc'[p] = where /\ job'[p] = what
  BY DEF TypeOK, Goto
<1>3. ASSUME NEW q \in Procs PROVE ControlOK(q)'
  <2>1. CASE q = p
    BY <1>2, <2>1 DEF ControlOK, UnitOf
  <2>2. CASE q # p
    <3>1. pc'[q] = pc[q] /\ job'[q] = job[q]
      BY <2>2 DEF TypeOK, Goto
    <3>. QED  BY <3>1 DEF ControlOK, UnitOf
  <2>. QED  BY <2>1, <2>2
<1>. QED  BY <1>1, <1>3

(* Leaving a step keeps the invariant's control part.                      *)
LEMMA AdvanceControl ==
    ASSUME TypeOK, \A q \in Procs : ControlOK(q),
           NEW p \in Procs, job[p].region \in Regions, rows \subseteq rows',
           Advance(p)
    PROVE  pc' \in [Procs -> Labels] /\ job' \in [Procs -> Job]
           /\ \A q \in Procs : ControlOK(q)'
<1>. DEFINE n == StepAfter(job[p].step)
            where == IF n = Done THEN "region" ELSE "stage"
            what == [job[p] EXCEPT !.step = n]
<1>1. n \in Steps \cup {Done}
  BY StepAfterType
<1>2. job[p] \in Job
  BY DEF TypeOK
<1>3. what \in Job /\ what.region = job[p].region /\ what.step = n
  BY <1>1, <1>2 DEF Job
<1>4. where \in Labels /\ (where = "stage" => n \in Steps)
      /\ where \notin {"complex", "month", "record"}
  BY <1>1 DEF Labels
<1>5. Goto(p, where, what)
  BY DEF Advance
<1>. HIDE DEF n, where, what
<1>. QED  BY <1>3, <1>4, <1>5, GotoControl

(* The initial database is empty and every run idle.                       *)
LEMMA InitIInv == Init => IInv
<1>. HIDE DEF Order
<1>1. NoJob \in Job
  BY DEF NoJob, Job
<1>. QED  BY <1>1 DEF Init, IInv, TypeOK, LedgerSound, ControlOK, Labels

(* Every step keeps types, ledger and control consistent.                  *)
LEMMA NextIInv == IInv /\ [Next]_vars => IInv'
<1>. HIDE DEF Order
<1>. SUFFICES ASSUME IInv, [Next]_vars PROVE IInv'
  OBVIOUS
<1>. USE DEF IInv
<1>1. CASE UNCHANGED vars
  BY <1>1 DEF vars, TypeOK, LedgerSound, ControlOK, UnitOf
<1>2. ASSUME NEW p \in Procs, StartRun(p) PROVE IInv'
  <2>1. PICK resume \in ResumeModes :
            /\ Goto(p, IF Todo(resume) = {} THEN "idle" ELSE "region",
                    [NoJob EXCEPT !.batch = Todo(resume), !.resume = resume])
            /\ outcome' = IF Todo(resume) = {} THEN "nothing" ELSE "running"
    BY <1>2 DEF StartRun
  <2>. DEFINE where == IF Todo(resume) = {} THEN "idle" ELSE "region"
              what == [NoJob EXCEPT !.batch = Todo(resume), !.resume = resume]
  <2>2. Todo(resume) \subseteq Regions
    BY DEF Todo, FirstLimit, PendingRegions
  <2>3. resume \in BOOLEAN
    BY IngestConstants
  <2>4. what \in Job
    BY <2>2, <2>3 DEF NoJob, Job
  <2>5. where \in {"idle", "region"} /\ where \in Labels
    BY DEF Labels
  <2>6. UNCHANGED <<db, redundant, kills>>
    BY <1>2 DEF StartRun
  <2>7. pc' \in [Procs -> Labels] /\ job' \in [Procs -> Job]
        /\ \A q \in Procs : ControlOK(q)'
    <3>1. Goto(p, where, what)
      BY <2>1
    <3>2. rows \subseteq rows'
      BY <2>6 DEF db
    <3>. HIDE DEF where, what
    <3>. QED  BY <2>4, <2>5, <3>1, <3>2, GotoControl
  <2>. QED  BY <2>1, <2>6, <2>7 DEF TypeOK, LedgerSound, db
<1>3. ASSUME NEW p \in Procs, NextRegion(p) PROVE IInv'
  <2>. DEFINE r == Least(job[p].batch)
              n == StepAfter(0)
              where == IF n = Done THEN "region" ELSE "stage"
              what == [job[p] EXCEPT !.region = r, !.batch = @ \ {r}, !.step = n]
  <2>1. Goto(p, where, what) /\ UNCHANGED <<db, outcome, redundant, kills>>
    BY <1>3 DEF NextRegion
  <2>2. job[p] \in Job
    BY DEF TypeOK
  <2>3. r \in Regions
    <3>1. job[p].batch # {} /\ job[p].batch \subseteq Regions
      BY <1>3, <2>2 DEF NextRegion, Job
    <3>. QED  BY <3>1, IngestConstants, LeastIsLeast
  <2>4. n \in Steps \cup {Done}
    BY StepAfterType
  <2>5. what \in Job /\ what.region = r /\ what.step = n
    BY <2>2, <2>3, <2>4 DEF Job
  <2>6. where \in Labels /\ (where = "stage" => n \in Steps)
        /\ where \notin {"complex", "month", "record"}
    BY <2>4 DEF Labels
  <2>7. rows \subseteq rows'
    BY <2>1 DEF db
  <2>8. pc' \in [Procs -> Labels] /\ job' \in [Procs -> Job]
        /\ \A q \in Procs : ControlOK(q)'
    <3>. HIDE DEF r, n, where, what
    <3>. QED  BY <2>1, <2>3, <2>5, <2>6, <2>7, GotoControl
  <2>. QED  BY <2>1, <2>8 DEF TypeOK, LedgerSound, db
<1>4. ASSUME NEW p \in Procs, EndRun(p) \/ Abort(p) \/ Kill(p) PROVE IInv'
  <2>1. Goto(p, "idle", NoJob) /\ UNCHANGED <<db, redundant>>
    BY <1>4 DEF EndRun, Abort, Kill
  <2>2. NoJob \in Job /\ "idle" \in Labels
    BY DEF NoJob, Job, Labels
  <2>3. rows \subseteq rows'
    BY <2>1 DEF db
  <2>4. pc' \in [Procs -> Labels] /\ job' \in [Procs -> Job]
        /\ \A q \in Procs : ControlOK(q)'
    BY <2>1, <2>2, <2>3, GotoControl
  <2>5. outcome' \in {"ok", "failed", "killed"} /\ kills' \in Nat
    BY <1>4 DEF EndRun, Abort, Kill, TypeOK
  <2>. QED  BY <2>1, <2>4, <2>5 DEF TypeOK, LedgerSound, db
<1>5. ASSUME NEW p \in Procs,
             \/ SkipComplex(p) \/ EndComplex(p) \/ EndMonths(p)
             \/ RentJoin(p) \/ Join(p) \/ Geocode(p)
      PROVE  IInv'
  <2>1. Advance(p) /\ pc[p] \in {"stage", "complex", "month"}
    BY <1>5 DEF SkipComplex, EndComplex, EndMonths, RentJoin, Join, Geocode, At
  <2>2. job[p].region \in Regions
    BY <2>1 DEF ControlOK
  <2>3. UNCHANGED <<complexes, bare, rows, ledger, outcome, redundant, kills>>
    BY <1>5 DEF SkipComplex, EndComplex, EndMonths, RentJoin, Join, Geocode, db
  <2>4. pc' \in [Procs -> Labels] /\ job' \in [Procs -> Job]
        /\ \A q \in Procs : ControlOK(q)'
    BY <2>1, <2>2, <2>3, AdvanceControl
  <2>5. matched' \subseteq Unit
    BY <1>5 DEF SkipComplex, EndComplex, EndMonths, RentJoin, Join, Geocode, db,
                Joinable, TypeOK
  <2>6. coords' \subseteq complexes'
    BY <1>5 DEF SkipComplex, EndComplex, EndMonths, RentJoin, Join, Geocode, db,
                Located, Coded, TypeOK
  <2>. QED  BY <2>3, <2>4, <2>5, <2>6 DEF TypeOK, LedgerSound
<1>6. ASSUME NEW p \in Procs, ListComplexes(p) PROVE IInv'
  <2>. DEFINE what == [job[p] EXCEPT !.refs = Refs]
  <2>1. Goto(p, "complex", what) /\ UNCHANGED <<db, outcome, redundant, kills>>
        /\ pc[p] = "stage"
    BY <1>6 DEF ListComplexes, At
  <2>2. job[p].region \in Regions /\ job[p].step \in Steps /\ job[p] \in Job
    BY <2>1 DEF ControlOK, TypeOK
  <2>3. what \in Job /\ what.region = job[p].region /\ what.step = job[p].step
    BY <2>2 DEF Job
  <2>4. rows \subseteq rows' /\ "complex" \in Labels
    BY <2>1 DEF db, Labels
  <2>5. pc' \in [Procs -> Labels] /\ job' \in [Procs -> Job]
        /\ \A q \in Procs : ControlOK(q)'
    <3>. HIDE DEF what
    <3>. QED  BY <2>1, <2>2, <2>3, <2>4, GotoControl
  <2>. QED  BY <2>1, <2>5 DEF TypeOK, LedgerSound, db
<1>7. ASSUME NEW p \in Procs, FetchComplex(p) PROVE IInv'
  <2>1. PICK ref \in job[p].refs :
            /\ complexes' \in {complexes, complexes \cup {<<job[p].region, ref>>}}
            /\ bare' \subseteq complexes'
            /\ job' = [job EXCEPT ![p].refs = @ \ {ref}]
    BY <1>7 DEF FetchComplex, AnswersInFull, AnswersDetailOnly, AnswersNothing, TypeOK
  <2>2. pc[p] = "complex" /\ UNCHANGED <<rows, ledger, matched, coords, pc, outcome, redundant, kills>>
    BY <1>7 DEF FetchComplex
  <2>. DEFINE what == [job[p] EXCEPT !.refs = @ \ {ref}]
  <2>3. job[p] \in Job /\ job[p].region \in Regions /\ job[p].step \in Steps
    BY <2>2 DEF TypeOK, ControlOK
  <2>4. what \in Job /\ what.region = job[p].region /\ what.step = job[p].step
    BY <2>3 DEF Job
  <2>5. Goto(p, "complex", what)
    BY <2>1, <2>2 DEF Goto, TypeOK
  <2>6. rows \subseteq rows' /\ "complex" \in Labels
    BY <2>2 DEF Labels
  <2>7. pc' \in [Procs -> Labels] /\ job' \in [Procs -> Job]
        /\ \A q \in Procs : ControlOK(q)'
    <3>. HIDE DEF what
    <3>. QED  BY <2>3, <2>4, <2>5, <2>6, GotoControl
  <2>8. ref \in Refs
    BY <2>3 DEF Job
  <2>. QED  BY <2>1, <2>2, <2>3, <2>7, <2>8 DEF TypeOK, LedgerSound
<1>8. ASSUME NEW p \in Procs, ListMonths(p) PROVE IInv'
  <2>. DEFINE what == [job[p] EXCEPT !.months = Worklist(p)]
  <2>1. Goto(p, "month", what) /\ UNCHANGED <<db, outcome, redundant, kills>>
        /\ pc[p] = "stage" /\ job[p].step \in MonthSteps
    BY <1>8 DEF ListMonths
  <2>2. job[p].region \in Regions /\ job[p].step \in Steps /\ job[p] \in Job
    BY <2>1 DEF ControlOK, TypeOK
  <2>3. Worklist(p) \subseteq Months
    BY DEF Worklist
  <2>4. what \in Job /\ what.region = job[p].region /\ what.step = job[p].step
    BY <2>2, <2>3 DEF Job
  <2>5. rows \subseteq rows' /\ "month" \in Labels
    BY <2>1 DEF db, Labels
  <2>6. pc' \in [Procs -> Labels] /\ job' \in [Procs -> Job]
        /\ \A q \in Procs : ControlOK(q)'
    <3>. HIDE DEF what
    <3>. QED  BY <2>1, <2>2, <2>4, <2>5, GotoControl
  <2>. QED  BY <2>1, <2>6 DEF TypeOK, LedgerSound, db
<1>9. ASSUME NEW p \in Procs, FetchMonth(p) PROVE IInv'
  <2>. DEFINE u == UnitOf(p)
              what == [job[p] EXCEPT !.months = @ \ {u[3]}]
  <2>1. pc[p] = "month" /\ job[p].months # {} /\ UNCHANGED <<bare, ledger, coords, outcome, kills>>
    BY <1>9 DEF FetchMonth
  <2>2. job[p] \in Job /\ job[p].region \in Regions /\ job[p].step \in MonthSteps
        /\ job[p].step \in Steps
    BY <2>1 DEF TypeOK, ControlOK
  <2>3. u \in Unit /\ u = <<Order[job[p].step], job[p].region, Least(job[p].months)>>
    BY <2>1, <2>2, UnitOfType
  <2>4. rows' = rows \cup {u} /\ matched' \subseteq matched \cup {u}
        /\ complexes \subseteq complexes' /\ complexes' \subseteq complexes \cup {<<u[2], Building>>}
        /\ redundant' \in {redundant, redundant + 1}
    BY <1>9 DEF FetchMonth, LinksAfter
  <2>5. u[2] \in Regions
    BY <2>2, <2>3
  <2>6. what \in Job /\ what.region = job[p].region /\ what.step = job[p].step
    BY <2>2 DEF Job
  <2>7. pc' \in [Procs -> Labels] /\ job' \in [Procs -> Job]
        /\ \A q \in Procs : ControlOK(q)'
    <3>1. rows \subseteq rows' /\ "month" \in Labels /\ "record" \in Labels
      BY <2>4 DEF Labels
    <3>2. CASE job[p].resume
      <4>1. Goto(p, "record", job[p])
        BY <1>9, <3>2 DEF FetchMonth
      <4>. QED  BY <2>1, <2>2, <2>3, <2>4, <3>1, <3>2, <4>1, GotoControl
    <3>3. CASE ~job[p].resume
      <4>1. Goto(p, "month", what)
        BY <1>9, <3>3 DEF FetchMonth
      <4>. HIDE DEF what
      <4>. QED  BY <2>2, <2>6, <3>1, <4>1, GotoControl
    <3>. QED  BY <3>2, <3>3
  <2>. QED
    <3>. HIDE DEF u
    <3>. QED  BY <2>1, <2>3, <2>4, <2>5, <2>7 DEF TypeOK, LedgerSound
<1>10. ASSUME NEW p \in Procs, RecordMonth(p) PROVE IInv'
  <2>. DEFINE u == UnitOf(p)
              what == [job[p] EXCEPT !.months = @ \ {u[3]}]
  <2>1. pc[p] = "record" /\ ledger' = ledger \cup {u} /\ Goto(p, "month", what)
        /\ UNCHANGED <<complexes, bare, rows, matched, coords, outcome, redundant, kills>>
    BY <1>10 DEF RecordMonth
  <2>2. job[p] \in Job /\ job[p].region \in Regions /\ job[p].step \in MonthSteps
        /\ job[p].step \in Steps /\ u \in rows
    BY <2>1 DEF TypeOK, ControlOK
  <2>3. u \in Unit
    BY <2>2 DEF TypeOK
  <2>4. what \in Job /\ what.region = job[p].region /\ what.step = job[p].step
    BY <2>2 DEF Job
  <2>5. rows \subseteq rows' /\ "month" \in Labels
    BY <2>1 DEF Labels
  <2>6. pc' \in [Procs -> Labels] /\ job' \in [Procs -> Job]
        /\ \A q \in Procs : ControlOK(q)'
    <3>. HIDE DEF what
    <3>. QED  BY <2>1, <2>2, <2>4, <2>5, GotoControl
  <2>. QED
    <3>. HIDE DEF u
    <3>. QED  BY <2>1, <2>2, <2>3, <2>6 DEF TypeOK, LedgerSound
<1>. QED
  BY <1>1, <1>2, <1>3, <1>4, <1>5, <1>6, <1>7, <1>8, <1>9, <1>10 DEF Next, Progress

(* Types, ledger and control are consistent in every reachable state.      *)
THEOREM IInvariant == Spec => []IInv
BY InitIInv, NextIInv, PTL DEF Spec

(* Every table and every run's state stays within its type.                *)
THEOREM TypeCorrect == Spec => []TypeOK
<1>1. IInv => TypeOK
  BY DEF IInv
<1>. QED  BY <1>1, IInvariant, PTL

(* A month in the ledger has its rows committed, for any number of         *)
(* overlapping, failing and killed runs: --resume never skips a month that *)
(* is missing.                                                             *)
THEOREM LedgerIsSound == Spec => []LedgerSound
<1>1. IInv => LedgerSound
  BY DEF IInv
<1>. QED  BY <1>1, IInvariant, PTL

(* What was committed stays: rows never leave their table.                 *)
LEMMA RowsStay == [Next]_vars => rows \subseteq rows'
BY DEF Next, Progress, vars, db, StartRun, NextRegion, EndRun, SkipComplex, ListComplexes,
       FetchComplex, EndComplex, ListMonths, FetchMonth, RecordMonth, EndMonths, RentJoin,
       Join, Geocode, Abort, Kill

(* --limit takes the first regions that pass: none only if none passes.    *)
LEMMA FirstLimitEmpty ==
    ASSUME NEW S, S \subseteq Regions, FirstLimit(S) = {}
    PROVE  S = {}
<1>1. CASE Limit = 0
  BY <1>1 DEF FirstLimit
<1>2. CASE Limit # 0 /\ S # {}
  <2>1. S \subseteq Nat
    BY IngestConstants
  <2>2. Least(S) \in S /\ \A y \in S : Least(S) <= y
    BY <1>2, <2>1, LeastIsLeast
  <2>. DEFINE r == Least(S)
              before == {q \in S : q < r}
  <2>3. before = {}
    <3>. HIDE DEF r
    <3>1. r \in Nat /\ \A y \in S : r <= y /\ y \in Nat
      BY <2>1, <2>2 DEF r
    <3>2. ASSUME NEW q \in S, q < r PROVE FALSE
      BY <3>1, <3>2
    <3>. QED  BY <3>2
  <2>4. Cardinality({q \in S : q < r}) < Limit
    BY <1>2, <2>3, FS_EmptySet, IngestConstants
  <2>5. r \in FirstLimit(S)
    BY <1>2, <2>2, <2>4 DEF FirstLimit
  <2>. QED  BY <2>5
<1>. QED  BY <1>1, <1>2

(* Only a started run finds nothing, and then everything is committed.     *)
LEMMA NothingWhenLoaded ==
    ASSUME IInv, NEW p \in Procs, StartRun(p), outcome' = "nothing"
    PROVE  /\ \A s \in Gating \ {"complex"} : {s} \X Regions \X Months \subseteq rows
           /\ "complex" \in Gating => \A r \in Regions : RegionHasComplex(r)
<1>. HIDE DEF Order
<1>1. PICK resume \in ResumeModes :
          outcome' = IF Todo(resume) = {} THEN "nothing" ELSE "running"
  BY DEF StartRun
<1>2. Todo(resume) = {}
  BY <1>1
<1>3. (IF resume THEN PendingRegions ELSE Regions) = {}
  <2>1. (IF resume THEN PendingRegions ELSE Regions) \subseteq Regions
    BY DEF PendingRegions
  <2>. QED  BY <1>2, <2>1, FirstLimitEmpty DEF Todo
<1>4. CASE Regions = {}
  BY <1>4
<1>5. CASE resume /\ PendingRegions = {} /\ Regions # {}
  <2>1. \A r \in Regions : ~NeedsWork(r)
    BY <1>5 DEF PendingRegions
  <2>2. "complex" \in Gating => \A r \in Regions : RegionHasComplex(r)
    BY <2>1 DEF NeedsWork
  <2>3. ASSUME NEW s \in Gating \ {"complex"}, NEW r \in Regions, NEW m \in Months
        PROVE  <<s, r, m>> \in rows
    <3>1. m \in CompletedMonths(s, r)
      BY <2>1 DEF NeedsWork
    <3>. QED  BY <3>1 DEF CompletedMonths, IInv, LedgerSound
  <2>. QED  BY <2>2, <2>3
<1>. QED  BY <1>3, <1>4, <1>5

(* A run that ends says how, so "nothing" is last said by a run that found *)
(* nothing, and if all are idle by now they were idle then.                *)
LEMMA NothingStays ==
    ASSUME IInv, [Next]_vars, outcome' = "nothing", ~ \E p \in Procs : StartRun(p)
    PROVE  /\ outcome = "nothing"
           /\ Quiescent' => Quiescent /\ UNCHANGED <<complexes, bare>>
<1>. HIDE DEF Order
<1>1. CASE UNCHANGED vars
  BY <1>1 DEF vars, Quiescent
<1>2. ASSUME NEW p \in Procs, Progress(p) \/ Abort(p) \/ Kill(p), ~StartRun(p)
      PROVE  outcome = "nothing" /\ ~Quiescent'
  <2>1. \/ NextRegion(p) \/ SkipComplex(p) \/ ListComplexes(p) \/ FetchComplex(p)
        \/ EndComplex(p) \/ ListMonths(p) \/ FetchMonth(p) \/ RecordMonth(p)
        \/ EndMonths(p) \/ RentJoin(p) \/ Join(p) \/ Geocode(p)
    BY <1>2 DEF Progress, EndRun, Abort, Kill
  <2>2. outcome' = outcome
    BY <2>1 DEF NextRegion, SkipComplex, ListComplexes, FetchComplex, EndComplex, ListMonths,
                FetchMonth, RecordMonth, EndMonths, RentJoin, Join, Geocode
  <2>3. pc'[p] # "idle"
    <3>1. ASSUME NEW where, where # "idle", NEW what, Goto(p, where, what)
          PROVE  pc'[p] # "idle"
      BY <3>1 DEF Goto, IInv, TypeOK
    <3>2. CASE FetchComplex(p)
      BY <3>2 DEF FetchComplex
    <3>3. CASE NextRegion(p) \/ ListComplexes(p) \/ ListMonths(p) \/ RecordMonth(p)
      BY <3>1, <3>3 DEF NextRegion, ListComplexes, ListMonths, RecordMonth
    <3>4. CASE FetchMonth(p)
      BY <3>1, <3>4 DEF FetchMonth
    <3>5. CASE Advance(p)
      BY <3>1, <3>5 DEF Advance
    <3>. QED
      BY <2>1, <3>2, <3>3, <3>4, <3>5
      DEF SkipComplex, EndComplex, EndMonths, RentJoin, Join, Geocode
  <2>. QED  BY <2>2, <2>3 DEF Quiescent
<1>. QED  BY <1>1, <1>2 DEF Next

(* A run is told there is nothing to load only when everything the gating  *)
(* stages ask for is in the database, and that stays so until the next run *)
(* starts (the months, whatever the others do).                            *)
THEOREM NothingLeftIsLoaded == Spec => []NothingLeftLoaded
<1>. HIDE DEF Order
<1>1. Init => NothingLeftLoaded
  BY DEF Init, NothingLeftLoaded
<1>2. IInv /\ NothingLeftLoaded /\ [Next]_vars => NothingLeftLoaded'
  <2>. SUFFICES ASSUME IInv, NothingLeftLoaded, [Next]_vars, outcome' = "nothing"
                PROVE  NothingLeftLoaded'
    BY DEF NothingLeftLoaded
  <2>1. rows \subseteq rows'
    BY RowsStay
  <2>2. ASSUME NEW p \in Procs, StartRun(p) PROVE NothingLeftLoaded'
    <3>1. UNCHANGED db
      BY <2>2 DEF StartRun
    <3>. QED  BY <2>2, <3>1, NothingWhenLoaded DEF NothingLeftLoaded, RegionHasComplex, Coded, db
  <2>3. CASE ~ \E p \in Procs : StartRun(p)
    BY <2>1, <2>3, NothingStays DEF NothingLeftLoaded, RegionHasComplex, Coded
  <2>. QED  BY <2>2, <2>3
<1>. QED  BY <1>1, <1>2, IInvariant, PTL DEF Spec

-----------------------------------------------------------------------------
(* The lock serialises resumed runs: WasteBound and the ledger's promise.  *)

(* Every action but a fetch or a record leaves rows, ledger and redundant. *)
Elsewhere(p) ==
    \/ NextRegion(p) \/ EndRun(p) \/ SkipComplex(p) \/ ListComplexes(p) \/ FetchComplex(p)
    \/ EndComplex(p) \/ ListMonths(p) \/ EndMonths(p) \/ RentJoin(p) \/ Join(p)
    \/ Geocode(p) \/ Abort(p)

LEMMA ElsewhereFrame ==
    ASSUME TypeOK, NEW p \in Procs, Elsewhere(p)
    PROVE  /\ UNCHANGED <<rows, ledger, redundant, kills>>
           /\ pc[p] \notin {"idle", "record"}
           /\ pc'[p] # "record"
           /\ \A q \in Procs \ {p} : pc'[q] = pc[q] /\ job'[q] = job[q]
<1>1. UNCHANGED <<rows, ledger, redundant, kills>>
  BY DEF Elsewhere, NextRegion, EndRun, SkipComplex, ListComplexes, FetchComplex, EndComplex,
         ListMonths, EndMonths, RentJoin, Join, Geocode, Abort, db
<1>2. pc[p] \notin {"idle", "record"}
  BY DEF Elsewhere, NextRegion, EndRun, SkipComplex, ListComplexes, FetchComplex, EndComplex,
         ListMonths, EndMonths, RentJoin, Join, Geocode, Abort, At, InCall
<1>3. pc'[p] # "record"
  <2>1. ASSUME NEW where, where # "record", NEW what, Goto(p, where, what)
        PROVE  pc'[p] # "record"
    BY <2>1 DEF Goto, TypeOK
  <2>2. CASE FetchComplex(p)
    BY <2>2 DEF FetchComplex
  <2>3. CASE NextRegion(p)
    BY <2>1, <2>3 DEF NextRegion
  <2>4. CASE EndRun(p) \/ ListComplexes(p) \/ ListMonths(p) \/ Abort(p)
    BY <2>1, <2>4 DEF EndRun, ListComplexes, ListMonths, Abort
  <2>5. CASE SkipComplex(p) \/ EndComplex(p) \/ EndMonths(p) \/ RentJoin(p) \/ Join(p) \/ Geocode(p)
    BY <2>1, <2>5 DEF SkipComplex, EndComplex, EndMonths, RentJoin, Join, Geocode, Advance
  <2>. QED  BY <2>2, <2>3, <2>4, <2>5 DEF Elsewhere
<1>4. \A q \in Procs \ {p} : pc'[q] = pc[q] /\ job'[q] = job[q]
  <2>1. ASSUME NEW where, NEW what, Goto(p, where, what)
        PROVE  \A q \in Procs \ {p} : pc'[q] = pc[q] /\ job'[q] = job[q]
    BY <2>1 DEF Goto, TypeOK
  <2>2. CASE FetchComplex(p)
    BY <2>2 DEF FetchComplex, TypeOK
  <2>3. CASE NextRegion(p)
    BY <2>1, <2>3 DEF NextRegion
  <2>4. CASE EndRun(p) \/ ListComplexes(p) \/ ListMonths(p) \/ Abort(p)
    BY <2>1, <2>4 DEF EndRun, ListComplexes, ListMonths, Abort
  <2>5. CASE SkipComplex(p) \/ EndComplex(p) \/ EndMonths(p) \/ RentJoin(p) \/ Join(p) \/ Geocode(p)
    BY <2>1, <2>5 DEF SkipComplex, EndComplex, EndMonths, RentJoin, Join, Geocode, Advance
  <2>. QED  BY <2>2, <2>3, <2>4, <2>5 DEF Elsewhere
<1>. QED  BY <1>1, <1>2, <1>3, <1>4

(* A fetch that is not forced by a kill finds no row of its month.         *)
LEMMA FetchPaid ==
    ASSUME IInv, WasteInv, NEW p \in Procs, FetchMonth(p)
    PROVE  LET u == UnitOf(p) IN
           /\ u \in Unit /\ u \notin ledger /\ rows' = rows \cup {u} /\ ledger' = ledger
           /\ kills' = kills /\ Goto(p, "record", job[p]) /\ pc[p] = "month"
           /\ job[p].months # {}
           /\ redundant' = IF u \in rows THEN redundant + 1 ELSE redundant
           /\ u \in rows => redundant < kills
<1>. HIDE DEF Order
<1>. USE DEF OneRun
<1>. DEFINE u == UnitOf(p)
<1>1. pc[p] = "month" /\ job[p].months # {} /\ job[p].resume
  BY DEF FetchMonth, WasteInv
<1>2. /\ u \in Unit /\ Least(job[p].months) \in job[p].months
      /\ u = <<Order[job[p].step], job[p].region, Least(job[p].months)>>
  BY <1>1, UnitOfType DEF IInv, TypeOK, ControlOK
<1>3. u \notin ledger
  BY <1>1, <1>2 DEF WasteInv
<1>4. /\ rows' = rows \cup {u} /\ ledger' = ledger /\ kills' = kills
      /\ Goto(p, "record", job[p])
      /\ redundant' = IF u \in rows THEN redundant + 1 ELSE redundant
  BY <1>1 DEF FetchMonth
<1>5. ~Recording
  BY <1>1 DEF WasteInv, Recording
<1>6. u \in rows => redundant < kills
  <2>. SUFFICES ASSUME u \in rows PROVE redundant < kills
    OBVIOUS
  <2>1. IsFiniteSet(rows \ ledger) /\ Cardinality(rows \ ledger) \in Nat
    BY FS_Difference, FS_CardinalityType DEF WasteInv
  <2>2. rows \ ledger # {}
    BY <1>3
  <2>3. Cardinality(rows \ ledger) # 0
    BY <2>1, <2>2, FS_EmptySet
  <2>. QED  BY <1>5, <2>1, <2>3 DEF WasteInv, IInv, TypeOK
<1>. HIDE DEF u
<1>. QED  BY <1>1, <1>2, <1>3, <1>4, <1>6 DEF u

(* One run at a time and --resume: the invariant behind WasteBound.        *)
LEMMA WasteInitNext ==
    ASSUME Serialized, FALSE \notin ResumeModes
    PROVE  /\ Init => WasteInv
           /\ IInv /\ WasteInv /\ [Next]_vars => WasteInv'
<1>. HIDE DEF Order
<1>. USE DEF OneRun
<1>1. Init => WasteInv
  <2>. SUFFICES ASSUME Init PROVE WasteInv
    OBVIOUS
  <2>1. IsFiniteSet({}) /\ Cardinality({}) = 0
    BY FS_EmptySet
  <2>2. /\ \A p \in Procs : pc[p] = "idle" /\ job[p].resume
        /\ rows = {} /\ ledger = {} /\ redundant = 0 /\ kills = 0
        /\ rows \ ledger = {}
    BY DEF Init, NoJob
  <2>3. Cardinality(rows \ ledger) + redundant <= kills + 0
    BY <2>1, <2>2
  <2>4. ~Recording
    BY <2>2 DEF Recording
  <2>. QED  BY <2>1, <2>2, <2>3, <2>4 DEF WasteInv
<1>2. ASSUME IInv, WasteInv, [Next]_vars PROVE WasteInv'
  <2>. USE <1>2
  <2>0. /\ redundant \in Nat /\ kills \in Nat /\ IsFiniteSet(rows \ ledger)
        /\ Cardinality(rows \ ledger) \in Nat
    BY FS_Difference, FS_CardinalityType DEF WasteInv, IInv, TypeOK
  <2>1. CASE UNCHANGED vars
    BY <2>1 DEF vars, WasteInv, Recording
  <2>2. ASSUME NEW p \in Procs, StartRun(p) PROVE WasteInv'
    <3>1. Quiescent /\ UNCHANGED <<rows, ledger, redundant, kills>>
      BY <2>2 DEF StartRun, db
    <3>2. PICK resume \in ResumeModes :
              Goto(p, IF Todo(resume) = {} THEN "idle" ELSE "region",
                   [NoJob EXCEPT !.batch = Todo(resume), !.resume = resume])
      BY <2>2 DEF StartRun
    <3>3. resume
      BY IngestConstants
    <3>4. job'[p].resume /\ pc'[p] \in {"idle", "region"}
          /\ \A q \in Procs \ {p} : pc'[q] = "idle" /\ job'[q] = job[q]
      BY <3>1, <3>2, <3>3 DEF Goto, IInv, TypeOK, Quiescent, NoJob
    <3>5. ~Recording /\ ~Recording'
      BY <3>1, <3>4 DEF Quiescent, Recording
    <3>. QED  BY <3>1, <3>4, <3>5 DEF WasteInv
  <2>3. ASSUME NEW p \in Procs, Elsewhere(p) PROVE WasteInv'
    <3>1. /\ UNCHANGED <<rows, ledger, redundant, kills>>
          /\ pc[p] \notin {"idle", "record"} /\ pc'[p] # "record"
          /\ \A q \in Procs \ {p} : pc'[q] = pc[q] /\ job'[q] = job[q]
      BY <2>3, ElsewhereFrame DEF IInv
    <3>2. ~Recording /\ ~Recording'
      BY <3>1 DEF Recording, WasteInv
    <3>3. job'[p].resume
      <4>1. ASSUME NEW where, NEW what, what.resume, Goto(p, where, what) PROVE job'[p].resume
        BY <4>1 DEF Goto, IInv, TypeOK
      <4>2. job[p].resume /\ job[p] \in Job /\ NoJob.resume
        BY DEF WasteInv, IInv, TypeOK, NoJob
      <4>3. CASE FetchComplex(p)
        BY <4>2, <4>3 DEF FetchComplex, IInv, TypeOK, Job
      <4>4. CASE NextRegion(p)
        <5>. DEFINE what == [job[p] EXCEPT !.region = Least(job[p].batch),
                                           !.batch = @ \ {Least(job[p].batch)},
                                           !.step = StepAfter(0)]
        <5>1. what.resume = job[p].resume
          BY <4>2 DEF Job
        <5>2. PICK where : Goto(p, where, what)
          BY <4>4 DEF NextRegion
        <5>. HIDE DEF what
        <5>. QED  BY <4>1, <4>2, <5>1, <5>2
      <4>5. CASE EndRun(p) \/ Abort(p)
        BY <4>1, <4>2, <4>5 DEF EndRun, Abort
      <4>6. CASE ListComplexes(p) \/ ListMonths(p)
        BY <4>1, <4>2, <4>6 DEF ListComplexes, ListMonths, Job
      <4>7. CASE Advance(p)
        BY <4>1, <4>2, <4>7 DEF Advance, Job
      <4>. QED
        BY <2>3, <4>3, <4>4, <4>5, <4>6, <4>7
        DEF Elsewhere, SkipComplex, EndComplex, EndMonths, RentJoin, Join, Geocode
    <3>4. pc'[p] = "month" => \A m \in job'[p].months :
              <<Order[job'[p].step], job'[p].region, m>> \notin ledger
      <4>1. ASSUME NEW where, where # "month", NEW what, Goto(p, where, what)
            PROVE  pc'[p] # "month"
        BY <4>1 DEF Goto, IInv, TypeOK
      <4>2. CASE ListMonths(p)
        <5>. DEFINE what == [job[p] EXCEPT !.months = Worklist(p)]
        <5>1. job'[p] = what
          BY <4>2 DEF ListMonths, Goto, IInv, TypeOK
        <5>2. job'[p].months = Worklist(p) /\ job'[p].step = job[p].step
              /\ job'[p].region = job[p].region
          BY <5>1 DEF IInv, TypeOK, Job
        <5>3. \A m \in Worklist(p) : <<Order[job[p].step], job[p].region, m>> \notin ledger
          BY DEF Worklist, CompletedMonths, WasteInv
        <5>. QED  BY <5>2, <5>3
      <4>3. CASE FetchComplex(p)
        BY <4>3 DEF FetchComplex
      <4>4. CASE NextRegion(p)
        BY <4>1, <4>4 DEF NextRegion
      <4>5. CASE EndRun(p) \/ ListComplexes(p) \/ Abort(p)
        BY <4>1, <4>5 DEF EndRun, ListComplexes, Abort
      <4>6. CASE Advance(p)
        BY <4>1, <4>6 DEF Advance
      <4>. QED
        BY <2>3, <4>2, <4>3, <4>4, <4>5, <4>6
        DEF Elsewhere, SkipComplex, EndComplex, EndMonths, RentJoin, Join, Geocode
    <3>. QED  BY <3>1, <3>2, <3>3, <3>4 DEF WasteInv
  <2>4. ASSUME NEW p \in Procs, Kill(p) PROVE WasteInv'
    <3>1. /\ UNCHANGED <<rows, ledger, redundant>> /\ kills' = kills + 1
          /\ Goto(p, "idle", NoJob) /\ pc[p] # "idle"
      BY <2>4 DEF Kill, db
    <3>2. pc'[p] = "idle" /\ job'[p].resume
          /\ \A q \in Procs \ {p} : pc'[q] = pc[q] /\ job'[q] = job[q]
      BY <3>1 DEF Goto, IInv, TypeOK, NoJob
    <3>3. \A q \in Procs : pc'[q] = "idle"
      BY <3>1, <3>2 DEF WasteInv
    <3>4. ~Recording'
      BY <3>3 DEF Recording
    <3>. QED  BY <2>0, <3>1, <3>2, <3>3, <3>4 DEF WasteInv
  <2>5. ASSUME NEW p \in Procs, FetchMonth(p) PROVE WasteInv'
    <3>. DEFINE u == UnitOf(p)
    <3>1. /\ u \notin ledger /\ rows' = rows \cup {u} /\ ledger' = ledger
          /\ kills' = kills /\ Goto(p, "record", job[p]) /\ pc[p] = "month"
          /\ redundant' = IF u \in rows THEN redundant + 1 ELSE redundant
      BY <2>5, FetchPaid
    <3>2. pc'[p] = "record" /\ job'[p] = job[p]
          /\ \A q \in Procs \ {p} : pc'[q] = pc[q] /\ job'[q] = job[q]
      BY <3>1 DEF Goto, IInv, TypeOK
    <3>3. ~Recording /\ Recording'
      BY <3>1, <3>2 DEF Recording, WasteInv
    <3>. HIDE DEF u
    <3>4. IsFiniteSet(rows')
      BY <3>1, FS_AddElement DEF WasteInv
    <3>5. Cardinality(rows' \ ledger') + redundant' <= kills' + 1
      <4>0. Cardinality(rows \ ledger) + redundant <= kills
        BY <2>0, <3>3 DEF WasteInv
      <4>1. CASE u \in rows
        <5>1. rows' \ ledger' = rows \ ledger
          BY <3>1, <4>1
        <5>2. redundant' = redundant + 1 /\ kills' = kills
          BY <3>1, <4>1
        <5>. QED  BY <2>0, <4>0, <5>1, <5>2
      <4>2. CASE u \notin rows
        <5>1. rows' \ ledger' = (rows \ ledger) \cup {u} /\ u \notin rows \ ledger
          BY <3>1, <4>2
        <5>2. Cardinality(rows' \ ledger') = Cardinality(rows \ ledger) + 1
          BY <2>0, <5>1, FS_AddElement
        <5>3. redundant' = redundant /\ kills' = kills
          BY <3>1, <4>2
        <5>. QED  BY <2>0, <4>0, <5>2, <5>3
      <4>. QED  BY <4>1, <4>2
    <3>. QED  BY <3>1, <3>2, <3>3, <3>4, <3>5 DEF WasteInv
  <2>6. ASSUME NEW p \in Procs, RecordMonth(p) PROVE WasteInv'
    <3>. DEFINE u == UnitOf(p)
                what == [job[p] EXCEPT !.months = @ \ {u[3]}]
    <3>1. /\ pc[p] = "record" /\ ledger' = ledger \cup {u} /\ Goto(p, "month", what)
          /\ UNCHANGED <<rows, redundant, kills>>
      BY <2>6 DEF RecordMonth
    <3>2. job[p] \in Job /\ job[p].resume /\ u \in rows /\ job[p].months # {}
          /\ job[p].region \in Regions /\ job[p].step \in MonthSteps
      BY <3>1 DEF IInv, TypeOK, ControlOK
    <3>3. u = <<Order[job[p].step], job[p].region, Least(job[p].months)>>
          /\ Least(job[p].months) \in job[p].months
      BY <3>2, UnitOfType
    <3>4. u \notin ledger
      BY <3>1, <3>3 DEF WasteInv
    <3>5. pc'[p] = "month" /\ job'[p] = what
          /\ \A q \in Procs \ {p} : pc'[q] = pc[q] /\ job'[q] = job[q]
      BY <3>1 DEF Goto, IInv, TypeOK
    <3>6. job'[p].resume /\ job'[p].step = job[p].step /\ job'[p].region = job[p].region
          /\ job'[p].months = job[p].months \ {u[3]}
      BY <3>2, <3>5 DEF Job
    <3>7. Recording /\ ~Recording'
      BY <3>1, <3>5 DEF Recording, WasteInv
    <3>8. \A m \in job'[p].months : <<Order[job'[p].step], job'[p].region, m>> \notin ledger'
      <4>. SUFFICES ASSUME NEW m \in job[p].months, m # u[3]
                    PROVE  <<Order[job[p].step], job[p].region, m>> \notin ledger \cup {u}
        BY <3>1, <3>6
      <4>1. <<Order[job[p].step], job[p].region, m>> \notin ledger
        BY <3>1 DEF WasteInv
      <4>. HIDE DEF u
      <4>. QED  BY <3>3, <4>1
    <3>. HIDE DEF u, what
    <3>9. Cardinality(rows' \ ledger') + redundant' <= kills'
      <4>1. rows' \ ledger' = (rows \ ledger) \ {u} /\ u \in rows \ ledger
        BY <3>1, <3>2, <3>4
      <4>2. Cardinality(rows' \ ledger') = Cardinality(rows \ ledger) - 1
        BY <2>0, <4>1, FS_RemoveElement
      <4>. QED  BY <2>0, <3>1, <3>7, <4>2 DEF WasteInv
    <3>10. \A q \in Procs : pc'[q] # "idle" => q = p
      BY <3>1, <3>5 DEF WasteInv
    <3>11. Cardinality(rows' \ ledger') + redundant' <= kills' + 0
      BY <2>0, <3>1, <3>9
    <3>12. \A q \in Procs : job'[q].resume
      BY <3>5, <3>6 DEF WasteInv
    <3>13. IsFiniteSet(rows')
      BY <3>1 DEF WasteInv
    <3>14. \A q \in Procs : pc'[q] \in {"month", "record"} =>
              \A m \in job'[q].months : <<Order[job'[q].step], job'[q].region, m>> \notin ledger'
      BY <3>8, <3>10
    <3>. QED  BY <3>7, <3>10, <3>11, <3>12, <3>13, <3>14 DEF WasteInv
  <2>. QED  BY <2>1, <2>2, <2>3, <2>4, <2>5, <2>6 DEF Next, Progress, Elsewhere
<1>. QED  BY <1>1, <1>2

LEMMA WasteInvariant ==
    ASSUME Serialized, FALSE \notin ResumeModes
    PROVE  Spec => []WasteInv
<1>1. Init => WasteInv
  BY WasteInitNext
<1>2. IInv /\ WasteInv /\ [Next]_vars => WasteInv'
  BY WasteInitNext
<1>. QED  BY <1>1, <1>2, IInvariant, PTL DEF Spec

(* Under the shared lock and --resume, a month is fetched a second time    *)
(* only in place of a run that was killed between fetch and record.        *)
THEOREM WasteIsBounded ==
    ASSUME Serialized, FALSE \notin ResumeModes
    PROVE  Spec => []WasteBound
<1>1. IInv /\ WasteInv => WasteBound
  <2>. SUFFICES ASSUME IInv, WasteInv PROVE redundant <= kills
    BY DEF WasteBound
  <2>1. /\ redundant \in Nat /\ kills \in Nat /\ IsFiniteSet(rows \ ledger)
        /\ Cardinality(rows \ ledger) \in Nat
    BY FS_Difference, FS_CardinalityType DEF WasteInv, IInv, TypeOK
  <2>2. CASE Recording
    <3>1. PICK p \in Procs : pc[p] = "record"
      BY <2>2 DEF Recording
    <3>2. UnitOf(p) \in rows \ ledger
      <4>1. /\ job[p] \in Job /\ job[p].region \in Regions /\ job[p].step \in MonthSteps
            /\ job[p].months # {} /\ UnitOf(p) \in rows
        BY <3>1 DEF IInv, TypeOK, ControlOK
      <4>. HIDE DEF Order
      <4>2. UnitOf(p) = <<Order[job[p].step], job[p].region, Least(job[p].months)>>
            /\ Least(job[p].months) \in job[p].months
        BY <4>1, UnitOfType
      <4>. QED  BY <3>1, <4>1, <4>2 DEF WasteInv
    <3>3. Cardinality(rows \ ledger) # 0
      BY <2>1, <3>2, FS_EmptySet
    <3>4. Cardinality(rows \ ledger) + redundant <= kills + 1
      BY <2>2 DEF WasteInv
    <3>. QED  BY <2>1, <3>3, <3>4
  <2>3. CASE ~Recording
    <3>1. Cardinality(rows \ ledger) + redundant <= kills + 0
      BY <2>3 DEF WasteInv
    <3>. QED  BY <2>1, <3>1
  <2>. QED  BY <2>2, <2>3
<1>. QED  BY <1>1, IInvariant, WasteInvariant, PTL

(* Where a run stands in the complex stage: it has just listed a region    *)
(* that counts no complex, or has had one more answer.                     *)
LEMMA AskedNext ==
    ASSUME Serialized, IInv, WasteInv, AskedInv, [Next]_vars
    PROVE  AskedInv'
<1>. HIDE DEF Order
<1>. USE DEF IInv
<1>1. CASE UNCHANGED vars
  BY <1>1 DEF vars, AskedInv, Coded
<1>2. ASSUME NEW p \in Procs, Progress(p) \/ Abort(p) \/ Kill(p),
             NEW q \in Procs, pc'[q] = "complex"
      PROVE  \A ref \in job'[q].refs : <<job'[q].region, ref>> \notin Coded'
  <2>1. ASSUME NEW where, where # "complex", NEW what, Goto(p, where, what), q = p
        PROVE  FALSE
    BY <1>2, <2>1 DEF Goto, TypeOK
  <2>2. CASE ListComplexes(p) /\ q = p
    <3>1. job'[p] = [job[p] EXCEPT !.refs = Refs] /\ UNCHANGED <<complexes, bare>>
      BY <2>2 DEF ListComplexes, Goto, TypeOK, db
    <3>2. job'[p].refs = Refs /\ job'[p].region = job[p].region
      BY <3>1 DEF TypeOK, Job
    <3>3. ~RegionHasComplex(job[p].region)
      BY <2>2 DEF ListComplexes, SkipsComplex, WasteInv
    <3>. QED  BY <2>2, <3>1, <3>2, <3>3 DEF RegionHasComplex, Coded
  <2>3. CASE FetchComplex(p) /\ q = p
    <3>1. PICK ref \in job[p].refs :
              /\ complexes' \ bare' \subseteq Coded \cup {<<job[p].region, ref>>}
              /\ job' = [job EXCEPT ![p].refs = @ \ {ref}]
      BY <2>3 DEF FetchComplex, AnswersInFull, AnswersDetailOnly, AnswersNothing, Coded
    <3>2. pc[p] = "complex"
      BY <2>3 DEF FetchComplex
    <3>3. job'[p].refs = job[p].refs \ {ref} /\ job'[p].region = job[p].region
      BY <3>1 DEF TypeOK, Job
    <3>. QED  BY <2>3, <3>1, <3>2, <3>3 DEF AskedInv, Coded
  <2>4. CASE q # p
    <3>1. pc[q] = "complex"
      <4>1. ASSUME NEW where, NEW what, Goto(p, where, what) PROVE pc'[q] = pc[q]
        BY <2>4, <4>1 DEF Goto, TypeOK
      <4>2. CASE FetchComplex(p)
        BY <1>2, <4>2 DEF FetchComplex
      <4>3. CASE StartRun(p) \/ NextRegion(p) \/ EndRun(p) \/ ListComplexes(p) \/ ListMonths(p)
                 \/ RecordMonth(p) \/ Abort(p) \/ Kill(p)
        BY <1>2, <4>1, <4>3 DEF StartRun, NextRegion, EndRun, ListComplexes, ListMonths,
                                RecordMonth, Abort, Kill
      <4>4. CASE FetchMonth(p)
        BY <1>2, <4>1, <4>4 DEF FetchMonth
      <4>5. CASE Advance(p)
        BY <1>2, <4>1, <4>5 DEF Advance
      <4>. QED
        BY <1>2, <4>2, <4>3, <4>4, <4>5
        DEF Progress, SkipComplex, EndComplex, EndMonths, RentJoin, Join, Geocode
    <3>2. pc[p] = "idle"
      BY <2>4, <3>1 DEF WasteInv, OneRun
    <3>3. StartRun(p)
      BY <1>2, <3>2 DEF Progress, NextRegion, EndRun, SkipComplex, ListComplexes, FetchComplex,
                        EndComplex, ListMonths, FetchMonth, RecordMonth, EndMonths, RentJoin,
                        Join, Geocode, Abort, Kill, InCall, At
    <3>. QED  BY <3>1, <3>3 DEF StartRun, Quiescent
  <2>5. CASE q = p /\ ~ListComplexes(p) /\ ~FetchComplex(p)
    <3>1. CASE StartRun(p) \/ NextRegion(p) \/ EndRun(p) \/ ListMonths(p)
               \/ RecordMonth(p) \/ Abort(p) \/ Kill(p)
      BY <2>1, <2>5, <3>1 DEF StartRun, NextRegion, EndRun, ListMonths, RecordMonth, Abort, Kill
    <3>2. CASE FetchMonth(p)
      BY <2>1, <2>5, <3>2 DEF FetchMonth
    <3>3. CASE Advance(p)
      BY <2>1, <2>5, <3>3 DEF Advance
    <3>. QED
      BY <1>2, <2>5, <3>1, <3>2, <3>3
      DEF Progress, SkipComplex, EndComplex, EndMonths, RentJoin, Join, Geocode
  <2>. QED  BY <2>2, <2>3, <2>4, <2>5
<1>. QED  BY <1>1, <1>2 DEF Next, AskedInv

(* Under the shared lock and --resume no answer, whole or without a body,  *)
(* takes the code of a known complex away, however runs are cut short.     *)
THEOREM CodesAreKept ==
    ASSUME Serialized, FALSE \notin ResumeModes
    PROVE  Spec => CodesStay
<1>. HIDE DEF Order
<1>1. Init => AskedInv
  BY DEF Init, AskedInv
<1>2. IInv /\ WasteInv /\ AskedInv /\ [Next]_vars => AskedInv'
  BY AskedNext
<1>3. IInv /\ AskedInv /\ [Next]_vars => [Coded \subseteq Coded']_vars
  <2>. SUFFICES ASSUME AskedInv, NEW p \in Procs, Progress(p) \/ Abort(p) \/ Kill(p)
                PROVE  Coded \subseteq Coded'
    BY DEF Next
  <2>1. CASE FetchComplex(p)
    <3>1. PICK ref \in job[p].refs :
              \/ AnswersInFull(<<job[p].region, ref>>)
              \/ AnswersDetailOnly(<<job[p].region, ref>>)
              \/ AnswersNothing
      BY <2>1 DEF FetchComplex
    <3>2. <<job[p].region, ref>> \notin Coded
      BY <2>1 DEF FetchComplex, AskedInv
    <3>. QED  BY <3>1, <3>2 DEF AnswersInFull, AnswersDetailOnly, AnswersNothing, Coded
  <2>2. CASE ~FetchComplex(p)
    <3>1. complexes \subseteq complexes' /\ bare' = bare
      BY <2>2 DEF Progress, db, StartRun, NextRegion, EndRun, SkipComplex, ListComplexes,
                  EndComplex, ListMonths, FetchMonth, RecordMonth, EndMonths, RentJoin, Join,
                  Geocode, Abort, Kill
    <3>. QED  BY <3>1 DEF Coded
  <2>. QED  BY <2>1, <2>2
<1>. QED  BY <1>1, <1>2, <1>3, IInvariant, WasteInvariant, PTL DEF Spec, CodesStay

(* Every step before the join leads to a step up to the join.              *)
LEMMA StepBeforeJoin ==
    ASSUME "join" \in Stages, NEW n \in 0 .. 8
    PROVE  StepAfter(n) \in 1 .. 9
<1>. DEFINE later == {k \in Plan : k > n}
<1>1. 9 \in later
  BY DEF Plan, Steps, StageOf
<1>2. later \subseteq Nat \ {0}
  BY DEF Plan, Steps
<1>3. Least(later) \in later /\ Least(later) <= 9
  BY <1>1, <1>2, LeastIsLeast
<1>. QED  BY <1>1, <1>2, <1>3 DEF StepAfter

(* What a step of run p does to the facts of JoinInv when no other run is  *)
(* awake: it suffices to look at p.                                        *)
LEMMA OnlyOneAwake ==
    ASSUME TypeOK, OneRun, NEW p \in Procs, pc[p] # "idle",
           NEW where \in Labels, NEW what \in Job, Goto(p, where, what)
    PROVE  /\ pc'[p] = where /\ job'[p] = what
           /\ \A q \in Procs \ {p} : pc'[q] = "idle"
           /\ OneRun'
           /\ where = "idle" => Quiescent'
<1>1. pc'[p] = where /\ job'[p] = what /\ \A q \in Procs \ {p} : pc'[q] = pc[q]
  BY DEF Goto, TypeOK
<1>2. \A q \in Procs \ {p} : pc'[q] = "idle"
  BY <1>1 DEF OneRun
<1>. QED  BY <1>1, <1>2 DEF OneRun, Quiescent

LEMMA JoinInitNext ==
    ASSUME Serialized, "join" \in Stages
    PROVE  /\ Init => JoinInv
           /\ IInv /\ JoinInv /\ [Next]_vars => JoinInv'
<1>. HIDE DEF Order
<1>1. Init => JoinInv
  BY DEF Init, JoinInv, OneRun, At
<1>2. ASSUME IInv, JoinInv, [Next]_vars PROVE JoinInv'
  <2>. USE <1>2
  <2>0. TypeOK /\ OneRun /\ \A q \in Procs : job[q] \in Job
    BY DEF IInv, JoinInv, TypeOK
  <2>1. CASE UNCHANGED vars
    BY <2>1 DEF vars, JoinInv, OneRun, SalesJoined, Joinable, Coded, At, Quiescent
  <2>2. ASSUME NEW p \in Procs, StartRun(p) PROVE JoinInv'
    <3>1. PICK resume \in ResumeModes :
              /\ Goto(p, IF Todo(resume) = {} THEN "idle" ELSE "region",
                      [NoJob EXCEPT !.batch = Todo(resume), !.resume = resume])
              /\ outcome' = IF Todo(resume) = {} THEN "nothing" ELSE "running"
      BY <2>2 DEF StartRun
    <3>2. Quiescent
      BY <2>2 DEF StartRun
    <3>. DEFINE what == [NoJob EXCEPT !.batch = Todo(resume), !.resume = resume]
    <3>3. what.batch = Todo(resume)
      BY DEF NoJob
    <3>4. job'[p] = what /\ pc'[p] = (IF Todo(resume) = {} THEN "idle" ELSE "region")
          /\ \A q \in Procs \ {p} : pc'[q] = "idle"
      <4>. HIDE DEF what
      <4>1. Goto(p, IF Todo(resume) = {} THEN "idle" ELSE "region", what)
        BY <3>1 DEF what
      <4>. QED  BY <2>0, <3>2, <4>1 DEF Goto, TypeOK, Quiescent
    <3>. HIDE DEF what
    <3>. QED  BY <3>1, <3>3, <3>4 DEF JoinInv, OneRun, At
  <2>3. ASSUME NEW p \in Procs, NEW where \in Labels, NEW what \in Job, Goto(p, where, what),
               pc[p] # "idle", outcome' = outcome,
               where = "complex" => what.step = 1,
               where = "stage" /\ what.step = 10 => SalesJoined',
               where = "region" /\ what.batch = {} => SalesJoined'
        PROVE  JoinInv'
    <3>1. /\ pc'[p] = where /\ job'[p] = what /\ OneRun'
          /\ \A q \in Procs \ {p} : pc'[q] = "idle"
      BY <2>0, <2>3, OnlyOneAwake
    <3>2. outcome' # "ok"
      BY <2>3 DEF JoinInv, Quiescent
    <3>. QED  BY <2>3, <3>1, <3>2 DEF JoinInv, At
  <2>4. ASSUME NEW p \in Procs, Advance(p), pc[p] \in {"stage", "complex", "month"},
               outcome' = outcome,
               job[p].step \in 9 .. 10 => SalesJoined'
        PROVE  JoinInv'
    <3>. DEFINE n == StepAfter(job[p].step)
                where == IF n = Done THEN "region" ELSE "stage"
                what == [job[p] EXCEPT !.step = n]
    <3>1. job[p].step \in Steps
      BY <2>4 DEF IInv, ControlOK
    <3>2. n \in Steps \cup {Done} /\ (job[p].step \in 1 .. 8 => n \in 1 .. 9)
      <4>1. n \in Steps \cup {Done}
        BY StepAfterType
      <4>2. job[p].step \in 1 .. 8 => n \in 1 .. 9
        BY StepBeforeJoin
      <4>. QED  BY <4>1, <4>2
    <3>3. what \in Job /\ what.step = n
      BY <2>0, <3>2 DEF Job
    <3>4. Goto(p, where, what)
      BY <2>4 DEF Advance
    <3>5. where \in Labels /\ where # "complex"
      BY DEF Labels
    <3>6. (where = "stage" /\ n = 10) \/ where = "region" => SalesJoined'
      <4>. HIDE DEF n
      <4>1. n = 10 \/ n = Done => job[p].step \in 9 .. 10
        BY <3>1, <3>2 DEF Steps, Done
      <4>. QED  BY <2>4, <4>1
    <3>. HIDE DEF n, where, what
    <3>. QED  BY <2>3, <2>4, <3>3, <3>4, <3>5, <3>6
  <2>5. ASSUME NEW p \in Procs, NextRegion(p) PROVE JoinInv'
    <3>. DEFINE r == Least(job[p].batch)
                n == StepAfter(0)
                where == IF n = Done THEN "region" ELSE "stage"
                what == [job[p] EXCEPT !.region = r, !.batch = @ \ {r}, !.step = n]
    <3>1. Goto(p, where, what) /\ outcome' = outcome /\ pc[p] # "idle"
      BY <2>5 DEF NextRegion
    <3>2. r \in Regions
      <4>1. job[p].batch # {} /\ job[p].batch \subseteq Regions
        BY <2>0, <2>5 DEF NextRegion, Job
      <4>. QED  BY <4>1, IngestConstants, LeastIsLeast
    <3>3. n \in 1 .. 9
      BY StepBeforeJoin
    <3>4. where = "stage" /\ where \in Labels
      BY <3>3 DEF Done, Labels
    <3>5. what \in Job /\ what.step = n
      <4>1. job[p] \in Job /\ n \in Steps \cup {Done}
        BY <2>0, StepAfterType
      <4>. HIDE DEF r, n
      <4>. QED  BY <3>2, <4>1 DEF Job
    <3>. HIDE DEF r, n, where, what
    <3>. QED  BY <2>3, <3>1, <3>3, <3>4, <3>5
  <2>6. ASSUME NEW p \in Procs, EndRun(p) PROVE JoinInv'
    <3>1. Goto(p, "idle", NoJob) /\ pc[p] # "idle" /\ UNCHANGED db /\ SalesJoined
      BY <2>6 DEF EndRun, JoinInv
    <3>2. NoJob \in Job /\ "idle" \in Labels
      BY DEF NoJob, Job, Labels
    <3>3. OneRun' /\ Quiescent'
      BY <2>0, <3>1, <3>2, OnlyOneAwake
    <3>4. SalesJoined'
      BY <3>1 DEF db, SalesJoined, Joinable, Coded
    <3>. QED  BY <3>3, <3>4 DEF JoinInv, Quiescent, At
  <2>7. ASSUME NEW p \in Procs, Abort(p) \/ Kill(p) PROVE JoinInv'
    <3>1. Goto(p, "idle", NoJob) /\ pc[p] # "idle" /\ outcome' # "ok"
      BY <2>7 DEF Abort, Kill, InCall, At
    <3>2. NoJob \in Job /\ "idle" \in Labels
      BY DEF NoJob, Job, Labels
    <3>3. OneRun' /\ Quiescent'
      BY <2>0, <3>1, <3>2, OnlyOneAwake
    <3>. QED  BY <3>1, <3>3 DEF JoinInv, Quiescent, At
  <2>8. ASSUME NEW p \in Procs, SkipComplex(p) \/ EndComplex(p) \/ EndMonths(p) \/ RentJoin(p)
        PROVE  JoinInv'
    <3>1. job[p].step \notin 9 .. 10
      BY <2>8 DEF SkipComplex, EndComplex, EndMonths, RentJoin, At, JoinInv, IInv, ControlOK,
                  MonthSteps
    <3>. QED  BY <2>4, <2>8, <3>1 DEF SkipComplex, EndComplex, EndMonths, RentJoin, At
  <2>9. ASSUME NEW p \in Procs, Join(p) \/ Geocode(p) PROVE JoinInv'
    <3>1. SalesJoined'
      <4>1. CASE Join(p)
        BY <4>1 DEF Join, SalesJoined, Joinable, Coded
      <4>2. CASE Geocode(p)
        BY <4>2 DEF Geocode, JoinInv, SalesJoined, Joinable, Coded
      <4>. QED  BY <2>9, <4>1, <4>2
    <3>. QED  BY <2>4, <2>9, <3>1 DEF Join, Geocode, At
  <2>10. ASSUME NEW p \in Procs, ListComplexes(p) PROVE JoinInv'
    <3>. DEFINE what == [job[p] EXCEPT !.refs = Refs]
    <3>1. Goto(p, "complex", what) /\ outcome' = outcome /\ pc[p] # "idle" /\ job[p].step = 1
      BY <2>10 DEF ListComplexes, At
    <3>2. what \in Job /\ what.step = 1 /\ "complex" \in Labels
      BY <2>0, <3>1 DEF Job, Labels
    <3>. HIDE DEF what
    <3>. QED  BY <2>3, <3>1, <3>2
  <2>11. ASSUME NEW p \in Procs, FetchComplex(p) PROVE JoinInv'
    <3>1. PICK ref \in job[p].refs : job' = [job EXCEPT ![p].refs = @ \ {ref}]
      BY <2>11 DEF FetchComplex
    <3>. DEFINE what == [job[p] EXCEPT !.refs = @ \ {ref}]
    <3>2. pc[p] = "complex" /\ pc' = pc /\ outcome' = outcome
      BY <2>11 DEF FetchComplex
    <3>3. Goto(p, "complex", what)
      BY <2>0, <3>1, <3>2 DEF Goto, TypeOK
    <3>4. what \in Job /\ what.step = 1 /\ "complex" \in Labels
      BY <2>0, <3>2 DEF Job, Labels, JoinInv
    <3>. HIDE DEF what
    <3>. QED  BY <2>3, <3>2, <3>3, <3>4
  <2>12. ASSUME NEW p \in Procs, ListMonths(p) \/ FetchMonth(p) \/ RecordMonth(p)
         PROVE  JoinInv'
    <3>1. pc[p] \in {"stage", "month", "record"} /\ outcome' = outcome
      BY <2>12 DEF ListMonths, FetchMonth, RecordMonth
    <3>2. Worklist(p) \subseteq Months /\ {"month", "record"} \subseteq Labels
      BY DEF Worklist, Labels
    <3>3. ASSUME NEW months \in SUBSET Months, Goto(p, "month", [job[p] EXCEPT !.months = months])
          PROVE  JoinInv'
      <4>1. [job[p] EXCEPT !.months = months] \in Job
        BY <2>0 DEF Job
      <4>. QED  BY <2>3, <3>1, <3>2, <3>3, <4>1
    <3>4. CASE ListMonths(p)
      BY <3>2, <3>3, <3>4 DEF ListMonths
    <3>5. CASE FetchMonth(p) /\ Goto(p, "record", job[p])
      BY <2>0, <2>3, <3>1, <3>2, <3>5
    <3>6. CASE Goto(p, "month", [job[p] EXCEPT !.months = @ \ {UnitOf(p)[3]}])
      <4>1. job[p].months \ {UnitOf(p)[3]} \in SUBSET Months
        BY <2>0 DEF Job
      <4>. QED  BY <3>3, <3>6, <4>1
    <3>. QED  BY <2>12, <3>4, <3>5, <3>6 DEF FetchMonth, RecordMonth
  <2>. QED
    BY <2>1, <2>2, <2>5, <2>6, <2>7, <2>8, <2>9, <2>10, <2>11, <2>12 DEF Next, Progress
<1>. QED  BY <1>1, <1>2

(* Under the shared lock a run that ends normally leaves no sale row of a  *)
(* known complex unmatched, whatever the runs before it left behind.       *)
THEOREM EndedRunIsJoined ==
    ASSUME Serialized
    PROVE  Spec => []RunJoined
<1>1. CASE "join" \in Stages
  <2>1. Init => JoinInv
    BY <1>1, JoinInitNext
  <2>2. IInv /\ JoinInv /\ [Next]_vars => JoinInv'
    BY <1>1, JoinInitNext
  <2>3. JoinInv => RunJoined
    BY DEF JoinInv, RunJoined
  <2>. QED  BY <2>1, <2>2, <2>3, IInvariant, PTL DEF Spec
<1>2. CASE "join" \notin Stages
  <2>1. Init => RunJoined
    BY <1>2 DEF RunJoined
  <2>2. RunJoined /\ [Next]_vars => RunJoined'
    BY <1>2 DEF RunJoined
  <2>. QED  BY <2>1, <2>2, PTL DEF Spec
<1>. QED  BY <1>1, <1>2

(* The run implements the ledger's promise: load, record, and never load a *)
(* recorded unit again; Load and Reload are fetches, Record is the ledger  *)
(* commit, Lose is a kill, everything else is a stutter.                   *)
THEOREM RunKeepsPromise ==
    ASSUME Serialized, FALSE \notin ResumeModes
    PROVE  Spec => KeepsPromise
<1>. HIDE DEF Order
<1>1. Init => Promise!Init
  BY DEF Init, Promise!Init
<1>2. IInv /\ WasteInv /\ [Next]_vars => [Promise!Next]_(Promise!lvars)
  <2>. SUFFICES ASSUME IInv, WasteInv, [Next]_vars
                PROVE  [Promise!Next]_(Promise!lvars)
    OBVIOUS
  <2>1. CASE UNCHANGED vars
    BY <2>1 DEF vars, Promise!lvars
  <2>2. ASSUME NEW p \in Procs, StartRun(p) \/ Elsewhere(p)
        PROVE  UNCHANGED Promise!lvars
    BY <2>2, ElsewhereFrame DEF StartRun, db, Promise!lvars, IInv
  <2>3. ASSUME NEW p \in Procs, Kill(p) PROVE Promise!Lose
    BY <2>3 DEF Kill, db, Promise!Lose
  <2>4. ASSUME NEW p \in Procs, RecordMonth(p) PROVE Promise!Record(UnitOf(p)) /\ UnitOf(p) \in Unit
    <3>1. UnitOf(p) \in rows /\ UnitOf(p) \in Unit
      BY <2>4 DEF RecordMonth, IInv, TypeOK, ControlOK
    <3>. QED  BY <2>4, <3>1 DEF RecordMonth, Promise!Record
  <2>5. ASSUME NEW p \in Procs, FetchMonth(p)
        PROVE  /\ UnitOf(p) \in Unit
               /\ Promise!Load(UnitOf(p)) \/ Promise!Reload(UnitOf(p))
    <3>. DEFINE u == UnitOf(p)
    <3>1. /\ u \in Unit /\ u \notin ledger /\ rows' = rows \cup {u} /\ ledger' = ledger
          /\ kills' = kills
          /\ redundant' = IF u \in rows THEN redundant + 1 ELSE redundant
          /\ u \in rows => redundant < kills
      BY <2>5, FetchPaid
    <3>. HIDE DEF u
    <3>2. CASE u \in rows
      BY <3>1, <3>2 DEF Promise!Reload, u
    <3>3. CASE u \notin rows
      BY <3>1, <3>3 DEF Promise!Load, u
    <3>. QED  BY <3>1, <3>2, <3>3 DEF u
  <2>. QED  BY <2>1, <2>2, <2>3, <2>4, <2>5 DEF Next, Progress, Elsewhere, Promise!Next
<1>. QED
  BY <1>1, <1>2, IInvariant, WasteInvariant, PTL DEF Spec, KeepsPromise, Promise!Spec
=============================================================================

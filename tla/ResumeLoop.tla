----------------------------- MODULE ResumeLoop -----------------------------
(***************************************************************************)
(* One region's months through ingest_loop: the loop calls                 *)
(* ingest_nationwide --resume until nothing is left, a run fetches each    *)
(* missing month page by page, and fetch_text repeats a page's call while  *)
(* the portal is down.  The portal may answer anything at each call.       *)
(*                                                                         *)
(* Unit 0 is the region's complex list (JSON, K-apt), the others are       *)
(* contract months (XML, MOLIT).  A unit has Pages[u] pages.  Time is      *)
(* counted in half seconds, the smallest back-off of fetch_text.           *)
(***************************************************************************)
EXTENDS Naturals, FiniteSets

CONSTANTS
    Months,      \* contract months asked for, in order
    Pages,       \* pages the portal holds per unit, 0 for an empty month
    Retries,     \* DEFAULT_RETRIES
    MaxBackoff,  \* DEFAULT_MAX_BACKOFF, in half seconds
    RideOut,     \* the outage the retries are said to outlast, in half seconds
    MaxRuns,     \* --max-runs
    MaxKills     \* bound on kills

Units == Months \cup {0}

ASSUME LoopConstants ==
    /\ Months \subseteq Nat \ {0}
    /\ Pages \in [Units -> Nat] /\ Pages[0] > 0
    /\ Retries \in Nat \ {0} /\ MaxRuns \in Nat \ {0}
    /\ MaxBackoff \in Nat /\ RideOut \in Nat /\ MaxKills \in Nat

VARIABLES
    stored,    \* pages of each month whose rows are committed
    ledger,    \* months recorded in ingest_progress
    listed,    \* region_has_complex
    doubtful,  \* history: months recorded from an answer that was not the truth
    pc, job,   \* the loop process
    slept,     \* delays obeyed during the current call
    denied,    \* history: a permanent error reached this loop process
    outcome,   \* how the latest loop process ended
    kills      \* history: processes killed so far

db == <<stored, ledger, listed, doubtful>>
vars == <<stored, ledger, listed, doubtful, pc, job, slept, denied, outcome, kills>>

-----------------------------------------------------------------------------

Least(S) == CHOOSE x \in S : \A y \in S : x <= y
AtMost(a, b) == IF a <= b THEN a ELSE b

NoJob == [run |-> 1, todo |-> {}, page |-> 1, got |-> {}, seen |-> FALSE,
          doubt |-> FALSE, attempt |-> 0, hurried |-> FALSE,
          cause |-> "none"]

Init ==
    /\ stored = [m \in Months |-> {}] /\ ledger = {} /\ listed = FALSE /\ doubtful = {}
    /\ pc = "idle" /\ job = NoJob /\ slept = 0 /\ denied = FALSE /\ outcome = "none" /\ kills = 0

(* _remaining: the region is pending while it has no complex or lacks a    *)
(* month.                                                                  *)
RemainingMonths == ~(Months \subseteq ledger)   \* mutant: the complex list does not gate
Remaining == ~listed \/ ~(Months \subseteq ledger)

Goto(where, what) == pc' = where /\ job' = what
Leave(how) == Goto("idle", NoJob) /\ outcome' = how

(* loop_until_done: nothing to do, or the first run.                       *)
StartLoop ==
    /\ pc = "idle"
    /\ denied' = FALSE
    /\ IF Remaining THEN Goto("run", NoJob) /\ outcome' = "running"
       ELSE Leave("done")
    /\ UNCHANGED <<db, slept, kills>>

Due == {u \in Units : (u = 0 /\ ~listed) \/ u \in Months \ ledger}

StartRun ==
    /\ pc = "run"
    /\ Goto("unit", [NoJob EXCEPT !.run = job.run, !.todo = Due])
    /\ UNCHANGED <<db, denied, outcome, slept, kills>>

Unit == Least(job.todo)

NextUnit ==
    /\ pc = "unit" /\ job.todo # {}
    /\ Goto("call", [NoJob EXCEPT !.run = job.run, !.todo = job.todo])
    /\ slept' = 0
    /\ UNCHANGED <<db, denied, outcome, kills>>

(* The next of at most MaxRuns runs.                                       *)
AgainForever ==   \* mutant: the retry does not count as a run
    Goto("run", job) /\ UNCHANGED outcome
Again ==
    IF job.run < MaxRuns
    THEN Goto("run", [job EXCEPT !.run = @ + 1]) /\ UNCHANGED outcome
    ELSE Leave("unfinished")

EndRun ==
    /\ pc = "unit" /\ job.todo = {}
    /\ IF Remaining THEN Again ELSE Leave("done")
    /\ UNCHANGED <<db, denied, slept, kills>>

Raise(cause) == Goto("raised", [job EXCEPT !.cause = cause])

-----------------------------------------------------------------------------
(* One call of fetch_text for page job.page of Unit.                       *)

DelayLinear(n) == AtMost(n + 1, MaxBackoff)   \* mutant: the back-off grows linearly
Delay(n) == AtMost(2 ^ n, MaxBackoff)

(* A transport error, 5xx or 429 is repeated after the back-off, or after  *)
(* the delay a 429 names, which may be none at all.                        *)
Retry ==
    /\ pc = "call" /\ job.attempt < Retries - 1
    /\ \E hurry \in BOOLEAN :
        Goto("call", [job EXCEPT !.attempt = @ + 1, !.hurried = @ \/ hurry])
        /\ slept' = IF hurry \/ job.hurried THEN 0 ELSE slept + Delay(job.attempt)
    /\ UNCHANGED <<db, denied, outcome, kills>>

GiveUp ==
    /\ pc = "call" /\ job.attempt = Retries - 1
    /\ Raise("down")
    /\ UNCHANGED <<db, denied, outcome, slept, kills>>

(* A 4xx other than 429, and a result code other than 00 or 000: no access *)
(* or the day's quota is spent.                                            *)
Deny ==
    /\ pc = "call"
    /\ Raise("permanent")
    /\ denied' = TRUE
    /\ UNCHANGED <<db, outcome, slept, kills>>

(* What has arrived of the unit is all of it.                              *)
Close(what) ==
    IF Unit = 0
    THEN /\ listed' = what.seen
         /\ Goto("unit", [what EXCEPT !.todo = @ \ {0}])
    ELSE Goto("store", what) /\ UNCHANGED listed

(* An answer that proves nothing: no result code, no rows though the total *)
(* is not zero or is missing, or no parsable body.  The month clients      *)
(* raise; json_body of the list may take it for an empty page.             *)
UnconfirmedPasses ==   \* mutant: no rows is taken for no trades
    /\ pc = "call"
    /\ Close(job)
    /\ UNCHANGED <<stored, ledger, doubtful, denied, outcome, slept, kills>>

Unconfirmed ==
    /\ pc = "call"
    /\ \/ Raise("unconfirmed") /\ UNCHANGED listed
       \/ Unit = 0 /\ Close(job)
    /\ UNCHANGED <<stored, ledger, doubtful, denied, outcome, slept, kills>>

(* A page with rows.  The loop of paginate goes by the number of the page, *)
(* and without a totalCount the page counts as the last.                   *)
LastPage(told) == ~told \/ job.page >= Pages[Unit]

Arrived(whole, told) ==
    [job EXCEPT !.got = IF whole THEN @ \cup {job.page} ELSE @,
                !.seen = TRUE,
                !.doubt = @ \/ ~whole \/ (~told /\ job.page < Pages[Unit]),
                !.attempt = 0, !.hurried = FALSE]

Arrive(whole, told) ==
    IF LastPage(told) THEN Close(Arrived(whole, told))
    ELSE Goto("call", [Arrived(whole, told) EXCEPT !.page = @ + 1]) /\ UNCHANGED listed

(* The page as the portal holds it.                                        *)
GoodPage(u, page) ==
    /\ pc = "call" /\ u = Unit /\ page = job.page /\ page <= Pages[u]
    /\ Arrive(TRUE, TRUE)
    /\ slept' = 0
    /\ UNCHANGED <<stored, ledger, doubtful, denied, outcome, kills>>

(* Rows are missing or were malformed and skipped, or the totalCount is    *)
(* missing.                                                                *)
PoorPage ==
    /\ pc = "call" /\ job.page <= Pages[Unit]
    /\ \E whole, told \in BOOLEAN : ~(whole /\ told) /\ Arrive(whole, told)
    /\ slept' = 0
    /\ UNCHANGED <<stored, ledger, doubtful, denied, outcome, kills>>

(* No rows and a totalCount of 0: the end of the unit, true or not.        *)
EmptyPage ==
    /\ pc = "call"
    /\ Close([job EXCEPT !.doubt = @ \/ Pages[Unit] > 0])
    /\ UNCHANGED <<stored, ledger, doubtful, denied, outcome, slept, kills>>

-----------------------------------------------------------------------------

(* ingest_month commits all pages of the month, record_month its end.      *)
StoreMonth ==
    /\ pc = "store"
    /\ stored' = [stored EXCEPT ![Unit] = @ \cup job.got]
    /\ Goto("record", job)
    /\ UNCHANGED <<ledger, listed, doubtful, denied, outcome, slept, kills>>

RecordMonth ==
    /\ pc = "record"
    /\ ledger' = ledger \cup {Unit}
    /\ doubtful' = IF job.doubt THEN doubtful \cup {Unit} ELSE doubtful
    /\ Goto("unit", [job EXCEPT !.todo = @ \ {Unit}])
    /\ UNCHANGED <<stored, listed, denied, outcome, slept, kills>>

(* The loop's except clause: a permanent error leaves the program, any     *)
(* other one is slept off and costs a run.                                 *)
LoopStops ==
    /\ pc = "raised" /\ job.cause = "permanent"
    /\ Leave("stopped")
    /\ UNCHANGED <<db, denied, slept, kills>>

LoopWaitsAlways ==   \* mutant: every exception is taken for a passing one
    /\ pc = "raised"
    /\ Again
    /\ UNCHANGED <<db, denied, slept, kills>>

LoopWaits ==
    /\ pc = "raised" /\ job.cause # "permanent"
    /\ Again
    /\ UNCHANGED <<db, denied, slept, kills>>

Kill ==
    /\ pc # "idle" /\ kills < MaxKills
    /\ Leave("killed")
    /\ kills' = kills + 1
    /\ UNCHANGED <<db, denied, slept>>

Fetch == \E u \in Units : \E page \in 1 .. Pages[u] : GoodPage(u, page)

Next == \/ StartLoop \/ StartRun \/ NextUnit \/ EndRun
        \/ Retry \/ GiveUp \/ Deny \/ Unconfirmed \/ Fetch \/ PoorPage \/ EmptyPage
        \/ StoreMonth \/ RecordMonth \/ LoopStops \/ LoopWaits \/ Kill

Spec == Init /\ [][Next]_vars

Working == \/ StartRun \/ NextUnit \/ EndRun \/ StoreMonth \/ RecordMonth
           \/ LoopStops \/ LoopWaits
Called == Retry \/ GiveUp \/ Deny \/ Unconfirmed \/ Fetch \/ PoorPage \/ EmptyPage

(* The process keeps going, every call ends, and cron starts the loop      *)
(* again and again.                                                        *)
Fairness == WF_vars(StartLoop) /\ WF_vars(Working) /\ WF_vars(Called)

FairSpec == Spec /\ Fairness

-----------------------------------------------------------------------------

Job == [run : 1 .. MaxRuns, todo : SUBSET Units, page : Nat \ {0}, got : SUBSET Nat,
        seen : BOOLEAN, doubt : BOOLEAN, attempt : Nat, hurried : BOOLEAN,
        cause : {"none", "down", "unconfirmed", "permanent"}]

(* Types of all but slept; a process inside a unit has one.                *)
StateOK ==
    /\ stored \in [Months -> SUBSET Nat]
    /\ ledger \subseteq Months /\ doubtful \subseteq Months
    /\ listed \in BOOLEAN /\ denied \in BOOLEAN
    /\ pc \in {"idle", "run", "unit", "call", "store", "record", "raised"}
    /\ job \in Job
    /\ pc \in {"call", "store", "record"} => job.todo # {}
    /\ pc \in {"store", "record"} => Unit # 0
    /\ outcome \in {"none", "running", "done", "unfinished", "stopped", "killed"}
    /\ kills \in Nat

(* Type correctness.                                                       *)
TypeOK == StateOK /\ slept \in Nat

(* A month of the ledger has every page in the database, through failed    *)
(* and repeated calls, runs cut short and kills -- except where the portal *)
(* itself passed an untrue page off as a success.                          *)
WholeMonth == \A m \in ledger \ doubtful : 1 .. Pages[m] \subseteq stored[m]

(* Why: what a fetch has got so far is every page before the current one,  *)
(* and all of them when it is closed.                                      *)
FetchInv ==
    /\ pc = "call" /\ ~job.doubt => 1 .. (job.page - 1) \subseteq job.got
    /\ pc = "store" /\ ~job.doubt => 1 .. Pages[Unit] \subseteq job.got
    /\ pc = "record" /\ ~job.doubt => 1 .. Pages[Unit] \subseteq stored[Unit]

IInv == StateOK /\ WholeMonth /\ FetchInv

(* After a permanent error -- no access, quota spent -- the process makes  *)
(* no further call, in this run or in a later one of the same loop.        *)
PermanentEndsLoop == denied => pc \in {"raised", "idle"}
DeniedInv == denied => \/ pc = "idle"
                       \/ pc = "raised" /\ job.cause = "permanent"

(* _http.py:27: a call fails for good only after an outage of RideOut,     *)
(* unless the portal itself asked for quicker retries.                     *)
RidesOut == pc = "raised" /\ job.cause = "down" /\ ~job.hurried => slept >= RideOut

(* The loop process always comes to an end, whatever the portal answers.   *)
LoopEnds == pc # "idle" ~> pc = "idle"

(* A page asked for over and over is answered some time.                   *)
PortalAnswers ==
    /\ \A u \in Units : \A page \in 1 .. Pages[u] : SF_vars(GoodPage(u, page))
    /\ \A u \in Units : SF_vars(EmptyPage /\ u = Unit /\ Pages[u] = 0)

(* With cron starting the loop again, everything is listed and recorded in *)
(* the end, however many calls are refused or fail in between.             *)
Completes == PortalAnswers => <>[](listed /\ Months \subseteq ledger)
=============================================================================

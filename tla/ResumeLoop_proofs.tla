-------------------------- MODULE ResumeLoop_proofs --------------------------
(***************************************************************************)
(* Theorems about ResumeLoop for any months, page counts, retries, runs    *)
(* and kills.  The argument is that of paginate: page n is asked for only  *)
(* after every page before it has arrived, and a month is closed at its    *)
(* last page; everything else that ends a fetch raises (FetchInv).         *)
(***************************************************************************)
EXTENDS ResumeLoop, WellFoundedInduction, TLAPS

(* A non-empty set of units has a first one, and Unit is it.               *)
LessThan == {ss \in Nat \X Nat : ss[1] < ss[2]}

LEMMA LessThanWellFounded == IsWellFoundedOn(LessThan, Nat)
BY NatLessThanWellFounded DEF OpToRel, LessThan

LEMMA UnitType ==
    ASSUME StateOK, job.todo # {}
    PROVE  Unit \in job.todo /\ Unit \in Units /\ (Unit # 0 => Unit \in Months)
<1>1. job.todo \subseteq Units /\ job.todo \subseteq Nat
  <2>1. job \in Job  BY DEF StateOK
  <2>2. job.todo \subseteq Units  BY <2>1 DEF Job
  <2>3. Units \subseteq Nat  BY LoopConstants DEF Units
  <2>. QED  BY <2>2, <2>3
<1>2. PICK x \in job.todo : \A y \in job.todo : ~ (<<y, x>> \in LessThan)
  BY <1>1, LessThanWellFounded, WFMin
<1>3. ASSUME NEW y \in job.todo PROVE x <= y
  <2>1. x \in Nat /\ y \in Nat  BY <1>1
  <2>2. ~(y < x)  BY <1>2, <2>1 DEF LessThan
  <2>. QED  BY <2>1, <2>2
<1>4. Unit \in job.todo  BY <1>3 DEF Unit, Least
<1>. QED  BY <1>1, <1>4 DEF Units

LEMMA StateInit == Init => StateOK
<1>. SUFFICES ASSUME Init PROVE StateOK
  OBVIOUS
<1>. USE LoopConstants DEF Init, NoJob
<1>1. stored \in [Months -> SUBSET Nat] /\ ledger \subseteq Months /\ doubtful \subseteq Months
  OBVIOUS
<1>2. listed \in BOOLEAN /\ denied \in BOOLEAN
  BY Zenon
<1>3. job \in Job
  BY DEF Job
<1>. QED  BY <1>1, <1>2, <1>3 DEF StateOK

(* A page that arrives: closed or not, the job stays a job.                *)
LEMMA ArrivedType ==
    ASSUME job \in Job, NEW whole \in BOOLEAN, NEW told \in BOOLEAN
    PROVE  Arrived(whole, told) \in Job
<1>1. (IF whole THEN job.got \cup {job.page} ELSE job.got) \in SUBSET Nat
  BY DEF Job
<1>2. (job.doubt \/ ~whole \/ (~told /\ job.page < Pages[Unit])) \in BOOLEAN
  BY DEF Job
<1>. QED  BY <1>1, <1>2 DEF Arrived, Job

(* The steps keep the types; the job and the booleans first.               *)
LEMMA JobNext == StateOK /\ [Next]_vars => job' \in Job
<1>. SUFFICES ASSUME StateOK, [Next]_vars PROVE job' \in Job
  OBVIOUS
<1>1. job \in Job  BY DEF StateOK
<1>2. NoJob \in Job  BY LoopConstants DEF NoJob, Job
<1>3. CASE UNCHANGED vars
  BY <1>1, <1>3 DEF vars
<1>4. CASE StartLoop \/ LoopStops \/ Kill
  BY <1>2, <1>4 DEF StartLoop, LoopStops, Kill, Leave, Goto
<1>5. CASE StartRun
  <2>1. Due \in SUBSET Units /\ job.run \in 1 .. MaxRuns
    BY <1>1 DEF Due, Job
  <2>2. job' = [[NoJob EXCEPT !.run = job.run] EXCEPT !.todo = Due]
    BY <1>5 DEF StartRun, Goto, NoJob
  <2>. QED  BY <1>2, <2>1, <2>2 DEF Job
<1>6. CASE NextUnit
  <2>1. job.run \in 1 .. MaxRuns /\ job.todo \in SUBSET Units
    BY <1>1 DEF Job
  <2>. QED  BY <1>2, <1>6, <2>1 DEF NextUnit, Goto, NoJob, Job
<1>7. CASE EndRun \/ LoopWaits
  <2>1. CASE Again
    <3>1. MaxRuns \in Nat /\ job.run \in 1 .. MaxRuns  BY <1>1, LoopConstants DEF Job
    <3>2. CASE job.run < MaxRuns
      <4>1. job.run + 1 \in 1 .. MaxRuns  BY <3>1, <3>2
      <4>. QED  BY <1>1, <2>1, <3>2, <4>1 DEF Again, Goto, Job
    <3>3. CASE ~(job.run < MaxRuns)
      BY <1>2, <2>1, <3>3 DEF Again, Leave, Goto
    <3>. QED  BY <3>2, <3>3
  <2>2. CASE Leave("done")
    BY <1>2, <2>2 DEF Leave, Goto
  <2>. QED  BY <1>7, <2>1, <2>2 DEF EndRun, LoopWaits
<1>8. CASE Retry
  <2>1. PICK hurry \in BOOLEAN :
          job' = [job EXCEPT !.attempt = @ + 1, !.hurried = @ \/ hurry]
    BY <1>8 DEF Retry, Goto
  <2>2. job.attempt + 1 \in Nat /\ (job.hurried \/ hurry) \in BOOLEAN
    BY <1>1 DEF Job
  <2>. QED  BY <1>1, <2>1, <2>2 DEF Job
<1>9. ASSUME NEW cause \in {"down", "unconfirmed", "permanent"}, Raise(cause)
      PROVE  job' \in Job
  BY <1>1, <1>9 DEF Raise, Goto, Job
<1>10. ASSUME NEW what \in Job, Close(what) PROVE job' \in Job
  <2>1. [what EXCEPT !.todo = @ \ {0}] \in Job  BY DEF Job
  <2>. QED  BY <1>10, <2>1 DEF Close, Goto
<1>11. CASE EmptyPage
  <2>1. [job EXCEPT !.doubt = @ \/ Pages[Unit] > 0] \in Job
    BY <1>1 DEF Job
  <2>. QED  BY <1>10, <1>11, <2>1 DEF EmptyPage
<1>12. ASSUME NEW whole \in BOOLEAN, NEW told \in BOOLEAN, Arrive(whole, told)
       PROVE  job' \in Job
  <2>1. Arrived(whole, told) \in Job  BY <1>1, ArrivedType
  <2>2. [Arrived(whole, told) EXCEPT !.page = @ + 1] \in Job  BY <2>1 DEF Job
  <2>. QED  BY <1>10, <1>12, <2>1, <2>2 DEF Arrive, Goto
<1>13. CASE StoreMonth
  BY <1>1, <1>13 DEF StoreMonth, Goto
<1>14. CASE RecordMonth
  BY <1>1, <1>14 DEF RecordMonth, Goto, Job
<1>. QED
  BY <1>1, <1>3, <1>4, <1>5, <1>6, <1>7, <1>8, <1>9, <1>10, <1>11, <1>12, <1>13, <1>14
     DEF Next, GiveUp, Deny, Unconfirmed, Fetch, GoodPage, PoorPage
LEMMA FlagsNext == StateOK /\ [Next]_vars => listed' \in BOOLEAN /\ denied' \in BOOLEAN
<1>. SUFFICES ASSUME StateOK, [Next]_vars PROVE listed' \in BOOLEAN /\ denied' \in BOOLEAN
  OBVIOUS
<1>1. listed \in BOOLEAN /\ denied \in BOOLEAN /\ job \in Job
  BY DEF StateOK
<1>2. ASSUME NEW what \in Job, Close(what) PROVE listed' \in BOOLEAN
  <2>1. what.seen \in BOOLEAN  BY DEF Job
  <2>. QED  BY <1>1, <1>2, <2>1, Zenon DEF Close
<1>3. ASSUME NEW whole \in BOOLEAN, NEW told \in BOOLEAN, Arrive(whole, told)
      PROVE  listed' \in BOOLEAN
  <2>1. Arrived(whole, told) \in Job  BY <1>1, ArrivedType
  <2>. QED  BY <1>1, <1>2, <1>3, <2>1, Zenon DEF Arrive
<1>4. ASSUME UNCHANGED <<listed, denied>> PROVE listed' \in BOOLEAN /\ denied' \in BOOLEAN
  BY <1>1, <1>4, Zenon
<1>5. CASE StartLoop
  BY <1>1, <1>5, Zenon DEF StartLoop, db
<1>6. CASE Deny
  BY <1>1, <1>6, Zenon DEF Deny, db
<1>7. CASE Unconfirmed
  BY <1>1, <1>2, <1>7, Zenon DEF Unconfirmed
<1>8. CASE Fetch \/ PoorPage
  BY <1>1, <1>3, <1>8, Zenon DEF Fetch, GoodPage, PoorPage
<1>9. CASE EmptyPage
  <2>1. [job EXCEPT !.doubt = @ \/ Pages[Unit] > 0] \in Job  BY <1>1 DEF Job
  <2>2. Close([job EXCEPT !.doubt = @ \/ Pages[Unit] > 0]) /\ denied' = denied
    BY <1>9, Zenon DEF EmptyPage
  <2>. QED  BY <1>1, <1>2, <2>1, <2>2, Zenon
<1>. QED
  BY <1>4, <1>5, <1>6, <1>7, <1>8, <1>9, Zenon
     DEF Next, vars, db, StartRun, NextUnit, EndRun, Retry, GiveUp, StoreMonth, RecordMonth,
         LoopStops, LoopWaits, Kill
(* Where the process stands, as StateOK says it.                           *)
PlaceOK ==
    /\ pc \in {"idle", "run", "unit", "call", "store", "record", "raised"}
    /\ pc \in {"call", "store", "record"} => job.todo # {}
    /\ pc \in {"store", "record"} => Unit # 0
    /\ outcome \in {"none", "running", "done", "unfinished", "stopped", "killed"}
    /\ kills \in Nat

TablesOK ==
    /\ stored \in [Months -> SUBSET Nat]
    /\ ledger \subseteq Months /\ doubtful \subseteq Months

Rest == PlaceOK /\ TablesOK /\ WholeMonth /\ FetchInv

Tables == <<stored, ledger, doubtful>>

(* Leaving a fetch, or standing outside of one, has nothing to show.       *)
LEMMA Outside ==
    ASSUME IInv, UNCHANGED Tables, pc' \in {"idle", "run", "unit", "raised"},
           outcome' \in {"none", "running", "done", "unfinished", "stopped", "killed"},
           kills' \in Nat
    PROVE  Rest'
BY DEF IInv, StateOK, Rest, PlaceOK, TablesOK, Tables, WholeMonth, FetchInv

(* Closing a fetch that has all its pages, or that is in doubt.            *)
LEMMA CloseNext ==
    ASSUME IInv, pc = "call", UNCHANGED <<Tables, outcome, kills>>, NEW what \in Job,
           what.todo = job.todo, Close(what),
           ~what.doubt => 1 .. Pages[Unit] \subseteq what.got
    PROVE  Rest'
<1>1. CASE Unit = 0
  <2>1. pc' = "unit"  BY <1>1 DEF Close, Goto
  <2>. QED  BY <2>1, Outside DEF IInv, StateOK
<1>2. CASE Unit # 0
  <2>1. pc' = "store" /\ job' = what  BY <1>2 DEF Close, Goto
  <2>2. Unit' = Unit  BY <2>1 DEF Unit
  <2>3. PlaceOK'
    BY <1>2, <2>1, <2>2 DEF IInv, StateOK, PlaceOK
  <2>4. TablesOK' /\ WholeMonth'
    BY DEF IInv, StateOK, TablesOK, Tables, WholeMonth
  <2>5. FetchInv'
    BY <2>1, <2>2 DEF FetchInv
  <2>. QED  BY <2>3, <2>4, <2>5 DEF Rest
<1>. QED  BY <1>1, <1>2

(* A page arrives: the pages before it were there, now it is too.          *)
LEMMA ArriveNext ==
    ASSUME IInv, pc = "call", UNCHANGED <<Tables, outcome, kills>>,
           NEW whole \in BOOLEAN, NEW told \in BOOLEAN, Arrive(whole, told)
    PROVE  Rest'
<1>. DEFINE new == Arrived(whole, told)
<1>1. /\ job \in Job /\ job.todo # {} /\ job.page \in Nat \ {0}
  BY DEF IInv, StateOK, Job
<1>2. new \in Job  BY <1>1, ArrivedType
<1>3. /\ new.todo = job.todo /\ new.page = job.page
      /\ new.got = IF whole THEN job.got \cup {job.page} ELSE job.got
      /\ new.doubt = (job.doubt \/ ~whole \/ (~told /\ job.page < Pages[Unit]))
  BY <1>1 DEF Arrived, Job
<1>4. Pages[Unit] \in Nat
  BY <1>1, UnitType, LoopConstants DEF IInv
<1>5. ASSUME ~new.doubt PROVE 1 .. job.page \subseteq new.got
  <2>1. ~job.doubt /\ whole  BY <1>3, <1>5
  <2>2. 1 .. (job.page - 1) \subseteq job.got  BY <2>1 DEF IInv, FetchInv
  <2>. QED  BY <1>1, <1>3, <2>1, <2>2
<1>. HIDE DEF new
<1>6. CASE LastPage(told)
  <2>1. ASSUME ~new.doubt PROVE 1 .. Pages[Unit] \subseteq new.got
    <3>1. ~(~told /\ job.page < Pages[Unit])  BY <1>3, <2>1
    <3>2. Pages[Unit] <= job.page  BY <1>1, <1>4, <1>6, <3>1 DEF LastPage
    <3>. QED  BY <1>1, <1>4, <1>5, <2>1, <3>2
  <2>2. Close(new)  BY <1>6 DEF Arrive, new
  <2>. QED  BY <1>2, <1>3, <2>1, <2>2, CloseNext
<1>7. CASE ~LastPage(told)
  <2>1. pc' = "call" /\ job' = [new EXCEPT !.page = @ + 1]
    BY <1>7 DEF Arrive, Goto, new
  <2>2. /\ job'.todo = job.todo /\ job'.page = job.page + 1
        /\ job'.doubt = new.doubt /\ job'.got = new.got
    BY <1>2, <1>3, <2>1 DEF Job
  <2>3. PlaceOK'
    BY <1>1, <2>1, <2>2 DEF IInv, StateOK, PlaceOK
  <2>4. TablesOK' /\ WholeMonth'
    BY DEF IInv, StateOK, TablesOK, Tables, WholeMonth
  <2>5. FetchInv'
    <3>1. job'.page - 1 = job.page  BY <1>1, <2>2
    <3>. QED  BY <1>5, <2>1, <2>2, <3>1 DEF FetchInv
  <2>. QED  BY <2>3, <2>4, <2>5 DEF Rest
<1>. QED  BY <1>6, <1>7

LEMMA RestNext == IInv /\ [Next]_vars => Rest'
<1>. SUFFICES ASSUME IInv, [Next]_vars PROVE Rest'
  OBVIOUS
<1>. USE DEF db, Tables
<1>1. job \in Job /\ kills \in Nat
  BY DEF IInv, StateOK
<1>2. CASE UNCHANGED vars
  BY <1>2 DEF vars, IInv, StateOK, Rest, PlaceOK, TablesOK, WholeMonth, FetchInv, Unit
<1>3. CASE StartLoop \/ LoopStops \/ Kill
  BY <1>1, <1>3, Outside DEF StartLoop, LoopStops, Kill, Leave, Goto, IInv, StateOK
<1>4. CASE StartRun
  BY <1>4, Outside DEF StartRun, Goto, IInv, StateOK
<1>5. CASE EndRun \/ LoopWaits
  BY <1>5, Outside DEF EndRun, LoopWaits, Again, Leave, Goto, IInv, StateOK
<1>6. CASE GiveUp \/ Deny
  BY <1>6, Outside DEF GiveUp, Deny, Raise, Goto, IInv, StateOK
<1>7. CASE NextUnit
  <2>1. /\ pc' = "call" /\ job'.todo = job.todo /\ job'.page = 1
        /\ job.todo # {} /\ UNCHANGED <<Tables, outcome, kills>>
    BY <1>1, <1>7 DEF NextUnit, Goto, NoJob
  <2>2. job'.page - 1 = 0  BY <2>1
  <2>3. PlaceOK' /\ TablesOK' /\ WholeMonth'
    BY <2>1 DEF IInv, StateOK, PlaceOK, TablesOK, WholeMonth
  <2>4. FetchInv'
    BY <2>1, <2>2 DEF FetchInv
  <2>. QED  BY <2>3, <2>4 DEF Rest
<1>8. CASE Retry
  <2>1. /\ pc = "call" /\ pc' = "call" /\ job'.todo = job.todo /\ job'.page = job.page
        /\ job'.got = job.got /\ job'.doubt = job.doubt
        /\ UNCHANGED <<Tables, outcome, kills>>
    BY <1>1, <1>8 DEF Retry, Goto, Job
  <2>2. PlaceOK' /\ TablesOK' /\ WholeMonth'
    BY <2>1 DEF IInv, StateOK, PlaceOK, TablesOK, WholeMonth
  <2>3. FetchInv'
    BY <2>1 DEF IInv, FetchInv
  <2>. QED  BY <2>2, <2>3 DEF Rest
<1>9. CASE Unconfirmed
  <2>1. pc = "call" /\ UNCHANGED <<Tables, outcome, kills>>
    BY <1>9 DEF Unconfirmed
  <2>2. CASE Raise("unconfirmed")
    BY <2>1, <2>2, Outside DEF Raise, Goto, IInv, StateOK
  <2>3. CASE Unit = 0 /\ Close(job)
    BY <2>1, <2>3, Outside DEF Close, Goto, IInv, StateOK
  <2>. QED  BY <1>9, <2>2, <2>3 DEF Unconfirmed
<1>10. CASE Fetch \/ PoorPage
  <2>1. PICK whole \in BOOLEAN, told \in BOOLEAN : Arrive(whole, told)
    BY <1>10, Zenon DEF Fetch, GoodPage, PoorPage
  <2>2. pc = "call" /\ UNCHANGED <<Tables, outcome, kills>>
    BY <1>10, Zenon DEF Fetch, GoodPage, PoorPage
  <2>. QED  BY <2>1, <2>2, ArriveNext
<1>11. CASE EmptyPage
  <2>. DEFINE what == [job EXCEPT !.doubt = @ \/ Pages[Unit] > 0]
  <2>1. /\ what \in Job /\ what.todo = job.todo
        /\ what.doubt = (job.doubt \/ Pages[Unit] > 0)
    BY <1>1 DEF Job
  <2>2. /\ pc = "call" /\ Close(what) /\ UNCHANGED <<Tables, outcome, kills>>
    BY <1>11, Zenon DEF EmptyPage
  <2>3. Pages[Unit] \in Nat
    BY <2>2, UnitType, LoopConstants DEF IInv, StateOK
  <2>. HIDE DEF what
  <2>4. ASSUME ~what.doubt PROVE 1 .. Pages[Unit] \subseteq what.got
    <3>1. ~(Pages[Unit] > 0)  BY <2>1, <2>4, Zenon
    <3>2. 1 .. Pages[Unit] = {}  BY <2>3, <3>1
    <3>. QED  BY <3>2
  <2>. QED  BY <2>1, <2>2, <2>4, CloseNext
<1>12. CASE StoreMonth
  <2>1. /\ pc = "store" /\ pc' = "record" /\ job' = job
        /\ stored' = [stored EXCEPT ![Unit] = @ \cup job.got]
        /\ UNCHANGED <<ledger, doubtful, outcome, kills>>
    BY <1>12 DEF StoreMonth, Goto
  <2>2. Unit \in Months /\ Unit' = Unit
    BY <2>1, UnitType DEF IInv, StateOK, Unit
  <2>3. job.got \in SUBSET Nat  BY <1>1 DEF Job
  <2>4. stored \in [Months -> SUBSET Nat]  BY DEF IInv, StateOK
  <2>5. \A m \in Months : stored[m] \subseteq stored'[m]
    BY <2>1, <2>4
  <2>6. PlaceOK'
    BY <2>1, <2>2 DEF IInv, StateOK, PlaceOK
  <2>7. TablesOK' /\ WholeMonth'
    BY <2>1, <2>2, <2>3, <2>4, <2>5 DEF IInv, StateOK, TablesOK, WholeMonth
  <2>8. FetchInv'
    BY <2>1, <2>2, <2>4 DEF IInv, FetchInv
  <2>. QED  BY <2>6, <2>7, <2>8 DEF Rest
<1>13. CASE RecordMonth
  <2>1. /\ pc = "record" /\ pc' = "unit" /\ stored' = stored
        /\ ledger' = ledger \cup {Unit}
        /\ doubtful' = IF job.doubt THEN doubtful \cup {Unit} ELSE doubtful
        /\ UNCHANGED <<outcome, kills>>
    BY <1>13 DEF RecordMonth, Goto
  <2>2. Unit \in Months
    BY <2>1, UnitType DEF IInv, StateOK
  <2>3. PlaceOK' /\ TablesOK'
    BY <2>1, <2>2 DEF IInv, StateOK, PlaceOK, TablesOK
  <2>4. WholeMonth' /\ FetchInv'
    BY <2>1, <2>2 DEF IInv, FetchInv, WholeMonth
  <2>. QED  BY <2>3, <2>4 DEF Rest
<1>. QED
  BY <1>2, <1>3, <1>4, <1>5, <1>6, <1>7, <1>8, <1>9, <1>10, <1>11, <1>12, <1>13 DEF Next

-----------------------------------------------------------------------------

LEMMA IInvInit == Init => IInv
<1>. SUFFICES ASSUME Init PROVE IInv
  OBVIOUS
<1>1. StateOK  BY StateInit
<1>2. WholeMonth /\ FetchInv
  BY DEF Init, WholeMonth, FetchInv
<1>. QED  BY <1>1, <1>2 DEF IInv

LEMMA IInvNext == IInv /\ [Next]_vars => IInv'
<1>. SUFFICES ASSUME IInv, [Next]_vars PROVE IInv'
  OBVIOUS
<1>1. StateOK  BY DEF IInv
<1>2. job' \in Job  BY <1>1, JobNext
<1>3. listed' \in BOOLEAN /\ denied' \in BOOLEAN  BY <1>1, FlagsNext
<1>4. Rest'  BY RestNext
<1>. QED  BY <1>2, <1>3, <1>4, Zenon DEF IInv, StateOK, Rest, PlaceOK, TablesOK

(* Every state the loop, its runs and its calls reach is well typed.       *)
THEOREM StateCorrect == Spec => []StateOK
<1>1. IInv => StateOK  BY DEF IInv
<1>. QED  BY IInvInit, IInvNext, <1>1, PTL DEF Spec

(* A month of the ledger has all its pages in the database unless the      *)
(* portal passed an untrue page off as a success, for any number of pages, *)
(* retries, runs and kills.                                                *)
THEOREM MonthsWhole == Spec => []WholeMonth
<1>1. IInv => WholeMonth  BY DEF IInv
<1>. QED  BY IInvInit, IInvNext, <1>1, PTL DEF Spec
(* After a permanent error the process never calls again.                  *)
THEOREM PermanentIsFinal == Spec => []PermanentEndsLoop
<1>1. Init => DeniedInv
  BY DEF Init, DeniedInv
<1>2. ASSUME StateOK, DeniedInv, [Next]_vars PROVE DeniedInv'
  <2>. USE DEF DeniedInv, Goto, Leave, db
  <2>1. CASE UNCHANGED vars
    BY <1>2, <2>1 DEF vars
  <2>2. CASE StartLoop
    BY <2>2, Zenon DEF StartLoop
  <2>3. CASE Deny
    <3>1. pc' = "raised" /\ job' = [job EXCEPT !.cause = "permanent"]
      BY <2>3 DEF Deny, Raise
    <3>2. job'.cause = "permanent"  BY <1>2, <3>1 DEF StateOK, Job
    <3>. QED  BY <3>1, <3>2
  <2>4. CASE Kill \/ LoopStops
    BY <2>4 DEF Kill, LoopStops
  <2>5. CASE \/ StartRun \/ NextUnit \/ EndRun \/ Retry \/ GiveUp \/ Unconfirmed
             \/ Fetch \/ PoorPage \/ EmptyPage \/ StoreMonth \/ RecordMonth
             \/ LoopWaits
    <3>1. denied' = denied /\ pc # "idle" /\ ~(pc = "raised" /\ job.cause = "permanent")
      BY <2>5, Zenon DEF StartRun, NextUnit, EndRun, Retry, GiveUp, Unconfirmed, Fetch,
         GoodPage, PoorPage, EmptyPage, StoreMonth, RecordMonth, LoopWaits
    <3>. QED  BY <1>2, <3>1
  <2>. QED  BY <1>2, <2>1, <2>2, <2>3, <2>4, <2>5 DEF Next
<1>3. DeniedInv => PermanentEndsLoop
  BY DEF DeniedInv, PermanentEndsLoop
<1>. QED  BY <1>1, <1>2, <1>3, StateCorrect, PTL DEF Spec

-----------------------------------------------------------------------------
(* The back-off of one call with the numbers of the code: 8 attempts and a *)
(* delay of at most 30 s, 60 half seconds.                                 *)
CodeNumbers == Retries = 8 /\ MaxBackoff >= 60 /\ RideOut <= 123

(* Half seconds slept before attempt n: 1 + 2 + 4 + ... + 32 + 60.         *)
Waited(n) == IF n <= 6 THEN 2 ^ n - 1 ELSE 123

LEMMA DelayAdds ==
    ASSUME CodeNumbers, NEW n \in 0 .. 6
    PROVE  Delay(n) \in Nat /\ Waited(n) + Delay(n) >= Waited(n + 1) /\ Waited(n) \in Nat
<1>1. MaxBackoff \in Nat /\ MaxBackoff >= 60
  BY LoopConstants DEF CodeNumbers
<1>2. /\ 2 ^ 0 = 1 /\ 2 ^ 1 = 2 /\ 2 ^ 2 = 4 /\ 2 ^ 3 = 8
      /\ 2 ^ 4 = 16 /\ 2 ^ 5 = 32 /\ 2 ^ 6 = 64
  BY SMT
<1>3. CASE n = 0  BY <1>1, <1>2, <1>3 DEF Delay, AtMost, Waited
<1>4. CASE n = 1  BY <1>1, <1>2, <1>4 DEF Delay, AtMost, Waited
<1>5. CASE n = 2  BY <1>1, <1>2, <1>5 DEF Delay, AtMost, Waited
<1>6. CASE n = 3  BY <1>1, <1>2, <1>6 DEF Delay, AtMost, Waited
<1>7. CASE n = 4  BY <1>1, <1>2, <1>7 DEF Delay, AtMost, Waited
<1>8. CASE n = 5  BY <1>1, <1>2, <1>8 DEF Delay, AtMost, Waited
<1>9. CASE n = 6  BY <1>1, <1>2, <1>9 DEF Delay, AtMost, Waited
<1>. QED  BY <1>3, <1>4, <1>5, <1>6, <1>7, <1>8, <1>9

(* Where a call stands in its back-off, unless the portal hurried it.      *)
RideInv ==
    /\ slept \in Nat
    /\ pc = "call" => /\ job.attempt \in 0 .. 7
                      /\ ~job.hurried => slept >= Waited(job.attempt)
    /\ RidesOut

LEMMA RideNext == CodeNumbers /\ StateOK /\ RideInv /\ [Next]_vars => RideInv'
<1>. SUFFICES ASSUME CodeNumbers, StateOK, RideInv, [Next]_vars PROVE RideInv'
  OBVIOUS
<1>1. job \in Job /\ slept \in Nat
  BY DEF StateOK, RideInv
<1>2. Waited(0) = 0
  BY SMT DEF Waited
<1>3. ASSUME slept' \in Nat, pc' \notin {"call", "raised"} PROVE RideInv'
  BY <1>3 DEF RideInv, RidesOut
<1>4. ASSUME slept' = 0, pc' = "call", job'.attempt = 0 PROVE RideInv'
  BY <1>2, <1>4 DEF RideInv, RidesOut
<1>5. CASE UNCHANGED vars
  BY <1>5 DEF vars, RideInv, RidesOut
<1>6. CASE \/ StartLoop \/ StartRun \/ EndRun \/ StoreMonth \/ RecordMonth
           \/ LoopStops \/ LoopWaits \/ Kill
  BY <1>1, <1>3, <1>6 DEF StartLoop, StartRun, EndRun, StoreMonth, RecordMonth, LoopStops,
       LoopWaits, Kill, Again, Leave, Goto
<1>7. CASE NextUnit
  BY <1>4, <1>7 DEF NextUnit, Goto, NoJob
<1>8. CASE Retry
  <2>1. PICK hurry \in BOOLEAN :
          /\ job' = [job EXCEPT !.attempt = @ + 1, !.hurried = @ \/ hurry]
          /\ slept' = IF hurry \/ job.hurried THEN 0 ELSE slept + Delay(job.attempt)
    BY <1>8 DEF Retry, Goto
  <2>2. job.attempt \in 0 .. 6 /\ pc = "call" /\ pc' = "call"
    BY <1>8 DEF Retry, Goto, CodeNumbers, RideInv
  <2>3. job'.attempt = job.attempt + 1 /\ job'.hurried = (job.hurried \/ hurry)
    BY <1>1, <2>1 DEF Job
  <2>4. /\ Delay(job.attempt) \in Nat /\ Waited(job.attempt) \in Nat
        /\ Waited(job.attempt) + Delay(job.attempt) >= Waited(job.attempt + 1)
    BY <2>2, DelayAdds
  <2>5. Waited(job.attempt + 1) \in Nat
    <3>1. CASE job.attempt + 1 \in 0 .. 6
      BY <3>1, DelayAdds
    <3>2. CASE job.attempt = 6
      BY <3>2 DEF Waited
    <3>. QED  BY <2>2, <3>1, <3>2
  <2>6. slept' \in Nat /\ (~job'.hurried => slept' >= Waited(job'.attempt))
    <3>1. CASE hurry \/ job.hurried
      BY <2>1, <2>3, <3>1
    <3>2. CASE ~(hurry \/ job.hurried)
      <4>1. slept' = slept + Delay(job.attempt) /\ slept >= Waited(job.attempt)
        BY <2>1, <2>2, <3>2 DEF RideInv
      <4>. QED  BY <1>1, <2>3, <2>4, <2>5, <4>1
    <3>. QED  BY <3>1, <3>2
  <2>. QED  BY <2>2, <2>3, <2>6 DEF RideInv, RidesOut
<1>9. CASE GiveUp
  <2>1. pc = "call" /\ job.attempt = 7 /\ slept' = slept
    BY <1>9 DEF GiveUp, CodeNumbers
  <2>2. pc' = "raised" /\ job'.hurried = job.hurried
    BY <1>1, <1>9 DEF GiveUp, Raise, Goto, Job
  <2>3. ~job.hurried => slept >= 123
    BY <2>1 DEF RideInv, Waited
  <2>. QED  BY <1>1, <2>1, <2>2, <2>3, LoopConstants DEF RideInv, RidesOut, CodeNumbers
<1>10. CASE Deny \/ (Unconfirmed /\ Raise("unconfirmed"))
  <2>1. PICK cause \in {"permanent", "unconfirmed"} : Raise(cause)
    BY <1>10 DEF Deny
  <2>2. pc' = "raised" /\ job'.cause = cause
    BY <1>1, <2>1 DEF Raise, Goto, Job
  <2>3. slept' = slept
    BY <1>10 DEF Deny, Unconfirmed
  <2>. QED  BY <1>1, <2>2, <2>3 DEF RideInv, RidesOut
<1>11. ASSUME NEW what, Close(what), slept' \in Nat PROVE RideInv'
  BY <1>3, <1>11 DEF Close, Goto
<1>12. CASE (Unconfirmed /\ ~Raise("unconfirmed")) \/ EmptyPage
  BY <1>1, <1>11, <1>12, Zenon DEF Unconfirmed, EmptyPage
<1>13. CASE Fetch \/ PoorPage
  <2>1. PICK whole \in BOOLEAN, told \in BOOLEAN : Arrive(whole, told)
    BY <1>13, Zenon DEF Fetch, GoodPage, PoorPage
  <2>2. slept' = 0
    BY <1>13, Zenon DEF Fetch, GoodPage, PoorPage
  <2>. DEFINE new == Arrived(whole, told)
  <2>3. CASE Close(new)
    BY <1>11, <2>2, <2>3
  <2>4. CASE Goto("call", [new EXCEPT !.page = @ + 1])
    <3>1. new \in Job /\ new.attempt = 0
      <4>1. new \in Job
        BY <1>1, ArrivedType
      <4>2. new.attempt = 0
        BY <1>1 DEF Arrived, Job
      <4>. QED  BY <4>1, <4>2
    <3>2. [new EXCEPT !.page = @ + 1].attempt = 0
      <4>. HIDE DEF new
      <4>. QED  BY <3>1 DEF Job
    <3>. QED  BY <1>4, <2>2, <2>4, <3>2 DEF Goto
  <2>. QED  BY <2>1, <2>3, <2>4 DEF Arrive
<1>. QED
  BY <1>5, <1>6, <1>7, <1>8, <1>9, <1>10, <1>12, <1>13 DEF Next

(* With the retries and the cap of the code, whatever the months, pages,   *)
(* runs and kills, a call that fails for good has slept through an outage  *)
(* of a minute (61 s), unless the portal asked for quicker retries.        *)
THEOREM OutageRiddenOut ==
    ASSUME CodeNumbers
    PROVE  Spec => []RidesOut
<1>1. Init => RideInv
  BY DEF Init, RideInv, RidesOut
<1>2. StateOK /\ RideInv /\ [Next]_vars => RideInv'
  BY RideNext
<1>3. RideInv => RidesOut
  BY DEF RideInv
<1>. QED  BY <1>1, <1>2, <1>3, StateCorrect, PTL DEF Spec
=============================================================================

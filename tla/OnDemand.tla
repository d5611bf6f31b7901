------------------------------ MODULE OnDemand ------------------------------
(***************************************************************************)
(* OnDemandEnricher (app/enrich/ondemand.py): a request for the detail     *)
(* view of a complex answers from stored facts or starts one background    *)
(* extraction per (complex, attribute) and answers pending; the client     *)
(* polls.  Requests run in the threads of the web server, extractions in   *)
(* a lazily created pool of Workers threads, all sharing inflight and      *)
(* attempted under a lock, and the facts in SQLite without it.             *)
(*   A member of Requests is one handler and the extraction it submits.    *)
(* Names differ from those of ResponseCache: Api_proofs extends both.      *)
(***************************************************************************)
EXTENDS Integers, FiniteSets

CONSTANTS
    Pairs,        \* (complex, attribute)
    Requests,
    Workers,      \* threads of a pool, 2 in the code
    Cooldown,     \* negative_cooldown
    FactTtl,      \* life of stored facts
    Never,        \* no attempt yet
    Horizon,      \* bound on the clock
    MaxRestarts   \* bound on restarts of the API

ASSUME OnDemandConstants ==
    /\ Pairs # {} /\ Workers \in Nat \ {0} /\ Cooldown \in Nat /\ FactTtl \in Nat
    /\ Never \notin Int /\ Horizon \in Nat /\ MaxRestarts \in Nat

VARIABLES
    time,
    expires,      \* ttl_expires_at of each key's facts, 0 when it has none
    provider,     \* an LLM provider is configured
    inflight,
    attempted,    \* when the last extraction of each key ended
    pools,        \* pools created; new jobs go to the last one
    at,           \* the next step of each handler, then of its job
    about,        \* its key
    now,          \* the time it took at its start
    pool,         \* the pool its job is queued in
    ended,        \* history: when the last extraction of each key ended
    restarts      \* history: restarts so far

memory == <<inflight, attempted, pools>>
thread == <<about, now, pool>>
onDemandVars == <<time, expires, provider, memory, at, thread, ended, restarts>>

Working == {"start", "extract", "write", "finish"}
InFlight == {"submit", "create", "enqueue", "queued"} \cup Working

(* The locals of a request that is not being handled.                      *)
NoPair == CHOOSE k \in Pairs : TRUE

OnDemandInit ==
    /\ time = 0 /\ provider \in BOOLEAN
    /\ expires = [k \in Pairs |-> 0]
    /\ inflight = {} /\ pools = 0 /\ restarts = 0
    /\ attempted = [k \in Pairs |-> Never]
    /\ ended = [k \in Pairs |-> Never]
    /\ at = [r \in Requests |-> "idle"]
    /\ about = [r \in Requests |-> NoPair]
    /\ now = [r \in Requests |-> 0]
    /\ pool = [r \in Requests |-> 0]

Go(r, where) == at' = [at EXCEPT ![r] = where]

(* A handler or job returns.                                               *)
Leave(r) ==
    /\ Go(r, "idle")
    /\ about' = [about EXCEPT ![r] = NoPair]
    /\ now' = [now EXCEPT ![r] = 0]
    /\ pool' = [pool EXCEPT ![r] = 0]
Fresh(k, t) == expires[k] > t

-----------------------------------------------------------------------------
(* Handler: status(conn, complex_id, attribute)                            *)

(* Facts answer ready, no provider unavailable, and nothing changes.       *)
AnswerAtOnce(r, k) ==
    /\ at[r] = "idle"
    /\ Fresh(k, time) \/ ~provider
    /\ UNCHANGED onDemandVars

Ask(r, k) ==
    /\ at[r] = "idle"
    /\ ~Fresh(k, time) /\ provider
    /\ about' = [about EXCEPT ![r] = k]
    /\ now' = [now EXCEPT ![r] = time]
    /\ Go(r, "lock")
    /\ UNCHANGED <<time, expires, provider, memory, pool, ended, restarts>>

(* now - att < negative_cooldown                                           *)
CoolingDown(r) ==
    /\ attempted[about[r]] # Never
    /\ now[r] - attempted[about[r]] < Cooldown

AnswerPending(r) ==
    /\ at[r] = "lock" /\ about[r] \in inflight
    /\ Leave(r)
    /\ UNCHANGED <<time, expires, provider, memory, ended, restarts>>

(* READY without facts: the client shows that there is no information.     *)
AnswerEmpty(r) ==
    /\ at[r] = "lock" /\ about[r] \notin inflight /\ CoolingDown(r)
    /\ Leave(r)
    /\ UNCHANGED <<time, expires, provider, memory, ended, restarts>>

ClaimLater(r) ==   \* mutant: the key is added outside the lock
    /\ at[r] = "lock" /\ about[r] \notin inflight /\ ~CoolingDown(r)
    /\ Go(r, "submit")
    /\ UNCHANGED <<time, expires, provider, memory, thread, ended, restarts>>
Claim(r) ==
    /\ at[r] = "lock" /\ about[r] \notin inflight /\ ~CoolingDown(r)
    /\ inflight' = inflight \cup {about[r]}
    /\ Go(r, "submit")
    /\ UNCHANGED <<time, expires, provider, attempted, pools, thread, ended, restarts>>

(* _do_submit: test of _pool, its assignment and submit are three steps.   *)
FindPool(r) ==
    /\ at[r] = "submit"
    /\ Go(r, IF pools = 0 THEN "create" ELSE "enqueue")
    /\ UNCHANGED <<time, expires, provider, memory, thread, ended, restarts>>

CreatePool(r) ==
    /\ at[r] = "create"
    /\ pools' = pools + 1
    /\ Go(r, "enqueue")
    /\ UNCHANGED <<time, expires, provider, inflight, attempted, thread, ended, restarts>>

Enqueue(r) ==
    /\ at[r] = "enqueue"
    /\ pool' = [pool EXCEPT ![r] = pools]
    /\ Go(r, "queued")
    /\ UNCHANGED <<time, expires, provider, memory, about, now, ended, restarts>>

-----------------------------------------------------------------------------
(* Job: _run(complex_id, attribute) in a thread of its pool                *)

Busy(p) == Cardinality({r \in Requests : pool[r] = p /\ at[r] \in Working})

PickUp(r) ==
    /\ at[r] = "queued" /\ Busy(pool[r]) < Workers
    /\ now' = [now EXCEPT ![r] = time]
    /\ Go(r, "start")
    /\ UNCHANGED <<time, expires, provider, memory, about, pool, ended, restarts>>

(* Facts may have come in since; connection or extractor may be missing.   *)
StartJob(r) ==
    /\ at[r] = "start"
    /\ \/ ~Fresh(about[r], now[r]) /\ Go(r, "extract")
       \/ Go(r, "finish")
    /\ UNCHANGED <<time, expires, provider, memory, thread, ended, restarts>>

(* Facts, nothing, or an exception that _run swallows.                     *)
ExtractRaises(r) ==   \* mutant: the exception passes by the finally block
    /\ at[r] = "extract"
    /\ \/ Go(r, "write") /\ UNCHANGED thread
       \/ Leave(r)
    /\ UNCHANGED <<time, expires, provider, memory, ended, restarts>>
Extract(r) ==
    /\ at[r] = "extract"
    /\ Go(r, "write") \/ Go(r, "finish")
    /\ UNCHANGED <<time, expires, provider, memory, thread, ended, restarts>>

(* The commit, dated by the job's start, or a locked database.             *)
Write(r) ==
    /\ at[r] = "write"
    /\ \/ expires' = [expires EXCEPT ![about[r]] = now[r] + FactTtl]
       \/ UNCHANGED expires
    /\ Go(r, "finish")
    /\ UNCHANGED <<time, provider, memory, thread, ended, restarts>>

LeaveInFlight(r, when) ==
    /\ inflight' = inflight \ {about[r]}
    /\ attempted' = [attempted EXCEPT ![about[r]] = when]
    /\ ended' = [ended EXCEPT ![about[r]] = time]

FinishUnattempted(r) ==   \* mutant: an extraction leaves no mark
    /\ at[r] = "finish"
    /\ LeaveInFlight(r, attempted[about[r]])
    /\ Leave(r)
    /\ UNCHANGED <<time, expires, provider, pools, restarts>>
Finish(r) ==
    /\ at[r] = "finish"
    /\ LeaveInFlight(r, time)
    /\ Leave(r)
    /\ UNCHANGED <<time, expires, provider, pools, restarts>>

-----------------------------------------------------------------------------

Pass ==
    /\ time < Horizon
    /\ time' = time + 1
    /\ UNCHANGED <<expires, provider, memory, at, thread, ended, restarts>>

(* The process goes with its memory and threads; .env may have changed.    *)
Restart ==
    /\ restarts < MaxRestarts
    /\ restarts' = restarts + 1
    /\ provider' \in BOOLEAN
    /\ inflight' = {} /\ pools' = 0
    /\ attempted' = [k \in Pairs |-> Never]
    /\ ended' = [k \in Pairs |-> Never]
    /\ at' = [r \in Requests |-> "idle"]
    /\ about' = [r \in Requests |-> NoPair]
    /\ now' = [r \in Requests |-> 0]
    /\ pool' = [r \in Requests |-> 0]
    /\ UNCHANGED <<time, expires>>

Handle(r) ==
    \/ AnswerPending(r) \/ AnswerEmpty(r) \/ Claim(r)
    \/ FindPool(r) \/ CreatePool(r) \/ Enqueue(r)
Run(r) == StartJob(r) \/ Extract(r) \/ Write(r) \/ Finish(r)

OnDemandNext ==
    \/ Pass \/ Restart
    \/ \E r \in Requests : Handle(r) \/ PickUp(r) \/ Run(r)
    \/ \E r \in Requests, k \in Pairs : AnswerAtOnce(r, k) \/ Ask(r, k)

OnDemandSpec == OnDemandInit /\ [][OnDemandNext]_onDemandVars

(* Threads run, calls of an extractor time out, and a pool's queue is      *)
(* first in, first out: a queued job is not overtaken for ever.            *)
OnDemandFairSpec == OnDemandSpec /\ \A r \in Requests :
    WF_onDemandVars(Handle(r)) /\ SF_onDemandVars(PickUp(r)) /\ WF_onDemandVars(Run(r))

-----------------------------------------------------------------------------

(* Types, and that no recorded time lies in the future.                    *)
OnDemandTypeOK ==
    /\ time \in Nat /\ provider \in BOOLEAN
    /\ expires \in [Pairs -> Nat] /\ \A k \in Pairs : expires[k] <= time + FactTtl
    /\ inflight \subseteq Pairs /\ pools \in Nat /\ restarts \in Nat
    /\ attempted \in [Pairs -> Nat \cup {Never}]
    /\ ended \in [Pairs -> Nat \cup {Never}]
    /\ at \in [Requests -> {"idle", "lock"} \cup InFlight]
    /\ about \in [Requests -> Pairs] /\ pool \in [Requests -> Nat]
    /\ now \in [Requests -> Nat] /\ \A r \in Requests : now[r] <= time
    /\ \A k \in Pairs : attempted[k] # Never => attempted[k] <= time

(* Concurrent requests for a key start one extraction (ondemand.py:7).     *)
SingleFlight == \A r, s \in Requests :
    at[r] \in InFlight /\ at[s] \in InFlight /\ about[r] = about[s] => r = s

(* A key in flight has a job that will take it out, and vice versa: the    *)
(* pending a client sees is never about nothing.                           *)
Accounted == inflight = {about[r] : r \in {q \in Requests : at[q] \in InFlight}}

(* No extraction of a key within the cooldown of its last one, however     *)
(* stale the time the request took at its start (ondemand.py:8).           *)
NoStorm == \A r \in Requests :
    at[r] \in {"extract", "write"} /\ ended[about[r]] # Never =>
        time - ended[about[r]] >= Cooldown

(* What makes these hold: every job in flight had cooled down at its claim.*)
CooledDown(k) == attempted[k] = Never \/ time - attempted[k] >= Cooldown
OnDemandInv ==
    /\ SingleFlight /\ Accounted /\ ended = attempted
    /\ \A r \in Requests : at[r] \in InFlight => CooledDown(about[r])

(* A pending key comes to an answer: its extraction ends, whatever fails.  *)
InflightDrains == \A k \in Pairs : k \in inflight ~> k \notin inflight

=============================================================================

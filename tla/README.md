# TLA+ models of ht-estate

ht-estate collects Korean apartment complexes, sale and rent contracts from
public APIs (K-apt, data.go.kr), enriches them, and answers searches over one
SQLite file. This directory models the parts of it whose correctness depends on
order, interleaving, crashes and limits, checks the models with TLC on small
instances, and proves the central properties with TLAPS for every instance.

Run, in this directory:

    tlasany M.tla                         # parse
    tlc -workers 2 -config X.cfg M.tla    # check; PROJECT.json lists the pairs
    tlapm M_proofs.tla                    # prove

`PROJECT.json` maps every definition to the lines it models and lists runs,
mutants, findings, hazards and theorems. Paths below are relative to
`src/apps/api` unless they start with `src/`.

## 1. Inventory

One SQLite file holds all data. Its writers are batch processes started by cron,
systemd timers and hand; they serialise themselves with one lock file. The API
(FastAPI) reads the file in server threads and also writes to it from background
threads that do not take the lock. A Next.js front end polls the API.

| Component | State | Operations | What is hard | Correct means |
|---|---|---|---|---|
| Ingestion run: `scripts/ingest_nationwide.py`, `scripts/ingest_seoul.py`, `app/ingest.py` | position in regions, stages and months | pick pending regions, run the stages of a region, fetch a month, join, geocode | runs die between two commits, calls fail, daily caps, overlapping runs | nothing is skipped, little is fetched twice, interrupted work is continued |
| Progress ledger: `app/store/progress_repo.py` | table `ingest_progress` | record and read finished months | written after the data, in another commit | an entry means the data is there |
| Tables: `app/store/*_repo.py`, `db.py` | complexes, contracts, coordinates | upserts, backfills | re-fetches overwrite | a re-fetch keeps what is known |
| Shared lock: `scripts/lib_lock.sh` and its users | `data/.ingest.lock` | acquire, guard against stale locks, release, traps | kills, orphans, expiry, signals | one writer at a time, no lock left behind |
| shlock: `src/deploy/shlock/shlock.c` | the lock file | link, read, probe, unlink | several system calls | one caller acquires |
| Auto-resume loop: `scripts/ingest_loop.py` | back-off | repeat, classify errors | errors of two kinds at two layers | ends, keeps what was done, stops at a spent quota |
| HTTP client: `app/sources/_http.py` | none | fetch with retry, paginate | transient empty answers | never a short month taken as whole |
| Parsers: `app/sources/*.py` | none | XML and JSON to records | formats | fields kept |
| Join and matching: `app/store/join_repo.py`, `app/match/` | `complex_id` of contracts, `bjd_code` of rents | narrow by legal dong, match by name, then by lot; fill codes | ambiguity, rows overwritten in between | no wrong match, links are final |
| Derived buildings: `app/store/nonapt_repo.py`, `scripts/backfill_derived_apartments.py` | rows of `complex` without a code | key from a contract, upsert, link | read outside the lock, flushed later | registered matches are undisturbed |
| Geocoding: `app/store/geo_repo.py`, `app/geo/` | coordinates | backfill | one commit for many calls | found addresses are kept |
| K-apt refill, building ledger, POI, gym, unit type, schools: `scripts/*.py` | a ledger, or rows counted | locked batches with quota | quota, retry, kills, head-of-line | what is recorded was answered, every complex gets its turn |
| Pipeline state: `app/store/pipeline_state.py` | status rows | record, estimate | stale counters | status follows the tables |
| On-demand enrichment: `app/enrich/ondemand.py` | in-flight set, attempts, pool | status, background extraction | server threads, restarts | one extraction per key, no storm, no endless pending |
| Review corpus: `app/corpus/` , `scripts/build_corpus.py` | chunk table and vector table | build, replace, purge | two tables, three kinds of builder | both tables agree |
| Response cache: `app/search/cache.py` | an LRU dictionary | look up, store, evict | server threads, commits in between | no stale answer, bounded |
| Search: `app/search/*.py` | none | filter, list, rank, map, unit types | several queries over the same tables, missing and contradictory facts | the views agree, ranking excludes nothing |
| Reputation and chat: `app/reputation/`, `app/chat/` | none | retrieve, synthesise | each stage may fail | degrade, never fail |
| Staged enrichment: `scripts/enrich_cron.py`, `auto_enrich.py`, `_seedlib.py` | staging and seed files | select, ask an agent, parse, append, promote, load | overlapping ticks, half lines, free text | no duplicate, rules kept, every complex is asked about |
| Web: `src/apps/web` | React state | search, abort, chat, poll | answers out of order | the latest wins |
| Deployment: `src/deploy/spark` | systemd | timers, control script | configuration | - |

The hazards of each, with their lines, are in `PROJECT.json`; the ones without a
property name what is missing.

## 2. Modules

| Module | Models | EXTENDS / composes |
|---|---|---|
| `MonthLedger` | what the ledger promises: load, record, lose, reload | - |
| `IngestResume` | concurrent ingestion runs against one database | `Promise == INSTANCE MonthLedger` |
| `ResumeLoop` | the loop around a run, its calls and their pages, one region | - |
| `SharedLock` | the clients of the lock file, their calls of shlock by system call | - |
| `Shlock` | callers of shlock alone: attempts, disk errors, termination | - |
| `OnDemand` | request threads and extraction jobs | - |
| `ResponseCache` | request threads, the dictionary, commits of another process | - |
| `CorpusBuild` | bulk, single and API builds of one corpus | - |
| `Batches` | the eight scripts that fill attributes, their worklists and ledgers | the lock abstracted from `SharedLock` |
| `Staging` | agent, staging file, person, seeds, facts that expire | - |
| `Join` | contracts, registered and derived buildings, links | - |
| `Search` | list, ranking, map and unit types over the tables of `Join` | EXTENDS `Join` |
| `*_proofs` | theorems of the module of that name; `SharedLock_proofs` is about `Shlock` too, `Api_proofs` about `ResponseCache` and `OnDemand`, `Market_proofs` about `Join` and `Search` | it, and TLAPS |
| `MC*` | the instance the runs share: model values, symmetry | it |

`\* mutant` marks a variant of a definition with a plausible bug. No
specification uses one; they show that each property can fail.

### IngestResume, MonthLedger

`complexes`, `rows`, `ledger`, `matched` and `coords` are committed rows.
A unit <<stage, region, month>> is a ledger cell, and `rows` holds the units whose
contracts are committed. `pc` and `job` are the control state of each run:
`StartRun` is `main` up to `run_batch`, `NextRegion` its loop, and the stages of
`run_ingest` follow in the order of `STAGE_ORDER` (steps 1 to 10: rent has a join of its
own, non-apartment stages a ledger per kind). A month stage takes its worklist
once (`ListMonths`), and each month is committed (`FetchMonth`) before its ledger entry
(`RecordMonth`), so that `Kill` may fall in between. `Abort` is an exception of an
external call; what the code had not committed is lost. A fetch is one step: it
collects all pages before it writes and commits once.

K-apt answers for a complex in full, with the details only (its basis call has no body, which
is no error), or with nothing. `bare` are the rows an answer of the second kind has left without a legal
dong code and without addresses; such a row counts for no region, takes no contract and has
no address to geocode. Numbers, prices and fields of contracts are left out: `Target` names the complex a
month's contracts belong to, `NoCoord` the complexes whose address the geocoder does not find.

`MonthLedger` is the promise: a unit is loaded, then recorded, and loaded again only
when a kill lost its record. `KeepsPromise` says that resumed runs under the
lock implement it, with `waste <- redundant`, `losses <- kills`.

### ResumeLoop

Between `StartLoop` and `Leave` runs one process of `ingest_loop`. `StartRun` lists what is
due in the region: unit 0, the complex list of K-apt, and the months without a ledger
entry. A unit is fetched page by page (`paginate`); each call of `fetch_text` ends in one of
`Retry`, `GiveUp` (transport error, 5xx, 429), `Deny` (4xx or a result code), `Unconfirmed` (no code,
no rows without a total of zero), `GoodPage`, `PoorPage` (rows or the total missing) or `EmptyPage`
(a confirmed zero). `Raise` leaves the run, and `LoopStops` or `LoopWaits` is the `except` clause of
`loop_until_done`. `doubtful` remembers the months recorded after a page that was not
what the portal holds. `slept` adds up the delays of one call in half seconds, without jitter.
Left out: the details of complexes, the other stages (both in `IngestResume`) and the
lengths of the pauses between runs.

### SharedLock, Shlock

A client of `SharedLock` is a cron tick (guard, try, run, remove), a backfill loop
(try, run a chunk, remove, yield) or a python batch (`ShlockBatch`). Its child works
while it is in `working`. `find` and `rm` of the guard are two steps, `rm -f` removes
whatever is there, and a trap runs after the child and does not end the script, all
as in the shell. A call of shlock is the steps `Acquire` (link), `Exists`, `ReadPid`,
`ProbePid` and `UnlinkStale`, as in `try_lock`, and a refused client does `Retry` or
`GiveUp`; `pidRead` is what a caller has read and may be old when it unlinks. `Faults`
enables orphans, expired locks and SIGTERM; `faulted` remembers the first of them, and the
first unlink of a lock that is not the one the caller has found dead.

`Shlock` has what `SharedLock` leaves out of the call: at most `MaxAttempts` attempts, a
link that fails on the disk, an unlink that fails. `disturbed` remembers the first release or death.

### OnDemand

A member of `Requests` is a handler thread and then the job it submits. The handler
reads facts and clock before it takes the lock (`Ask`); `AnswerPending`, `AnswerEmpty` and
`Claim` are the three ways through the locked section; `FindPool`, `CreatePool` and
`Enqueue` are the unlocked lazy pool. The job checks for facts again, extracts,
writes, and its `finally` block is `Finish`. `Restart` empties memory and may change
the provider. `OnDemandCorpus` has the same in-flight and cooldown logic.

### ResponseCache

Each reader runs `cached` call by call on the dictionary. The database is a count of
commits: `written` in the files, `visible` to readers, `publishedAt` when. `wal` is the
journal mode; `db.py` sets none, so Init allows both. `touched` counts changes of the
files that are no commit.

### CorpusBuild

A chunk stands for its `chunk_id`. `writer` holds SQLite's write lock with the draft of
both tables; `Commit` publishes both, `Rollback` neither. `Bulk` holds the shared lock for the
whole batch, `Single` takes it for the write, `Api` never takes it. `overlapped`
remembers that an API build has been writing at the same time as another build. The passages a
build has found are a set of chunks; that two of its documents have one URL, so that a chunk comes twice
in the list, is `twice`, and makes the second INSERT into the vector table fail (`Conflict`).

### Batches

`job` is the script a behaviour runs, chosen in Init and never changed. The four scripts that
read their worklist once (`SnapshotRun`) keep what is left of it in `rest`, the others select
again for each batch, up to `left` complexes or until a batch moves nothing. One complex is one
`...Turn`: `...Answered` holds the answers of the portal and what is written for them, `...Failed`
the exceptions. Where the write commits before the ledger (`refill`, `unit`, `gym`), `owed` is the
complex in between and `RecordMonth` the second commit; `ledger` has one transaction for
both, and POI and geocoding write to `buf`, which `Crash` loses. A fact is <<complex, what, how>>,
"skip" being the marker of a call that Kakao refuses however often it is repeated (`BadRows`).
`Silent` are the complexes about which K-apt or the geocoder never has anything.
Which client gets the lock is left to `SharedLock`: here it is free, ours or another's, and the other
holder may be the ingestion run, which adds complexes and coordinates.

### Staging

A tick of `enrich_cron.py` is `Select`, `Claude`, `StagedAlready`, `AppendStaging`; `auto_enrich` ends
in `AppendSeed` and `LoadRecords` instead. No lock keeps ticks apart, so the pairs read in
`StagedAlready` may be old in `AppendStaging` (`overlap`). A line the agent prints is a record of what
the parsers look at; `Demote`, `CapWiki`, `Sourced` are their rules, `CapText` cuts at the cap and adds the ellipsis.
`Hopeless` are the complexes for which the agent may never print a usable line. `Die` in the middle of the
append leaves `Torn`, at which `read_staging` raises (`Readable`), until a person removes it (`Mend`).
`staged` is the file, line by line; what a run holds between the look and the write is a set, appended
in any order. `Promote` and `Reject` are the person, `LoadSeed` is the loader of the seeds, and `Expire` ends
the life of a fact.

### Join

Rows of `complex` are K-apt's (`LoadComplex`), without code and address after an answer without basis
(`Stripped`, for the complexes in `Partial`), or derived from contracts (`Building`). A sale has the code MOLIT
gave it, which old data lack. `sale` and `rent`
map a contract to its link and bjd code. `JoinSales` is `backfill_matches` of a table, in one
commit; `RentStage` fills the codes first, in a commit of its own. `DeriveRead` reads the pending
contracts outside the lock and `DeriveFlush` writes one of them. The code flushes a batch of 500 in one
commit: one by one is finer, so every state of the code is among the model's. `Similarity`,
`BestMatch`, `JibunMatch` and `Disambiguate` are the choice of a match; what the regular expressions and
difflib make of names are constants (`Norm`, `Numbers`, `Ratio`, `Within`), about which only
`NameFacts` is assumed. `hurried` remembers the sales linked before the master was complete.

### Search

Operators over the state of `Join`: a query reads and changes nothing. `ComplexWhere` and `TxnWhere` are
the WHERE clauses, `SearchComplexes` the list, `RunSearch` the list after ranking, `MarkerFeed`
the map, `UnitTypeCatalog` the unit types of a building. What `Batches` and `Staging` write about
a building is the constant `Facts`, with the rows of `unit_type` as the enrichments left them
(`Register` reads them; near-equal areas are possible). A NULL attribute fails its filter, a distance that nobody
has computed passes it, as in the SQL. What is sorted is a sequence (`SortedBy`, stable, greatest
key first) of the set the WHERE clause gives (`SetToSeq`: ties in the order of `complex_id`, which is any
fixed order here), and what is summed goes by `SumOf` and `Total`.

## 3. Runs

| Run | Instance | Checks |
|---|---|---|
| `ingest_nightly` | 2 processes under the lock, 2 regions, 2 months, 2 complexes, `--limit 1`, failing calls, 2 kills, `--resume` | `WasteBound`, `RunJoined`, `NothingLeftLoaded`, `CodesStay`, refinement `KeepsPromise`, liveness `LoadCompletes` |
| `ingest_overlap` | 2 processes without the lock, with and without `--resume`, rent and non-apartment stages, a kill | `LedgerSound` |
| `resume_loop` | an empty month, one of 2 pages, a complex list of one page, 8 attempts and 30 s as in the code, 2 runs, a kill | `WholeMonth`, `PermanentEndsLoop`, `RidesOut`, liveness `LoopEnds` and `Completes` |
| `lock` | 2 cron ticks, a loop, a batch, all faults, a kill | `OneWorker` until the first fault or unlink of a live lock, `NoLeak` and `Recovers` always |
| `shlock` | 3 callers, 2 attempts, a death | `RaceHasOneWinner` until the first release or death, `Returns`, `StaleTaken` |
| `ondemand` | 2 requests, 2 keys, a pool of 1, a restart, clock 0 to 2 | `SingleFlight`, `NoStorm`, `InflightDrains` |
| `cache` | 2 readers, 2 keys, 1 entry, a commit, clock 0 to 2, both journal modes | `NoStale` without WAL, `StaleBounded` in both |
| `corpus` | one builder of each kind, 2 chunks, a kill | `Consistent` until an overlap, `Storable` until an overlap or a chunk found twice, `ChunksHaveVectors` always |
| `corpus_orphans` | as `corpus` | `NoOrphans`, violated: finding 1 of section 5 |
| `batches` | each of 8 scripts, 3 complexes of which one arrives late, `--limit 2`, batches of 2, 2 categories, a kill, two calls Kakao always refuses, one complex the portal has nothing about | `Sound`, `CountMeansDone`, liveness `EveryTurn` and `RunEnds` |
| `staging` | 2 overlapping ticks, the manual run, 3 complexes of which the largest never gets a usable answer, `--limit 2`, gym, review and floor plan, answers that break every rule, a mishap | `Disciplined`, `OnePerPair` until an overlap, liveness `Served` |
| `market` | 2 cities with a dong of the same name, 3 registered complexes of which one may lose its code, 2 sales of apartments, one without a code, one of an officetel, and 2 rents; 5 queries | `LinksSound`, `LinksStick`, `MatchIsReference`; in each state `ListMapAgree`, `MostRecent`, `EveryTradeShown`, `DemoteNotExclude` |

Six more configurations are kept beside the runs. Each checks one statement of a comment or a doc that the code
does not keep; TLC finds the counterexample in seconds, and section 5 tells it. The property a run checks in
its place states the condition under which the code does keep it.

| Configuration | Instance | Violated | Holds instead |
|---|---|---|---|
| `IngestRerun.cfg` of `MCIngest` | one process without `--resume`, one complex | `CodesStay` (finding 2) | `CodesStay` with `--resume` |
| `LockTakeover.cfg` of `MCSharedLock` | a cron tick and a loop, no kill, no fault | `SingleWriter` (3) | `OneWorker` |
| `CorpusTwice.cfg` of `MCCorpusBuild` | a bulk and a single builder, no kill | `SamePlaceOverwrites` (4) | `Storable` |
| `BatchesStarved.cfg` of `MCBatches` | the refill, `--limit 1`, one complex the portal has nothing about | `EveryTurnAtLast` (5) | `EveryTurn` |
| `StagingStarved.cfg` of `MCStaging` | `--limit 1`, the largest complex never gets a usable answer | `Accumulates` (6) | `Served` |
| `JoinUncoded.cfg` of `MCJoin` | the trades of `market` | `SameKind` (7) | `MatchIsReference` |

### Bounds

The bounds (`MaxKills`, `MaxTime`, `MaxCommits`, `MaxRestarts`, sizes of the sets) are constants,
and every guard that uses one names it. They are the least with which the
interesting cases happen: two regions, so that `--limit 1` has to leave one for the
next run; a month of two pages, so that a fetch can be cut between them; two months, so that a worklist is partly done; two kills, so that the
record lost to the first may be lost again; three shlock callers, so that one steals
what a second has just acquired from a third; one pool thread and two requests, so
that a job waits; a dictionary of one entry and two keys, so that entries are evicted
under another thread's hands; a clock of 2 with a cooldown of 2, so that a second
extraction falls before, at and after it; two chunks, so that a corpus is replaced by
one that shares nothing with it. The constants 64, 256, 120 s and 6 h of the code play
the role of `MaxAttempts`, `MaxEntries`, `Ttl` and `Cooldown`; nothing in the models
depends on their size. In `batches` three complexes with a limit and a batch of two leave one for a
later batch and one for a later run; the late one comes first in the order. In `staging` a limit of two
lets the largest complex, which is never answered, be asked about with one other, so that the smallest has to wait
for the middle one. The trades of `market` are chosen by
names: one sale is as near by name to two complexes and only its lot tells, one is of the same building but
comes without a code, so that a complex of the other city and a derived officetel fit too, a rent is of another
phase on the same lot, and an officetel
and a rowhouse carry their own building. The two sales of one complex are just a tolerance
apart, its register holds areas nearer than one, the facts contradict each other, and the queries differ in deal, filters, limit
and zoom band so that each view, a filtered list included, is cut, clustered and shown in full. `cache` uses the symmetry of readers; runs with liveness use none.

### Fairness

`ingest_nightly`: a running process moves on and cron keeps starting runs (weak
fairness), and a call that is retried for ever succeeds some time (strong fairness of
the fetch actions): daily caps reset and outages end. That K-apt at last answers in full for each complex
(strong fairness of `FullAnswer`) is an assumption about the portal, not the code's doing: with answers
without a basis for ever, no region would get a complex that counts. Kills are bounded, failures are not.
`resume_loop`: the process moves on, every call ends, and cron starts the loop again. `Completes`
assumes in addition that a page that is asked for again and again is answered some time
(`PortalAnswers`: strong fairness of `GoodPage` for each page, and of the confirmed zero of an
empty month); `LoopEnds` does not.
`lock`: a client moves on; no kill, signal or expiry is required. `shlock`:
strong fairness of an attempt, since the disk may fail but not every time; releases
and new calls are weakly fair. `ondemand`: threads run, extractors have timeouts,
and a queued job is not overtaken for ever because the queue of a
ThreadPoolExecutor is first in, first out (strong fairness of `PickUp`).
`batches`: the scripts are started again and again, other holders give the lock back, now and then within
`max_spin` (strong fairness of that release, which `RunEnds` and `EveryTurn` need, since nothing in
the code orders the waiters), calls return, and a portal asked about a complex again and again at last
says what it has (strong fairness of `Answered`), which for the complexes in `Silent` is nothing: no row, no
ledger entry. `EveryTurn` is about the others, and about a worklist that such complexes do not fill
(`RoomLeft`); without that proviso it is `EveryTurnAtLast`, which `BatchesStarved.cfg` refutes. `staging`: ticks go on, a person mends a torn file and
loads the seeds, and a complex asked about again and again gets a usable answer at last, except those in
`Hopeless`, of which nothing is assumed. `Served` asks for fewer of them than `--limit`; without
that it is `Accumulates`, which `StagingStarved.cfg` refutes.
No liveness rests on fairness of a failure.

## 4. Theorems

Each theorem is of `Spec`, for every value of the constants that satisfies the named
assumptions; finiteness is assumed of `Regions`, `Months`, `Categories` and of the facts known of one building.

| Module | Theorems | Argument |
|---|---|---|
| `IngestResume_proofs` | `TypeCorrect`, `LedgerIsSound`, `CodesAreKept`, `WasteIsBounded`, `RunKeepsPromise`, `NothingLeftIsLoaded`, `EndedRunIsJoined` | `IInv` and `WasteInv` below; `JoinInv`: nothing is loaded between a region's join and the next region; a resumed run asks for no complex that has a code (`CodesAreKept`) |
| `ResumeLoop_proofs` | `StateCorrect`, `MonthsWhole`, `PermanentIsFinal`, `OutageRiddenOut` | `FetchInv`: page n is asked for after all before it have arrived; `RideInv`: before attempt n a call has slept `Waited(n)` |
| `SharedLock_proofs` | `TypeCorrect`, `NothingLeaks`, `MutualExclusion`; of `Shlock` `ShlockTypes`, `OneWinner` | whoever works is named by the file, until the first fault or unlink of a live lock; nobody sees a dead PID until the first release or death |
| `Api_proofs` | of `ResponseCache` `TypeCorrect`, `AnswersAreFresh`, `StalenessIsBounded`; of `OnDemand` `FactTypes`, `OneExtraction`, `InflightAccounted`, `CooldownKept` | an entry whose signature is that of the files shows what was visible when it was computed; `inflight` is the set of keys of jobs, and each such key had cooled down |
| `CorpusBuild_proofs` | `TypeCorrect`, `TablesAgree`, `FoundIsStored`, `ChunksAreSearchable` | one build writes at a time, so what it listed is all there is, and only a chunk found twice can conflict; a draft to be committed has its vectors (`DraftInv`) |
| `Market_proofs` | of `Join` `LinksAreSound`, `LinksAreFinal`, `MatchesAreReference`, `RecallAgrees`; of `Search` `ListIsMap`, `ListIsMostRecent`, `NoTradeIsLost`, `UnknownIsNotExcluded` | derived and stripped rows have no code, the id of a derived one tells dong and name; the tables are finite |
| `Batches_proofs` | `RecordedIsAnswered`, `CountsAgree` | the complex in `owed` has been answered; one row per complex and category |
| `Staging_proofs` | `StagingInvariant`, `RulesKept`, `StagedOnce` | only a parser makes a record; a run about to write holds no staged pair (`PairInv`) |

`LedgerSound` alone is not inductive: `RecordMonth` adds a unit, and that its rows are there
follows only from where the run stands. `IInv` adds `ControlOK`: in step "record" the
first month of the worklist has its rows committed. `WasteIsBounded` needs
`WasteInv`: one run at a time, its worklist is unrecorded, and the number of
loaded but unrecorded units plus the re-fetches so far is at most the kills,
plus one while a unit is being recorded. A kill in that state pays for the unit
that it leaves behind; a re-fetch moves one from the first term to the second.
`RunKeepsPromise` maps every step to a step of `MonthLedger` or a stutter with the same
invariant; it assumes `Serialized` and that all runs use `--resume`, which is how cron starts them.

`LinksSound` is not inductive: a derivation overwrites rows that links lead to. `IInv` of
`Market_proofs` adds that a row is the master's, whole or stripped, or has no code and the dong and
normalized name of its id (`RowsInv`), so that overwriting one keeps what its links rest on (`SameRow`; the
link to a stripped row rests on what the master gives for it, `Full`); that rows of
`sale` and `rent` have the codes of their contracts or, filled in, those of a complex of that city and
dong; and that what a derivation has read still names its contract's own building (`BatchInv`).
`MatchesAreReference` follows since a coded contract has the master's candidates only; it is about coded
sales, and about the others it would be false (finding 7).
`NameFacts`, `MasterFacts` and `TradeFacts` are assumed: equal normalized names have equal
numbers, codes of the master determine the dong, and a sale of an apartment has a code of its city or none. `RecallAgrees` holds
in every state and needs no induction. `SInv` of `Batches_proofs` counts the complex in `owed` as
recorded and says that a positive answer is a row; `CountsAgree` turns "one row per category" into equal
cardinalities by a bijection, for finite `Categories`.

`RunJoined` needs to know where a run stands: `JoinInv` says that the sales are joined from the end of
the join of a region to the first load of the next, and when a run has no region left; it assumes
`Serialized`. `NothingLeftLoaded` needs no more than `LedgerSound`: the launcher reads the ledger in the step
in which it reports.

`OutageRiddenOut` has a hypothesis of its own, `CodeNumbers`: eight attempts and a cap of 30 s, as in
`_http.py`. `Waited` is the closed form of the sum of the delays, so that no induction over the
attempts is needed: each attempt adds one delay (`DelayAdds`).

The theorems about the cache go by what an entry is worth (`EntryInv`): it shows the commits that were visible
when it was made, and with a rollback journal all those its signature counts, so one whose signature still
fits hides none. A reader's local copies are worth the same (`ReaderInv`), whatever other threads do to the
dictionary in between, which is what makes it harmless that there is no lock.

The queries are theorems of every state loads and joins can reach: `Spec => []P` follows from `IInv` and from
the tables being finite (`Finite`, inductive), without a step of their own. The work is in the operators,
in four layers: induction on numbers and finite sets over an explicit set of the good ones (`CountUp`,
`AddOneByOne`; the induction theorems of the library take an operator as parameter); greatest and least elements and sets as
sequences (`MaxIs`, `MinIs`, `SeqIs`); that sorting permutes rows and orders their keys (`Places`, `Sorting`), that
sums exist and are monotone (`SumIs`, `SumLess`), that the parts of a set add up to it
(`PartsAddUp`); then the view itself. `ListIsMap`: a band's groups part the viewport. `ListIsMostRecent`: the list is a
prefix of the sorted hits. `NoTradeIsLost`: every bucket has the area of one of its trades, so two buckets
differ (`BucketsAre`), and the register takes a bucket at most once (`GivenInv`). `UnknownIsNotExcluded`: a
building that scores less in every active criterion has the lesser sum (`SumsCompare`), and a gym a
source has seen scores at least 600 per mille, one nobody has seen at most 300 (`GymScore`). Assumed are `SaneFacts`
(columns hold numbers, the register of a building is finite, confidences lie between 0 and 100 as the parsers clamp them, a trade has an area, which
`required_text` of the parsers sees to) and `SaneQueries` (what `HardFilterSpec` and `SoftSpec` validate).

In `SharedLock`, `Shlock`, `CorpusBuild` and `Staging` an invariant is conditional on a history
variable where the code does not keep the property beyond that point: see below.
`ControlOK`, `WasteInv`, `JoinInv`, `DraftInv`, `PairInv` and each `IInv` were first checked with TLC as invariants
of the runs. Modules that one proof module extends share no names.

Only model-checked: the liveness properties (`LoadCompletes`, `LoopEnds`, `Completes`, `Recovers`,
`Returns`, `StaleTaken`, `InflightDrains`, `EveryTurn`, `RunEnds`, `Served`), since fairness is beyond the prover.
Every other property of the runs that pass is the subject of a theorem.

## 5. Where code and text disagree

The first is the counterexample of a run, the next six are those of the further configurations of section 3.

1. `NoOrphans` (run `corpus_orphans`): `corpus/store.py:67` lists the chunk ids before its transaction; two builds that
   overlap leave vectors without chunks. Worse, the next build that finds the same
   passage fails on the primary key of the vector table, every time.
2. `CodesStay` without `--resume`: a basis answer without a body is no error (`sources/_http.py:189`, `sources/kapt.py:138`),
   and `upsert_complex` (`complex_repo.py:163`) overwrites every column: a complex that was known loses its
   code and addresses, is no candidate of the join and no longer counts for its region. Runs with
   `--resume` ask only in regions that have no complex with a code, so they take nothing away (`CodesStay` in
   `ingest_nightly`); a refill of the K-apt fields (`refill_kapt_fields.py`) writes the same way.
3. `SingleWriter`: `shlock.c:63` unlinks by name after it has probed a PID it read before, or read
   none: a caller can remove a lock linked in between, and two clients work, without any kill. `OneWorker` and
   `RaceHasOneWinner` are stated up to that point.
4. `SamePlaceOverwrites`: no step drops a document whose URL has come before (`enrich/fetcher.py:79-90`), and the
   second INSERT of the chunk into the vector table fails (`corpus/store.py:110`). `run_bulk` has no
   handler, so the run ends there, and the next one comes to the same complex again.
5. `EveryTurnAtLast`: the fixed order keeps complexes that are never answered at the head: a `--limit` run
   of the refill can consist of them (`refill_kapt_fields.py:206`). `backfill_geocode.sh:53` likewise gives up when a
   whole chunk has no result and logs `[geocode-done]`, although later addresses are pending.
6. `Accumulates`: a complex for which the agent prints no usable line leaves no record
   (`auto_enrich.py:153`): once as many of them as `--limit` are the largest, no other is asked about,
   although `src/docs/auto-enrich.md:37` says that the staging accumulates.
7. `SameKind`: a sale of old without a code, or a rent whose dong has no unique code, is narrowed by
   the name of its dong among all rows of `complex` (`join_repo.py:101-121`), so an officetel of its
   name takes the trade of an apartment.

The following are reachable in the models too. They have no run of their own; the properties that
exclude them are stated with the condition under which they hold.

8. A complex stage cut short is never continued (`progress_repo.py:44`): the first stored
   complex makes the region count as loaded. The runbook
   (`src/docs/ingest-nationwide.md:5,42`) says that every stage continues. `NothingLeftLoaded` is
   stated for what the code counts as loaded.
9. `ondemand.py:80` reads the facts before the lock: a request that takes the lock just
   after an extraction has succeeded answers "no information".
10. The `cleanup` trap of `backfill_geocode.sh:25` does not exit and does not reset `HOLDING`;
    the script's own `rm -f` then removes a lock another client has acquired (`Trap`, then
    `Release`).
11. A run killed between its last month and its join leaves contracts unmatched, and the
    same command then reports nothing left, since join does not gate a region
    (`ingest_nationwide.py:35,182`). The next run that has any work joins them (`RunJoined`).
12. A shell killed without its child leaves a lock that looks dead while the child works
    (`lib_lock.sh:24`); `OneWorker` holds until then.
13. A run longer than the TTL loses its lock: nobody renews the mtime (`lib_lock.sh:20`).
14. Two first requests create two pools (`ondemand.py:65`), so four extractions may run.
15. With a WAL, a value read before a commit shows is kept under the signature of the
    files after it, for at most a TTL (`cache.py:66`; `StaleBounded`). The comments count
    on a WAL, but no code sets the journal mode.
16. `move_to_end` raises KeyError when another thread has evicted the key
    (`cache.py:75,79`, the state "error"); the comment says it never crashes.
17. The purge of an irrelevant corpus fails on the API's connection, which has not
    loaded the vector extension (`builder.py:100`), and the error is swallowed: the
    stale reviews stay (`VecLoaded`).
18. The docstring of `paginate` (`_http.py:116`) says that it stops when what it has collected
    reaches the total. The code goes by page numbers: a page short of rows, or rows
    skipped as malformed, end a month that is recorded incomplete (`PoorPage`, `doubtful`).
19. The ride-out of 61 s (`_http.py:25`) holds without `Retry-After`: a portal that answers 429
    with `Retry-After: 0` uses up all eight attempts at once (`hurried`).
20. `Throttle` promises a distance between calls (`throttle.py:22`), but is asked once per month
    and per complex: pages and the two calls of a complex follow each other at once.

In the data path (`Join`, `Search`):

21. A rent without a code is matched by the name of its dong in any city (`join_repo.py:116-121`). The
    join runs right after the load, so a dong with a rent but without a filled code links across
    cities, and the link stays when the code is known later. `RentSound` claims the dong only.
22. A sale joined while complexes of its dong are missing gets the nearest of those present and keeps
    it (`hurried`); a sale derived before the join keeps its own building for good, although the
    registered complex appears later.
23. `_flush` (`backfill_derived_apartments.py:35`) writes the building even if the contract has been linked
    meanwhile, which leaves a building without contracts, and counts it as linked.
24. A rent loaded again gets `bjd_code` NULL until the next join (`rent_transaction_repo.py`, the
    column is among those updated).
25. Without trade filters a list of jeonse or monthly rents is sorted by the latest rent of either kind
    (`repo.py:550`), while the card shows the latest of its kind; the comment says the same
    trade filter. `MostRecent` therefore asks for a filter or a sale.
26. A criterion given twice is weighted (w1+w2) for each occurrence, not in total (`ranking.py:45`).
27. Clusters go by the name of the 시군구: two of one name in different 시도 are one cluster.
28. A complex whose K-apt row lacks the facilities text counts as one without daycare
    (`complex_repo.py:152` writes 0), so it is "missed" where other attributes would be "unknown".

In the scripts (`Batches`, `Staging`):

29. A POI batch in which every complex failed counts zero and reports `[done]` (`enrich_poi.py:72`).
30. A run of `enrich_cron.py` killed while it appends leaves half a line, and every later tick raises in
    `read_staging` (`enrich_cron.py:75`) until somebody removes it.
31. Overlapping ticks stage the same source twice (`enrich_cron.py:100`); the docstring calls re-runs idempotent.
32. A source the person rejects is not remembered: the complex is selected and asked about again
    (`auto_enrich.py:153`).
33. `load_seed` skips a complex with any fresh fact (`_seedlib.py:54`): a second source promoted later
    waits until the first expires.
34. The docstring of `_cap_text` (`auto_enrich.py:261`) says at most `limit` characters; with the
    ellipsis it is one more, which `tests/test_review_enrich.py:55` allows (`Disciplined`).

## 6. Not modelled

The text of queries, reviews and prompts, numeric parsing, geometry, HTML and
styles are data to which the properties above are blind. Query parsing turns Korean text into a
`HardFilterSpec`, the type of the constant `Queries`. Reputation and chat are chains of calls
without state whose every except clause is one line. The front end keeps its state in React
effects; its hazards are listed, not modelled. Pipeline state and diagnostics only report.
The bulk runner's own ledger (`build_corpus.py`) is left out: it has the form of `Batches`. Two idealisations
matter: a PID is not reused in `SharedLock` and `Shlock`, and the signature of the cache
changes with every write, as it does when the clock of the file system is fine enough. `PROJECT.json` lists each
component with its status and reason.

## 7. Plan

Done, in this order: `MonthLedger` and `IngestResume` with proofs; `ResumeLoop`; `SharedLock`, `Shlock`;
`OnDemand`; `ResponseCache`; `CorpusBuild`; `Batches`, `Staging`, `Join` and `Search`.

Left:

1. The front end: aborts, parallel fetches, chat answers and polls.
2. The composition of `Batches` with `SharedLock` in place of its abstract lock.

----------------------------- MODULE Api_proofs -----------------------------
(***************************************************************************)
(* The threads of the API share two structures.  The response cache, for   *)
(* any threads, keys, commits, size and TTL: with a rollback journal an    *)
(* answer shows every commit its request could have read, with a WAL every *)
(* commit a TTL older than its request.  And OnDemandEnricher, for any     *)
(* keys, requests, pools, cooldown and restarts, in the second half.       *)
(***************************************************************************)
EXTENDS ResponseCache, OnDemand, TLAPS

LEMMA TypeInit == Init => TypeOK
<1>. SUFFICES ASSUME Init PROVE TypeOK
  OBVIOUS
<1>. USE CacheConstants DEF Init
<1>1. NoKey \in Keys /\ NoSig \in Nat \X Nat
  BY DEF NoKey, NoSig
<1>2. wal \in BOOLEAN
  BY Zenon
<1>3. pc \in [Readers -> Labels]
  BY DEF Labels
<1>. QED  BY <1>1, <1>2, <1>3 DEF TypeOK

LEMMA TypeNext == TypeOK /\ [Next]_vars => TypeOK'
<1>. SUFFICES ASSUME TypeOK, [Next]_vars PROVE TypeOK'
  OBVIOUS
<1>. USE CacheConstants DEF TypeOK, Labels, Goto, disk, cache, local
<1>1. CASE UNCHANGED vars
  BY <1>1 DEF vars
<1>2. CASE WriteCommit \/ Publish \/ TouchFiles \/ Tick
  <2>1. wal' \in BOOLEAN
    BY <1>2, Zenon DEF WriteCommit, Publish, TouchFiles, Tick
  <2>2. CASE WriteCommit \/ TouchFiles \/ Tick
    BY <2>1, <2>2 DEF WriteCommit, TouchFiles, Tick
  <2>3. CASE Publish
    BY <2>1, <2>3 DEF Publish
  <2>. QED  BY <1>2, <2>2, <2>3
<1>3. ASSUME NEW r \in Readers, Step(r) PROVE TypeOK'
  <2>1. ASSUME NEW k \in Keys, Begin(r, k) PROVE TypeOK'
    BY <2>1 DEF Begin, DataSignature
  <2>2. CASE Get(r)
    BY <2>2 DEF Get, Valid, Entries
  <2>3. CASE Touch(r) \/ TouchNew(r)
    BY <2>3 DEF Touch, TouchNew, MoveToEnd
  <2>4. CASE Compute(r)
    BY <2>4 DEF Compute
  <2>5. CASE Store(r)
    <3>1. [ts |-> ts[r], sig |-> sig[r], val |-> val[r]] \in Entries
      BY DEF Entries
    <3>. QED  BY <2>5, <3>1 DEF Store
  <2>6. CASE Evict(r)
    BY <2>6 DEF Evict
  <2>7. CASE Respond(r)
    <3>1. NoKey \in Keys /\ NoSig \in Nat \X Nat
      BY DEF NoKey, NoSig
    <3>. QED  BY <2>7, <3>1 DEF Respond
  <2>. QED  BY <1>3, <2>1, <2>2, <2>3, <2>4, <2>5, <2>6, <2>7 DEF Step
<1>. QED  BY <1>1, <1>2, <1>3 DEF Next

(* Types of the files, of the cache and of the threads' local variables.   *)
THEOREM TypeCorrect == Spec => []TypeOK
BY TypeInit, TypeNext, PTL DEF Spec

LEMMA IInvInit == Init => IInv
BY CacheConstants DEF Init, IInv, DiskInv, EntryInv, ReaderInv, Kept, Served

(* SQLite publishes one commit at a time, at the time of its clock.        *)
LEMMA DiskNext == TypeOK /\ DiskInv /\ [Next]_vars => DiskInv'
<1>. SUFFICES ASSUME TypeOK, DiskInv, [Next]_vars PROVE DiskInv'
  OBVIOUS
<1>. USE CacheConstants DEF TypeOK, DiskInv, disk
<1>1. CASE UNCHANGED vars
  BY <1>1 DEF vars
<1>2. CASE WriteCommit \/ Publish \/ TouchFiles \/ Tick
  BY <1>2 DEF WriteCommit, Publish, TouchFiles, Tick
<1>3. ASSUME NEW r \in Readers, Step(r) PROVE DiskInv'
  <2>1. UNCHANGED <<clock, disk>>
    BY <1>3 DEF Step, Begin, Get, Touch, Compute, Store, TouchNew, Evict, Respond
  <2>. QED  BY <2>1
<1>. QED  BY <1>1, <1>2, <1>3 DEF Next
(* A commit that is published later is published no earlier than any time  *)
(* taken so far, so that what shows all commits before such a time goes on *)
(* doing so.                                                               *)
LEMMA ShowsStays ==
    ASSUME TypeOK, DiskInv, [Next]_vars, NEW n \in Nat, NEW t \in Nat, t <= clock,
           \A v \in 1 .. visible : publishedAt[v] < t => n >= v
    PROVE  \A v \in 1 .. visible' : publishedAt'[v] < t => n >= v
<1>. USE CacheConstants DEF TypeOK, DiskInv, disk
<1>1. CASE Publish
  <2>1. written \in 1 .. MaxCommits /\ visible' = written /\ written = visible + 1
    BY <1>1 DEF Publish
  <2>2. publishedAt' = [publishedAt EXCEPT ![written] = clock]
    BY <1>1 DEF Publish
  <2>. QED  BY <2>1, <2>2
<1>2. CASE UNCHANGED <<visible, publishedAt>>
  BY <1>2
<1>3. Publish \/ UNCHANGED <<visible, publishedAt>>
  BY DEF Next, vars, WriteCommit, TouchFiles, Tick, Step, Begin, Get, Touch, Compute,
         Store, TouchNew, Evict, Respond
<1>. QED  BY <1>1, <1>2, <1>3

LEMMA ClockGrows == TypeOK /\ [Next]_vars => clock' \in Nat /\ clock' >= clock /\ wal' = wal
<1>. SUFFICES ASSUME TypeOK, [Next]_vars
     PROVE  clock' \in Nat /\ clock' >= clock /\ wal' = wal
  OBVIOUS
<1>1. clock' = clock \/ clock' = clock + 1
  BY DEF Next, disk, vars, WriteCommit, Publish, TouchFiles, Tick, Step, Begin, Get, Touch,
         Compute, Store, TouchNew, Evict, Respond
<1>2. wal' = wal
  BY Zenon DEF Next, disk, vars, WriteCommit, Publish, TouchFiles, Tick, Step, Begin, Get,
         Touch, Compute, Store, TouchNew, Evict, Respond
<1>. QED  BY <1>1, <1>2 DEF TypeOK

(* An entry shows what it promises when it is stored and never less later. *)
LEMMA EntryNext == TypeOK /\ IInv /\ [Next]_vars => EntryInv'
<1>. SUFFICES ASSUME TypeOK, IInv, [Next]_vars, NEW k \in Keys, entry'[k] # None
     PROVE  Kept(k)'
  BY DEF EntryInv, Kept
<1>1. clock' \in Nat /\ clock' >= clock /\ wal' = wal
  BY ClockGrows
<1>2. ASSUME entry'[k] = entry[k] PROVE Kept(k)'
  <2>1. entry[k] \in Entries
    BY <1>2 DEF TypeOK
  <2>. DEFINE e == entry[k]
  <2>2. /\ e.ts <= clock /\ e.ts \in Nat /\ e.val \in Nat
        /\ ~wal => e.val >= e.sig[1]
        /\ \A v \in 1 .. visible : publishedAt[v] < e.ts => e.val >= v
    BY <1>2, <2>1 DEF IInv, EntryInv, Kept, Shows, Entries
  <2>. HIDE DEF e
  <2>3. \A v \in 1 .. visible' : publishedAt'[v] < e.ts => e.val >= v
    BY <2>2, ShowsStays DEF IInv
  <2>4. e.ts <= clock'
    BY <1>1, <2>2 DEF TypeOK
  <2>5. entry'[k] = e
    BY <1>2 DEF e
  <2>. QED  BY <1>1, <2>2, <2>3, <2>4, <2>5 DEF Kept, Shows
<1>3. ASSUME NEW r \in Readers, Store(r), key[r] = k PROVE Kept(k)'
  <2>1. entry'[k] = [ts |-> ts[r], sig |-> sig[r], val |-> val[r]]
    BY <1>3 DEF Store, TypeOK
  <2>2. /\ ts[r] <= clock /\ val[r] >= since[r] /\ (~wal => val[r] >= sig[r][1])
        /\ \A v \in 1 .. visible : publishedAt[v] < ts[r] => since[r] >= v
    BY <1>3 DEF IInv, ReaderInv, Served, Store, Shows
  <2>3. UNCHANGED <<clock, visible, publishedAt, wal>>
    BY <1>3 DEF Store, disk
  <2>4. /\ ts[r] \in Nat /\ val[r] \in Nat /\ since[r] \in Nat /\ visible \in Nat
    BY DEF TypeOK
  <2>5. \A v \in 1 .. visible : publishedAt[v] < ts[r] => val[r] >= v
    BY <2>2, <2>4
  <2>. QED  BY <2>1, <2>2, <2>3, <2>5 DEF Kept, Shows
<1>4. \/ entry'[k] = entry[k]
      \/ \E r \in Readers : Store(r) /\ key[r] = k
  <2>1. CASE \E r \in Readers : Store(r)
    BY <2>1 DEF Store, TypeOK
  <2>2. CASE \E r \in Readers : Evict(r)
    BY <2>2 DEF Evict, TypeOK, cache
  <2>3. CASE UNCHANGED entry
    BY <2>3
  <2>. QED  BY <2>1, <2>2, <2>3 DEF Next, vars, cache, WriteCommit, Publish, TouchFiles,
              Tick, Step, Begin, Get, Touch, Compute, TouchNew, Respond
<1>. QED  BY <1>2, <1>3, <1>4

-----------------------------------------------------------------------------
(* A request.  Steps of the files and of other requests leave its promises *)
(* alone; an answer is stored, found or computed with what they ask for.   *)

LEMMA DiskGrows ==
    ASSUME TypeOK, DiskInv, [Next]_vars
    PROVE  /\ visible' \in Nat /\ visible <= visible' /\ written' \in Nat
           /\ written <= written'
           /\ \A v \in 1 .. visible : publishedAt'[v] = publishedAt[v]
<1>. USE CacheConstants DEF TypeOK, DiskInv, disk
<1>1. CASE Publish
  BY <1>1 DEF Publish
<1>2. CASE WriteCommit
  BY <1>2 DEF WriteCommit
<1>3. CASE UNCHANGED <<visible, publishedAt, written>>
  BY <1>3
<1>4. Publish \/ WriteCommit \/ UNCHANGED <<visible, publishedAt, written>>
  BY DEF Next, vars, TouchFiles, Tick, Step, Begin, Get, Touch, Compute, Store, TouchNew,
         Evict, Respond
<1>. QED  BY <1>1, <1>2, <1>3, <1>4

(* A request in its place keeps its promises whatever else happens, and    *)
(* one that has an answer goes on with it.                                 *)
LEMMA GoesOn ==
    ASSUME TypeOK, IInv, [Next]_vars, NEW r \in Readers, pc[r] # "idle",
           UNCHANGED <<ts[r], sig[r], since[r]>>,
           \/ pc'[r] \in {"get", "compute", "error"}
           \/ pc'[r] = pc[r] /\ val'[r] = val[r]
           \/ /\ pc[r] \in {"touch", "touchNew", "evict"} /\ val'[r] = val[r]
              /\ pc'[r] \in {"evict", "answer"}
    PROVE  Served(r)'
<1>. DEFINE t == ts[r]
            n == since[r]
            w == val[r]
<1>1. /\ t <= clock /\ n <= visible /\ n <= sig[r][1] /\ sig[r][1] <= written
      /\ \A v \in 1 .. visible : publishedAt[v] < t => n >= v
  BY DEF IInv, ReaderInv, Served, Shows
<1>2. /\ clock' \in Nat /\ clock \in Nat /\ clock <= clock' /\ wal' = wal
      /\ visible \in Nat /\ written \in Nat /\ sig[r][1] \in Nat
      /\ t \in Nat /\ n \in Nat /\ w \in Nat
  BY ClockGrows DEF TypeOK
<1>3. /\ visible' \in Nat /\ visible <= visible' /\ written' \in Nat
      /\ written <= written' /\ \A v \in 1 .. visible : publishedAt'[v] = publishedAt[v]
  BY DiskGrows DEF IInv
<1>4. /\ pc[r] = "store" => w >= n /\ (~wal => w >= sig[r][1])
      /\ pc[r] \in {"touch", "touchNew", "evict", "answer"} /\ ~wal => w >= n
      /\ pc[r] \in {"touch", "touchNew", "evict", "answer"} =>
           \A v \in 1 .. n : t - publishedAt[v] >= Ttl => w >= v
  BY DEF IInv, ReaderInv, Served, Bounded
<1>5. ts'[r] = t /\ sig'[r] = sig[r] /\ since'[r] = n
  OBVIOUS
<1>6. val'[r] = w \/ pc'[r] \in {"get", "compute", "error"}
  OBVIOUS
<1>. HIDE DEF t, n, w
<1>7. \A v \in 1 .. visible' : publishedAt'[v] < t => n >= v
  BY <1>1, <1>2, ShowsStays DEF IInv
<1>8. \A v \in 1 .. n : publishedAt'[v] = publishedAt[v]
  BY <1>1, <1>2, <1>3
<1>9. /\ ts'[r] <= clock' /\ Shows(since[r], ts[r])'
      /\ since'[r] <= visible' /\ since'[r] <= sig'[r][1] /\ sig'[r][1] <= written'
  BY <1>1, <1>2, <1>3, <1>5, <1>7 DEF Shows
<1>10. /\ pc'[r] = "store" => val'[r] >= since'[r] /\ (~wal' => val'[r] >= sig'[r][1])
  BY <1>2, <1>4, <1>5, <1>6
<1>11. pc'[r] \in {"touch", "touchNew", "evict", "answer"} =>
         Bounded(r)' /\ (~wal' => val'[r] >= since'[r])
  BY <1>2, <1>4, <1>5, <1>6, <1>8 DEF Bounded
<1>. QED  BY <1>9, <1>10, <1>11 DEF Served

(* A value found under the signature of the request has every commit that  *)
(* the signature counts, or what was visible a TTL before the request.     *)
LEMMA HitServes == ASSUME TypeOK, IInv, [Next]_vars, NEW r \in Readers, Get(r)
                   PROVE  Served(r)'
<1>1. CASE ~Valid(r, entry[key[r]])
  <2>1. pc[r] # "idle" /\ pc'[r] = "compute" /\ UNCHANGED <<ts, sig, since>>
    BY <1>1 DEF Get, Goto, local, TypeOK
  <2>. QED  BY <2>1, GoesOn
<1>2. CASE Valid(r, entry[key[r]])
  <2>. DEFINE e == entry[key[r]]
  <2>1. e \in Entries /\ e # None /\ Kept(key[r])
    BY <1>2 DEF TypeOK, IInv, EntryInv, Valid
  <2>2. /\ e.sig = sig[r] /\ ts[r] - e.ts < Ttl
        /\ ~wal => e.val >= e.sig[1]
        /\ \A v \in 1 .. visible : publishedAt[v] < e.ts => e.val >= v
        /\ e.ts \in Nat /\ e.val \in Nat
    BY <1>2, <2>1 DEF Valid, Kept, Shows, Entries
  <2>. HIDE DEF e
  <2>3. /\ val'[r] = e.val /\ pc'[r] = "touch"
        /\ UNCHANGED <<clock, ts, sig, since, visible, written, publishedAt, wal>>
    BY <1>2 DEF e, Get, Goto, TypeOK, disk, local
  <2>4. /\ ts[r] <= clock /\ Shows(since[r], ts[r])
        /\ since[r] <= visible /\ since[r] <= sig[r][1] /\ sig[r][1] <= written
    BY DEF Get, IInv, ReaderInv, Served
  <2>5. /\ ts[r] \in Nat /\ since[r] \in Nat /\ sig[r][1] \in Nat /\ visible \in Nat
        /\ Ttl \in Nat /\ publishedAt \in [1 .. MaxCommits -> Nat]
        /\ visible \in 0 .. MaxCommits
    BY CacheConstants DEF TypeOK, IInv, DiskInv
  <2>6. ~wal => e.val >= since[r]
    BY <2>2, <2>4, <2>5
  <2>7. \A v \in 1 .. since[r] : ts[r] - publishedAt[v] >= Ttl => e.val >= v
    <3>. SUFFICES ASSUME NEW v \in 1 .. since[r], ts[r] - publishedAt[v] >= Ttl
         PROVE  e.val >= v
      OBVIOUS
    <3>1. v \in 1 .. visible /\ v \in 1 .. MaxCommits
      BY <2>4, <2>5, CacheConstants
    <3>2. publishedAt[v] \in Nat
      BY <2>5, <3>1
    <3>. QED  BY <2>2, <2>5, <3>1, <3>2
  <2>. QED  BY <2>3, <2>4, <2>6, <2>7 DEF Served, Bounded, Shows
<1>. QED  BY <1>1, <1>2

LEMMA ReaderNext == TypeOK /\ IInv /\ [Next]_vars => ReaderInv'
<1>. SUFFICES ASSUME TypeOK, IInv, [Next]_vars, NEW r \in Readers PROVE Served(r)'
  BY DEF ReaderInv
<1>1. ASSUME NEW k \in Keys, Begin(r, k) PROVE Served(r)'
  <2>1. /\ ts'[r] = clock /\ sig'[r] = <<written, touched>> /\ since'[r] = visible
        /\ pc'[r] = "get" /\ UNCHANGED <<clock, visible, written, publishedAt>>
    BY <1>1 DEF Begin, DataSignature, Goto, disk, TypeOK
  <2>. QED  BY <2>1, CacheConstants DEF Served, Shows, IInv, DiskInv, TypeOK
<1>2. CASE Get(r)
  BY <1>2, HitServes
<1>3. CASE Compute(r)
  <2>1. /\ val'[r] = visible /\ pc'[r] = "store" /\ (wal \/ visible = written)
        /\ UNCHANGED <<clock, ts, sig, since, visible, written, publishedAt, wal>>
    BY <1>3 DEF Compute, Goto, disk, local, TypeOK
  <2>2. /\ ts[r] <= clock /\ Shows(since[r], ts[r])
        /\ since[r] <= visible /\ since[r] <= sig[r][1] /\ sig[r][1] <= written
    BY <1>3 DEF Compute, IInv, ReaderInv, Served
  <2>. QED  BY <2>1, <2>2 DEF Served, Shows
<1>4. CASE Store(r)
  <2>1. /\ val'[r] = val[r] /\ pc'[r] = "touchNew"
        /\ UNCHANGED <<clock, ts, sig, since, visible, written, publishedAt, wal>>
    BY <1>4 DEF Store, Goto, disk, local, TypeOK
  <2>2. /\ ts[r] <= clock /\ Shows(since[r], ts[r]) /\ val[r] >= since[r]
        /\ since[r] <= visible /\ since[r] <= sig[r][1] /\ sig[r][1] <= written
        /\ val[r] \in Nat /\ since[r] \in Nat
    BY <1>4 DEF Store, IInv, ReaderInv, Served, TypeOK
  <2>3. \A v \in 1 .. since[r] : val[r] >= v
    BY <2>2
  <2>. QED  BY <2>1, <2>2, <2>3 DEF Served, Shows, Bounded
<1>5. CASE Touch(r) \/ TouchNew(r) \/ Evict(r)
  <2>1. /\ UNCHANGED <<ts, sig, since, val>> /\ pc[r] # "idle"
        /\ pc[r] \in {"touch", "touchNew", "evict"}
    BY <1>5 DEF Touch, TouchNew, Evict, local
  <2>2. pc'[r] \in {"error", "evict", "answer"}
    BY <1>5 DEF Touch, TouchNew, Evict, MoveToEnd, Goto, TypeOK
  <2>. QED  BY <2>1, <2>2, GoesOn
<1>6. CASE Respond(r)
  BY <1>6 DEF Respond, Goto, Served, TypeOK
<1>7. CASE UNCHANGED <<pc[r], ts[r], sig[r], since[r], val[r]>>
  <2>1. CASE pc[r] = "idle"
    BY <1>7, <2>1 DEF Served
  <2>. QED  BY <1>7, <2>1, GoesOn
<1>8. CASE UNCHANGED vars \/ WriteCommit \/ Publish \/ TouchFiles \/ Tick
  BY <1>7, <1>8 DEF vars, local, WriteCommit, Publish, TouchFiles, Tick
<1>9. ASSUME NEW s \in Readers, Step(s), s # r PROVE Served(r)'
  <2>1. UNCHANGED <<pc[r], ts[r], sig[r], since[r], val[r]>>
    BY <1>9 DEF Step, Begin, Get, Touch, Compute, Store, TouchNew, Evict, Respond,
                MoveToEnd, Goto, local, TypeOK
  <2>. QED  BY <1>7, <2>1
<1>. QED  BY <1>1, <1>2, <1>3, <1>4, <1>5, <1>6, <1>8, <1>9 DEF Next, Step

LEMMA IInvNext == TypeOK /\ IInv /\ [Next]_vars => IInv'
BY DiskNext, EntryNext, ReaderNext DEF IInv

-----------------------------------------------------------------------------

(* With a rollback journal no answer, cached or computed, misses a commit  *)
(* that was visible when its request began.                                *)
THEOREM AnswersAreFresh == Spec => []NoStale
<1>1. IInv => NoStale
  BY DEF IInv, ReaderInv, Served, NoStale
<1>. QED  BY <1>1, IInvInit, IInvNext, TypeCorrect, PTL DEF Spec

(* In both journal modes an answer misses no commit a TTL older than it.   *)
THEOREM StalenessIsBounded == Spec => []StaleBounded
<1>1. IInv => StaleBounded
  BY DEF IInv, ReaderInv, Served, StaleBounded
<1>. QED  BY <1>1, IInvInit, IInvNext, TypeCorrect, PTL DEF Spec

-----------------------------------------------------------------------------
(* The other memory that the threads of the API share: OnDemandEnricher.   *)
(* Everything rests on inflight being the set of the keys of jobs          *)
(* (Accounted): handlers test and add under one lock, and a job takes its  *)
(* key out in a finally block.                                             *)

LEMMA NoPairType == NoPair \in Pairs
BY OnDemandConstants DEF NoPair

LEMMA FactTypeInit == OnDemandInit => OnDemandTypeOK
<1>. SUFFICES ASSUME OnDemandInit PROVE OnDemandTypeOK
  OBVIOUS
<1>. USE OnDemandConstants, NoPairType DEF OnDemandInit
<1>1. time \in Nat /\ pools \in Nat /\ restarts \in Nat /\ inflight \subseteq Pairs
  OBVIOUS
<1>2. provider \in BOOLEAN
  BY Zenon
<1>3. expires \in [Pairs -> Nat] /\ \A k \in Pairs : expires[k] <= time + FactTtl
  OBVIOUS
<1>4. /\ attempted \in [Pairs -> Nat \cup {Never}]
      /\ ended \in [Pairs -> Nat \cup {Never}]
      /\ \A k \in Pairs : attempted[k] # Never => attempted[k] <= time
  OBVIOUS
<1>5. at \in [Requests -> {"idle", "lock"} \cup InFlight]
  BY DEF InFlight
<1>6. /\ about \in [Requests -> Pairs] /\ pool \in [Requests -> Nat]
      /\ now \in [Requests -> Nat] /\ \A r \in Requests : now[r] <= time
  OBVIOUS
<1>. QED  BY <1>1, <1>2, <1>3, <1>4, <1>5, <1>6, Zenon DEF OnDemandTypeOK

LEMMA FactTypeNext == OnDemandTypeOK /\ [OnDemandNext]_onDemandVars => OnDemandTypeOK'
<1>. SUFFICES ASSUME OnDemandTypeOK, [OnDemandNext]_onDemandVars PROVE OnDemandTypeOK'
  OBVIOUS
<1>. USE OnDemandConstants, NoPairType
     DEF OnDemandTypeOK, Go, Leave, memory, thread,
         InFlight, Working
<1>1. CASE UNCHANGED onDemandVars
  BY <1>1 DEF onDemandVars
<1>2. CASE Pass
  BY <1>2 DEF Pass
<1>3. CASE Restart
  BY <1>3 DEF Restart
<1>4. ASSUME NEW r \in Requests, NEW k \in Pairs, Ask(r, k) PROVE OnDemandTypeOK'
  BY <1>4 DEF Ask
<1>5. ASSUME NEW r \in Requests, AnswerPending(r) \/ AnswerEmpty(r) \/ Claim(r)
      PROVE  OnDemandTypeOK'
  BY <1>5 DEF AnswerPending, AnswerEmpty, Claim
<1>6. ASSUME NEW r \in Requests, FindPool(r) \/ CreatePool(r) \/ Enqueue(r)
      PROVE  OnDemandTypeOK'
  BY <1>6 DEF FindPool, CreatePool, Enqueue
<1>7. ASSUME NEW r \in Requests, PickUp(r) \/ StartJob(r) \/ Extract(r)
      PROVE  OnDemandTypeOK'
  BY <1>7 DEF PickUp, StartJob, Extract
<1>8. ASSUME NEW r \in Requests, Write(r) PROVE OnDemandTypeOK'
  BY <1>8 DEF Write
<1>9. ASSUME NEW r \in Requests, Finish(r) PROVE OnDemandTypeOK'
  BY <1>9 DEF Finish, LeaveInFlight
<1>. QED
  BY <1>1, <1>2, <1>3, <1>4, <1>5, <1>6, <1>7, <1>8, <1>9
     DEF OnDemandNext, Handle, Run, AnswerAtOnce

(* Types hold, and no recorded time lies in the future of the clock.       *)
THEOREM FactTypes == OnDemandSpec => []OnDemandTypeOK
BY FactTypeInit, FactTypeNext, PTL DEF OnDemandSpec

LEMMA FactInit == OnDemandInit => OnDemandInv
BY DEF OnDemandInit, OnDemandInv, SingleFlight, Accounted, InFlight, Working

LEMMA FactNext == OnDemandTypeOK /\ OnDemandInv /\ [OnDemandNext]_onDemandVars => OnDemandInv'
<1>. SUFFICES ASSUME OnDemandTypeOK, OnDemandInv, [OnDemandNext]_onDemandVars PROVE OnDemandInv'
  OBVIOUS
<1>. USE OnDemandConstants DEF
         OnDemandTypeOK, OnDemandInv, SingleFlight, Accounted, CooledDown,
         Go, Leave, memory, thread, InFlight, Working
<1>1. CASE UNCHANGED onDemandVars
  BY <1>1 DEF onDemandVars
<1>2. CASE Pass
  BY <1>2 DEF Pass
<1>3. CASE Restart
  BY <1>3 DEF Restart
<1>4. ASSUME NEW r \in Requests, NEW k \in Pairs, Ask(r, k) PROVE OnDemandInv'
  BY <1>4 DEF Ask
<1>5. ASSUME NEW r \in Requests, AnswerPending(r) \/ AnswerEmpty(r) PROVE OnDemandInv'
  BY <1>5 DEF AnswerPending, AnswerEmpty
<1>6. ASSUME NEW r \in Requests, Claim(r) PROVE OnDemandInv'
  <2>1. CooledDown(about[r])
    BY <1>6 DEF Claim, CoolingDown
  <2>. QED  BY <1>6, <2>1 DEF Claim
<1>7. ASSUME NEW r \in Requests, FindPool(r) \/ CreatePool(r) \/ Enqueue(r)
      PROVE  OnDemandInv'
  BY <1>7 DEF FindPool, CreatePool, Enqueue
<1>8. ASSUME NEW r \in Requests,
             PickUp(r) \/ StartJob(r) \/ Extract(r) \/ Write(r)
      PROVE  OnDemandInv'
  BY <1>8 DEF PickUp, StartJob, Extract, Write
<1>9. ASSUME NEW r \in Requests, Finish(r) PROVE OnDemandInv'
  BY <1>9 DEF Finish, LeaveInFlight
<1>. QED
  BY <1>1, <1>2, <1>3, <1>4, <1>5, <1>6, <1>7, <1>8, <1>9
     DEF OnDemandNext, Handle, Run, AnswerAtOnce, onDemandVars

THEOREM FactInvariant == OnDemandSpec => []OnDemandInv
BY FactInit, FactNext, FactTypes, PTL DEF OnDemandSpec

(* However many requests for a key interleave, they start one extraction.  *)
THEOREM OneExtraction == OnDemandSpec => []SingleFlight
<1>1. OnDemandInv => SingleFlight
  BY DEF OnDemandInv
<1>. QED  BY <1>1, FactInvariant, PTL

(* inflight is the set of the keys of living jobs, restarts included.      *)
THEOREM InflightAccounted == OnDemandSpec => []Accounted
<1>1. OnDemandInv => Accounted
  BY DEF OnDemandInv
<1>. QED  BY <1>1, FactInvariant, PTL

(* Extractions of a key keep the cooldown, whatever time requests took at  *)
(* their start and however long they waited since.                         *)
THEOREM CooldownKept == OnDemandSpec => []NoStorm
<1>1. OnDemandTypeOK /\ OnDemandInv => NoStorm
  BY DEF OnDemandTypeOK, OnDemandInv, NoStorm, CooledDown, InFlight, Working
<1>. QED  BY <1>1, FactInvariant, FactTypes, PTL
=============================================================================

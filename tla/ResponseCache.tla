---------------------------- MODULE ResponseCache ----------------------------
(***************************************************************************)
(* The response cache of /markers and /search (app/search/cache.py).  A    *)
(* value is kept under the signature of the database files at its request; *)
(* a later request takes it when the files still have that signature and   *)
(* it is younger than the TTL.  Requests run in server threads that share  *)
(* the OrderedDict without a lock.  Commits are another process's: SQLite  *)
(* first writes the file, which changes the signature, and then lets       *)
(* readers see the commit.  In between readers wait with a rollback        *)
(* journal and see the data before the commit with a WAL; the code relies  *)
(* on a WAL (cache.py:7) but no statement of it sets the mode.             *)
(***************************************************************************)
EXTENDS Integers, Sequences, SequencesExt

CONSTANTS
    Keys,          \* (tag, normalised spec)
    Readers,       \* server threads
    None,          \* no entry
    MaxEntries,    \* 256 in the code
    Ttl,           \* 120 s in the code
    MaxCommits,    \* bound on commits
    MaxTime        \* bound on the clock

ASSUME CacheConstants ==
    /\ MaxEntries \in Nat \ {0} /\ Ttl \in Nat \ {0}
    /\ Keys # {} /\ MaxCommits \in Nat /\ MaxTime \in Nat

VARIABLES
    clock,
    wal,        \* the journal mode of the database file is WAL
    written,    \* commits in the files
    visible,    \* commits that readers see
    touched,    \* changes of the files' mtime and size that are no commit
    publishedAt,\* history: when each commit became visible
    entry,      \* [ts, sig, val] per key, val being the commits it shows
    order,      \* the keys with an entry, least recently used first
    pc, key, ts, sig, val,  \* each reader: next step and local variables
    since       \* history: the commits visible when a reader started

disk == <<wal, written, visible, touched, publishedAt>>
cache == <<entry, order>>
local == <<key, ts, sig, since>>
vars == <<clock, disk, cache, pc, local, val>>

(* The locals of a thread that answers no request.                         *)
NoKey == CHOOSE k \in Keys : TRUE
NoSig == <<0, 0>>

Init ==
    /\ clock = 0 /\ wal \in BOOLEAN /\ written = 0 /\ visible = 0 /\ touched = 0
    /\ publishedAt = [v \in 1 .. MaxCommits |-> 0]
    /\ entry = [k \in Keys |-> None] /\ order = <<>>
    /\ pc = [r \in Readers |-> "idle"]
    /\ key = [r \in Readers |-> NoKey]
    /\ ts = [r \in Readers |-> 0] /\ sig = [r \in Readers |-> NoSig]
    /\ val = [r \in Readers |-> 0] /\ since = [r \in Readers |-> 0]

Goto(r, where) == pc' = [pc EXCEPT ![r] = where]
DataSignature == <<written, touched>>

-----------------------------------------------------------------------------

Begin(r, k) ==
    /\ pc[r] = "idle"
    /\ key' = [key EXCEPT ![r] = k]
    /\ ts' = [ts EXCEPT ![r] = clock]
    /\ sig' = [sig EXCEPT ![r] = DataSignature]
    /\ since' = [since EXCEPT ![r] = visible]
    /\ Goto(r, "get")
    /\ UNCHANGED <<clock, disk, cache, val>>

ValidForever(r, e) == e # None /\ e.sig = sig[r]   \* mutant: no TTL
Valid(r, e) == e # None /\ e.sig = sig[r] /\ ts[r] - e.ts < Ttl

Get(r) ==
    /\ pc[r] = "get"
    /\ IF Valid(r, entry[key[r]])
         THEN /\ val' = [val EXCEPT ![r] = entry[key[r]].val]
              /\ Goto(r, "touch")
         ELSE /\ UNCHANGED val
              /\ Goto(r, "compute")
    /\ UNCHANGED <<clock, disk, cache, local>>

(* move_to_end, which raises KeyError for a key evicted since.             *)
MoveToEnd(r, next) ==
    IF Contains(order, key[r])
      THEN /\ order' = Append(Remove(order, key[r]), key[r])
           /\ Goto(r, next)
      ELSE /\ UNCHANGED order
           /\ Goto(r, "error")

Touch(r) ==
    /\ pc[r] = "touch"
    /\ MoveToEnd(r, "answer")
    /\ UNCHANGED <<clock, disk, entry, local, val>>

Compute(r) ==
    /\ pc[r] = "compute" /\ (wal \/ visible = written)
    /\ val' = [val EXCEPT ![r] = visible]
    /\ Goto(r, "store")
    /\ UNCHANGED <<clock, disk, cache, local>>

StoreUnderNew(r) ==   \* mutant: the signature is taken after compute()
    /\ pc[r] = "store"
    /\ entry' = [entry EXCEPT ![key[r]] =
         [ts |-> ts[r], sig |-> DataSignature, val |-> val[r]]]
    /\ order' = IF Contains(order, key[r]) THEN order ELSE Append(order, key[r])
    /\ Goto(r, "touchNew")
    /\ UNCHANGED <<clock, disk, local, val>>
Store(r) ==
    /\ pc[r] = "store"
    /\ entry' = [entry EXCEPT ![key[r]] =
         [ts |-> ts[r], sig |-> sig[r], val |-> val[r]]]
    /\ order' = IF Contains(order, key[r]) THEN order ELSE Append(order, key[r])
    /\ Goto(r, "touchNew")
    /\ UNCHANGED <<clock, disk, local, val>>

TouchNew(r) ==
    /\ pc[r] = "touchNew"
    /\ MoveToEnd(r, "evict")
    /\ UNCHANGED <<clock, disk, entry, local, val>>

(* One turn of the loop that pops the oldest entries.                      *)
IsFull == Len(order) > MaxEntries

Evict(r) ==
    /\ pc[r] = "evict"
    /\ IF IsFull
         THEN /\ entry' = [entry EXCEPT ![Head(order)] = None]
              /\ order' = Tail(order)
              /\ UNCHANGED pc
         ELSE /\ UNCHANGED cache
              /\ Goto(r, "answer")
    /\ UNCHANGED <<clock, disk, local, val>>

(* The answer, or a 500.                                                   *)
Respond(r) ==
    /\ pc[r] \in {"answer", "error"}
    /\ Goto(r, "idle")
    /\ key' = [key EXCEPT ![r] = NoKey]
    /\ ts' = [ts EXCEPT ![r] = 0] /\ sig' = [sig EXCEPT ![r] = NoSig]
    /\ val' = [val EXCEPT ![r] = 0] /\ since' = [since EXCEPT ![r] = 0]
    /\ UNCHANGED <<clock, disk, cache>>

-----------------------------------------------------------------------------

WriteCommit ==
    /\ written = visible /\ written < MaxCommits
    /\ written' = written + 1
    /\ UNCHANGED <<clock, wal, visible, publishedAt, touched, cache, pc, local, val>>

Publish ==
    /\ visible < written
    /\ visible' = written
    /\ publishedAt' = [publishedAt EXCEPT ![written] = clock]
    /\ UNCHANGED <<clock, wal, written, touched, cache, pc, local, val>>

(* A checkpoint or a spilled transaction changes the files alone.          *)
TouchFiles ==
    /\ touched < MaxCommits
    /\ touched' = touched + 1
    /\ UNCHANGED <<clock, wal, written, visible, publishedAt, cache, pc, local, val>>

Tick ==
    /\ clock < MaxTime
    /\ clock' = clock + 1
    /\ UNCHANGED <<disk, cache, pc, local, val>>

Step(r) ==
    \/ \E k \in Keys : Begin(r, k)
    \/ Get(r) \/ Touch(r) \/ Compute(r) \/ Store(r) \/ TouchNew(r) \/ Evict(r)
    \/ Respond(r)

Next == WriteCommit \/ Publish \/ TouchFiles \/ Tick \/ \E r \in Readers : Step(r)

Spec == Init /\ [][Next]_vars

-----------------------------------------------------------------------------

(* With the rollback journal that the code leaves in place, an answer      *)
(* shows every commit that readers saw when its request began.             *)
NoStale == ~wal => \A r \in Readers : pc[r] = "answer" => val[r] >= since[r]

(* In both modes an answer misses no commit a TTL older than its request.  *)
Bounded(r) == \A v \in 1 .. since[r] : ts[r] - publishedAt[v] >= Ttl => val[r] >= v
StaleBounded == \A r \in Readers : pc[r] = "answer" => Bounded(r)

-----------------------------------------------------------------------------

Labels == {"idle", "get", "touch", "compute", "store", "touchNew", "evict", "answer",
           "error"}
Entries == [ts : Nat, sig : Nat \X Nat, val : Nat]

(* Types of the files, of the cache and of the threads' local variables.   *)
TypeOK ==
    /\ clock \in Nat /\ wal \in BOOLEAN
    /\ written \in Nat /\ visible \in Nat /\ touched \in Nat
    /\ publishedAt \in [1 .. MaxCommits -> Nat]
    /\ entry \in [Keys -> Entries \cup {None}]
    /\ pc \in [Readers -> Labels] /\ key \in [Readers -> Keys]
    /\ ts \in [Readers -> Nat] /\ sig \in [Readers -> Nat \X Nat]
    /\ val \in [Readers -> Nat] /\ since \in [Readers -> Nat]

(* Why: at most one commit is in the files and not yet visible, so that    *)
(* with the rollback journal the data read under a signature has all the   *)
(* commits that the signature counts; and whatever is kept shows every     *)
(* commit that was visible before its request.                             *)
DiskInv ==
    /\ visible <= written /\ written <= visible + 1 /\ written <= MaxCommits
    /\ \A v \in 1 .. MaxCommits : publishedAt[v] <= clock

(* n commits are all that were visible before the time t.                  *)
Shows(n, t) == \A v \in 1 .. visible : publishedAt[v] < t => n >= v

Kept(k) == entry[k] # None =>
    /\ entry[k].ts <= clock /\ Shows(entry[k].val, entry[k].ts)
    /\ ~wal => entry[k].val >= entry[k].sig[1]
EntryInv == \A k \in Keys : Kept(k)

Served(r) == pc[r] # "idle" =>
    /\ ts[r] <= clock /\ Shows(since[r], ts[r])
    /\ since[r] <= visible /\ since[r] <= sig[r][1] /\ sig[r][1] <= written
    /\ pc[r] = "store" => val[r] >= since[r] /\ (~wal => val[r] >= sig[r][1])
    /\ pc[r] \in {"touch", "touchNew", "evict", "answer"} =>
         Bounded(r) /\ (~wal => val[r] >= since[r])
ReaderInv == \A r \in Readers : Served(r)

IInv == DiskInv /\ EntryInv /\ ReaderInv
=============================================================================

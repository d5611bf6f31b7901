----------------------------- MODULE CorpusBuild -----------------------------
(***************************************************************************)
(* Builds of one complex's review corpus: chunks in the table review_chunk *)
(* and their vectors in the vec0 table, which has no cascade.  A build     *)
(* skips a fresh corpus, fetches, filters and embeds, and then replaces    *)
(* the rows of both tables in one transaction.  Three kinds of builder:    *)
(*   Bulk    build_corpus --bulk holds the shared lock for its batch;      *)
(*   Single  build_corpus --complex-id takes it for the write;             *)
(*   Api     OnDemandCorpus in the API takes none, on a connection that    *)
(*           has not loaded vec0.                                          *)
(***************************************************************************)
EXTENDS Naturals, FiniteSets

CONSTANTS
    Bulk, Single, Api,
    Chunks,    \* chunk_id: complex, URL and position of a passage
    None,      \* nobody
    MaxKills   \* bound on kills

Builders == Bulk \cup Single \cup Api

ASSUME CorpusConstants ==
    /\ None \notin Builders /\ MaxKills \in Nat
    /\ Bulk \cap Single = {} /\ Bulk \cap Api = {} /\ Single \cap Api = {}

VARIABLES
    chunk,      \* committed rows of review_chunk
    vec,        \* committed rows of review_chunk_vec
    fresh,      \* the rows are within their TTL
    writer,     \* who holds SQLite's write lock
    draftChunk, draftVec,  \* the tables as the writer's transaction has them
    lock,       \* who holds the shared lock
    pc,
    found,      \* chunks of the documents each build found relevant
    twice,      \* builds with two documents of one URL: some chunk comes twice
    seen,       \* chunk ids each build has listed for deletion
    kills,      \* history: kills so far
    overlapped  \* history: an API build has overlapped another one's writing

db == <<chunk, vec, fresh>>
txn == <<writer, draftChunk, draftVec>>
vars == <<db, txn, lock, pc, found, twice, seen, kills, overlapped>>

Init ==
    /\ chunk = {} /\ vec = {} /\ fresh = FALSE
    /\ writer = None /\ draftChunk = {} /\ draftVec = {}
    /\ lock = None /\ kills = 0 /\ overlapped = FALSE
    /\ pc = [b \in Builders |-> "idle"]
    /\ found = [b \in Builders |-> {}]
    /\ twice = {}
    /\ seen = [b \in Builders |-> {}]

Goto(b, where) == pc' = [pc EXCEPT ![b] = where]
IsFresh == fresh /\ chunk # {}

(* The end of a build, with the lock context left on every path.           *)
Leave(b) ==
    /\ Goto(b, "idle")
    /\ lock' = IF lock = b THEN None ELSE lock
    /\ found' = [found EXCEPT ![b] = {}]
    /\ twice' = twice \ {b}
    /\ seen' = [seen EXCEPT ![b] = {}]

-----------------------------------------------------------------------------

(* --force, single only, builds a fresh corpus again.                      *)
Start(b) ==
    /\ pc[b] = "idle"
    /\ b \in Bulk => lock = None
    /\ IsFresh => b \in Single
    /\ lock' = IF b \in Bulk THEN b ELSE lock
    /\ Goto(b, "fetch")
    /\ UNCHANGED <<db, txn, found, twice, seen, kills, overlapped>>

(* NO_SOURCE and EMBED_DEFERRED: failure, quota, no documents, no vectors. *)
GiveUp(b) ==
    /\ pc[b] = "fetch"
    /\ Leave(b)
    /\ UNCHANGED <<db, txn, kills, overlapped>>

(* Passages of the relevant documents; none of them: the corpus is purged. *)
(* The verticals searched overlap and nothing drops a document whose URL   *)
(* has come before, and a passage's id is its URL and position.            *)
Fetch(b) ==
    /\ pc[b] = "fetch"
    /\ \E passages \in SUBSET Chunks :
        /\ found' = [found EXCEPT ![b] = passages]
        /\ UNCHANGED twice \/ (passages # {} /\ twice' = twice \cup {b})
    /\ Goto(b, "lock")
    /\ UNCHANGED <<db, txn, lock, seen, kills, overlapped>>

(* From listing the ids to the commit; the API's builds stand in nobody's  *)
(* way and nobody in theirs.                                               *)
Writing == {"list", "delete", "insert", "commit"}
Overlaps(b) == \E c \in Builders :
    c # b /\ pc[c] \in Writing /\ (b \in Api \/ c \in Api)

TakeLockUnchecked(b) ==   \* mutant: acquired is not looked at
    /\ pc[b] = "lock"
    /\ lock' = IF b \in Single /\ lock = None THEN b ELSE lock
    /\ overlapped' = (overlapped \/ Overlaps(b))
    /\ Goto(b, "list")
    /\ UNCHANGED <<db, txn, found, twice, seen, kills>>
TakeLock(b) ==
    /\ pc[b] = "lock"
    /\ b \in Single => lock = None
    /\ lock' = IF b \in Single THEN b ELSE lock
    /\ overlapped' = (overlapped \/ Overlaps(b))
    /\ Goto(b, "list")
    /\ UNCHANGED <<db, txn, found, twice, seen, kills>>

LockYield(b) ==
    /\ pc[b] = "lock" /\ b \in Single /\ lock # None
    /\ Leave(b)
    /\ UNCHANGED <<db, txn, kills, overlapped>>

(* write_chunks loads vec0 first, the purge does not; the ids are read     *)
(* before the transaction begins.                                          *)
VecLoaded(b) == b \notin Api \/ found[b] # {}

ListChunks(b) ==
    /\ pc[b] = "list"
    /\ seen' = [seen EXCEPT ![b] = chunk]
    /\ Goto(b, IF chunk = {} \/ VecLoaded(b) THEN "delete" ELSE "error")
    /\ UNCHANGED <<db, txn, lock, found, twice, kills, overlapped>>

Delete(b) ==
    /\ pc[b] = "delete" /\ writer = None
    /\ writer' = b
    /\ draftChunk' = {} /\ draftVec' = vec \ seen[b]
    /\ Goto(b, IF found[b] = {} THEN "commit" ELSE "insert")
    /\ UNCHANGED <<db, lock, found, twice, seen, kills, overlapped>>

(* Another writer outlasts the busy timeout.                               *)
Busy(b) ==
    /\ pc[b] = "delete" /\ writer # None
    /\ Leave(b)
    /\ UNCHANGED <<db, txn, kills, overlapped>>

(* chunk_id is the primary key of both tables; review_chunk replaces the   *)
(* row that has it, vec0 does not.                                         *)
Conflict(b) == b \in twice \/ draftVec \cap found[b] # {}

Insert(b) ==
    /\ pc[b] = "insert"
    /\ draftChunk' = found[b]
    /\ IF Conflict(b)
         THEN Goto(b, "error") /\ UNCHANGED draftVec
         ELSE Goto(b, "commit") /\ draftVec' = draftVec \cup found[b]
    /\ UNCHANGED <<db, writer, lock, found, twice, seen, kills, overlapped>>

Commit(b) ==
    /\ pc[b] = "commit"
    /\ chunk' = draftChunk /\ vec' = draftVec /\ fresh' = TRUE
    /\ writer' = None /\ draftChunk' = {} /\ draftVec' = {}
    /\ Leave(b)
    /\ UNCHANGED <<kills, overlapped>>

(* The connection is closed without a commit.                              *)
CommitOnError(b) ==   \* mutant: the transaction is committed in a finally
    /\ pc[b] = "error"
    /\ IF writer = b
         THEN /\ chunk' = draftChunk /\ vec' = draftVec /\ fresh' = TRUE
              /\ writer' = None /\ draftChunk' = {} /\ draftVec' = {}
         ELSE UNCHANGED <<db, txn>>
    /\ Leave(b)
    /\ UNCHANGED <<kills, overlapped>>
Rollback(b) ==
    IF writer = b
      THEN writer' = None /\ draftChunk' = {} /\ draftVec' = {}
      ELSE UNCHANGED txn
CloseOnError(b) ==
    /\ pc[b] = "error"
    /\ Rollback(b)
    /\ Leave(b)
    /\ UNCHANGED <<db, kills, overlapped>>

(* SQLite rolls back and shlock takes over the dead PID's lock.            *)
Kill(b) ==
    /\ pc[b] # "idle" /\ kills < MaxKills
    /\ kills' = kills + 1
    /\ Rollback(b)
    /\ Leave(b)
    /\ UNCHANGED <<db, overlapped>>

Expire ==
    /\ fresh
    /\ fresh' = FALSE
    /\ UNCHANGED <<chunk, vec, txn, lock, pc, found, twice, seen, kills, overlapped>>

Step(b) ==
    \/ Start(b) \/ GiveUp(b) \/ Fetch(b) \/ TakeLock(b) \/ LockYield(b)
    \/ ListChunks(b) \/ Delete(b) \/ Busy(b) \/ Insert(b) \/ Commit(b)
    \/ CloseOnError(b)

Next == Expire \/ \E b \in Builders : Step(b) \/ Kill(b)

Spec == Init /\ [][Next]_vars

-----------------------------------------------------------------------------

Labels == {"idle", "fetch", "lock", "list", "delete", "insert", "commit", "error"}

(* Types of the tables and the builders' state, and that a transaction is  *)
(* open exactly in a build that is about to end it.                        *)
TypeOK ==
    /\ chunk \subseteq Chunks /\ vec \subseteq Chunks /\ fresh \in BOOLEAN
    /\ draftChunk \subseteq Chunks /\ draftVec \subseteq Chunks
    /\ writer \in Builders \cup {None} /\ lock \in Builders \cup {None}
    /\ pc \in [Builders -> Labels] /\ kills \in Nat /\ overlapped \in BOOLEAN
    /\ found \in [Builders -> SUBSET Chunks] /\ twice \subseteq Builders
    /\ seen \in [Builders -> SUBSET Chunks]
    /\ writer # None => pc[writer] \in {"insert", "commit", "error"}
    /\ writer = None => draftChunk = {} /\ draftVec = {}
    /\ \A b \in Builders : pc[b] \in {"insert", "commit"} => writer = b

(* Both tables hold the same chunks, whatever is killed, as long as no API *)
(* build overlaps another one's writing (store.py:115, "no half write").   *)
Consistent == ~overlapped => chunk = vec

(* A build that found relevant passages, each of them once, can then store *)
(* them: what earlier builds stored, or died or failed over, never stands  *)
(* in the way of its vectors.                                              *)
Storable == ~overlapped =>
    \A b \in Builders : pc[b] = "error" => found[b] = {} \/ b \in twice

(* The same of any passages: "deleting, then inserting, so no duplicates:  *)
(* the same position overwrites the same chunk_id" (store.py:90-91).       *)
SamePlaceOverwrites == ~overlapped =>
    \A b \in Builders : pc[b] = "error" => found[b] = {}

(* Why: until the first overlap one build writes at a time, the tables     *)
(* stay as it listed them, and what it deletes is all there is.            *)
IInv == ~overlapped =>
    /\ chunk = vec
    /\ \A b \in Builders :
        /\ pc[b] \in Writing /\ b \notin Api => lock = b
        /\ b \in Bulk /\ pc[b] # "idle" => lock = b
        /\ pc[b] \in {"delete", "insert", "commit"} => seen[b] = chunk
        /\ pc[b] = "insert" => draftVec = {}
        /\ pc[b] = "commit" => draftVec = draftChunk
        /\ pc[b] = "error" => b \in twice \/ (found[b] = {} /\ writer # b)
    /\ \A b, c \in Builders : pc[b] \in Writing /\ pc[c] \in Writing => b = c

(* Every chunk can be found by its vector, whatever builds overlap.        *)
ChunksHaveVectors == chunk \subseteq vec

(* Why: what the one open transaction is about to commit has them too.     *)
DraftInv == /\ ChunksHaveVectors
            /\ \A b \in Builders : pc[b] = "commit" => draftChunk \subseteq draftVec

(* No vector without its chunk, with the builds of the API as they are     *)
(* (store.py:3-4: a rebuild replaces a complex's rows in one transaction,  *)
(* idempotently).                                                          *)
NoOrphans == vec \subseteq chunk
=============================================================================

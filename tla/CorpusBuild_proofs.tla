------------------------- MODULE CorpusBuild_proofs -------------------------
(***************************************************************************)
(* Any number of builds, killed at any point, keep chunks and vectors the  *)
(* same set until a build of the API, which takes no lock, overlaps the    *)
(* writing of another: from there on TLC shows orphans.                    *)
(***************************************************************************)
EXTENDS CorpusBuild, TLAPS

LEMMA InitInv == Init => TypeOK /\ IInv
<1>. SUFFICES ASSUME Init PROVE TypeOK /\ IInv
  OBVIOUS
<1>. USE CorpusConstants DEF Init, Labels
<1>1. fresh \in BOOLEAN /\ overlapped \in BOOLEAN
  BY Zenon
<1>2. IInv
  BY DEF IInv, Writing
<1>3. /\ chunk \subseteq Chunks /\ vec \subseteq Chunks
      /\ draftChunk \subseteq Chunks /\ draftVec \subseteq Chunks
      /\ writer \in Builders \cup {None} /\ lock \in Builders \cup {None}
      /\ kills \in Nat
  OBVIOUS
<1>4. /\ pc \in [Builders -> Labels]
      /\ found \in [Builders -> SUBSET Chunks] /\ twice \subseteq Builders
      /\ seen \in [Builders -> SUBSET Chunks]
  OBVIOUS
<1>5. /\ writer # None => pc[writer] \in {"insert", "commit", "error"}
      /\ writer = None => draftChunk = {} /\ draftVec = {}
      /\ \A b \in Builders : pc[b] \in {"insert", "commit"} => writer = b
  OBVIOUS
<1>. HIDE DEF Init
<1>. QED  BY <1>1, <1>2, <1>3, <1>4, <1>5, Zenon DEF TypeOK

LEMMA TypeNext == TypeOK /\ [Next]_vars => TypeOK'
<1>. SUFFICES ASSUME TypeOK, [Next]_vars PROVE TypeOK'
  OBVIOUS
<1>. USE CorpusConstants DEF TypeOK, Labels, Goto, Leave, Rollback, db, txn
<1>1. CASE UNCHANGED vars
  BY <1>1 DEF vars
<1>2. CASE Expire
  BY <1>2 DEF Expire
<1>3. ASSUME NEW b \in Builders, Start(b) \/ GiveUp(b) PROVE TypeOK'
  BY <1>3 DEF Start, GiveUp
<1>4. ASSUME NEW b \in Builders, Fetch(b) PROVE TypeOK'
  BY <1>4 DEF Fetch
<1>5. ASSUME NEW b \in Builders, TakeLock(b) PROVE TypeOK'
  <2>1. overlapped' \in BOOLEAN
    BY <1>5, Zenon DEF TakeLock
  <2>. QED  BY <1>5, <2>1 DEF TakeLock
<1>10. ASSUME NEW b \in Builders, LockYield(b) \/ ListChunks(b) PROVE TypeOK'
  BY <1>10 DEF LockYield, ListChunks
<1>6. ASSUME NEW b \in Builders, Delete(b) \/ Busy(b) PROVE TypeOK'
  BY <1>6 DEF Delete, Busy
<1>7. ASSUME NEW b \in Builders, Insert(b) PROVE TypeOK'
  <2>1. pc'[b] \in {"error", "commit"} /\ pc' = [pc EXCEPT ![b] = pc'[b]]
    BY <1>7 DEF Insert
  <2>2. draftVec' \subseteq Chunks /\ draftChunk' \subseteq Chunks
    BY <1>7 DEF Insert
  <2>3. UNCHANGED <<db, writer, lock, found, twice, seen, kills, overlapped>>
    BY <1>7 DEF Insert
  <2>4. writer = b
    BY <1>7 DEF Insert
  <2>. QED  BY <2>1, <2>2, <2>3, <2>4
<1>8. ASSUME NEW b \in Builders, Commit(b) PROVE TypeOK'
  BY <1>8 DEF Commit
<1>9. ASSUME NEW b \in Builders, CloseOnError(b) \/ Kill(b) PROVE TypeOK'
  BY <1>9 DEF CloseOnError, Kill
<1>. QED
  BY <1>1, <1>2, <1>3, <1>4, <1>5, <1>6, <1>7, <1>8, <1>9, <1>10 DEF Next, Step

LEMMA OverlappedStays == [Next]_vars /\ overlapped => overlapped'
BY DEF Next, Step, vars, db, txn, Expire, Start, GiveUp, Fetch, TakeLock, LockYield,
       ListChunks, Delete, Busy, Insert, Commit, CloseOnError, Kill

LEMMA NextIInv == TypeOK /\ IInv /\ [Next]_vars => IInv'
<1>. SUFFICES ASSUME TypeOK, IInv, [Next]_vars, ~overlapped, ~overlapped' PROVE IInv'
  BY OverlappedStays DEF IInv
<1>. USE CorpusConstants
     DEF TypeOK, IInv, Writing, Builders, Goto, Leave, Rollback, db, txn
<1>1. CASE UNCHANGED vars
  BY <1>1 DEF vars
<1>2. CASE Expire
  BY <1>2 DEF Expire
<1>3. ASSUME NEW b \in Builders, Start(b) PROVE IInv'
  BY <1>3 DEF Start
<1>4. ASSUME NEW b \in Builders, GiveUp(b) \/ LockYield(b) \/ Busy(b) PROVE IInv'
  BY <1>4 DEF GiveUp, LockYield, Busy
<1>5. ASSUME NEW b \in Builders, Fetch(b) PROVE IInv'
  BY <1>5 DEF Fetch
<1>6. ASSUME NEW b \in Builders, TakeLock(b) PROVE IInv'
  <2>1. ~Overlaps(b)
    BY <1>6 DEF TakeLock
  <2>2. \A c \in Builders : c # b => pc[c] \notin Writing
    BY <1>6, <2>1 DEF TakeLock, Overlaps
  <2>. QED  BY <1>6, <2>2 DEF TakeLock
<1>7. ASSUME NEW b \in Builders, ListChunks(b) PROVE IInv'
  BY <1>7 DEF ListChunks, VecLoaded
<1>8. ASSUME NEW b \in Builders, Delete(b) PROVE IInv'
  <2>1. draftVec' = {} /\ draftChunk' = {}
    BY <1>8 DEF Delete
  <2>. QED  BY <1>8, <2>1 DEF Delete
<1>9. ASSUME NEW b \in Builders, Insert(b) PROVE IInv'
  <2>1. CASE Conflict(b)
    <3>1. b \in twice
      BY <1>9, <2>1 DEF Insert, Conflict
    <3>2. pc' = [pc EXCEPT ![b] = "error"]
      BY <1>9, <2>1 DEF Insert
    <3>. QED  BY <1>9, <3>1, <3>2 DEF Insert
  <2>2. CASE ~Conflict(b)
    <3>1. draftVec' = draftChunk' /\ pc' = [pc EXCEPT ![b] = "commit"]
      BY <1>9, <2>2 DEF Insert
    <3>. QED  BY <1>9, <3>1 DEF Insert
  <2>. QED  BY <2>1, <2>2
<1>10. ASSUME NEW b \in Builders, Commit(b) PROVE IInv'
  BY <1>10 DEF Commit
<1>11. ASSUME NEW b \in Builders, CloseOnError(b) PROVE IInv'
  BY <1>11 DEF CloseOnError
<1>12. ASSUME NEW b \in Builders, Kill(b) PROVE IInv'
  BY <1>12 DEF Kill
<1>. QED
  BY <1>1, <1>2, <1>3, <1>4, <1>5, <1>6, <1>7, <1>8, <1>9, <1>10, <1>11, <1>12
     DEF Next, Step

(* Types, and transactions that are open only where a build will end them. *)
THEOREM TypeCorrect == Spec => []TypeOK
<1>1. Init => TypeOK
  BY InitInv
<1>. QED  BY <1>1, TypeNext, PTL DEF Spec

(* Until an API build overlaps another one's writing, no kill or failure   *)
(* leaves a chunk without a vector or a vector without a chunk.            *)
THEOREM TablesAgree == Spec => []Consistent
<1>1. Init => IInv
  BY InitInv
<1>2. TypeOK /\ IInv /\ [Next]_vars => IInv'
  BY NextIInv
<1>3. IInv => Consistent
  BY DEF IInv, Consistent
<1>. QED  BY <1>1, <1>2, <1>3, TypeCorrect, PTL DEF Spec

(* Until then a build that found passages, each of them once, can store    *)
(* them: of its failures only the repeated passage and the purge without   *)
(* vec0 are left.                                                          *)
THEOREM FoundIsStored == Spec => []Storable
<1>1. Init => IInv
  BY InitInv
<1>2. TypeOK /\ IInv /\ [Next]_vars => IInv'
  BY NextIInv
<1>3. IInv => Storable
  BY DEF IInv, Storable
<1>. QED  BY <1>1, <1>2, <1>3, TypeCorrect, PTL DEF Spec

LEMMA NextDraft == TypeOK /\ DraftInv /\ [Next]_vars => DraftInv'
<1>. SUFFICES ASSUME TypeOK, DraftInv, [Next]_vars PROVE DraftInv'
  OBVIOUS
<1>. USE CorpusConstants
     DEF TypeOK, DraftInv, ChunksHaveVectors, Goto, Leave, Rollback, db, txn
<1>1. CASE UNCHANGED vars
  BY <1>1 DEF vars
<1>2. CASE Expire
  BY <1>2 DEF Expire
<1>3. ASSUME NEW b \in Builders, Start(b) \/ GiveUp(b) \/ LockYield(b) \/ Busy(b)
      PROVE  DraftInv'
  BY <1>3 DEF Start, GiveUp, LockYield, Busy
<1>4. ASSUME NEW b \in Builders, Fetch(b) \/ TakeLock(b) \/ ListChunks(b) PROVE DraftInv'
  BY <1>4 DEF Fetch, TakeLock, ListChunks
<1>5. ASSUME NEW b \in Builders, Delete(b) PROVE DraftInv'
  BY <1>5 DEF Delete
<1>6. ASSUME NEW b \in Builders, Insert(b) PROVE DraftInv'
  <2>1. chunk' = chunk /\ vec' = vec /\ draftChunk' = found[b] /\ writer = b
    BY <1>6 DEF Insert
  <2>2. pc'[b] = "commit" => draftVec' = draftVec \cup found[b]
    BY <1>6 DEF Insert
  <2>3. \A c \in Builders : c # b => pc'[c] # "commit"
    BY <1>6, <2>1 DEF Insert
  <2>. QED  BY <2>1, <2>2, <2>3
<1>7. ASSUME NEW b \in Builders, Commit(b) PROVE DraftInv'
  BY <1>7 DEF Commit
<1>8. ASSUME NEW b \in Builders, CloseOnError(b) \/ Kill(b) PROVE DraftInv'
  BY <1>8 DEF CloseOnError, Kill
<1>. QED
  BY <1>1, <1>2, <1>3, <1>4, <1>5, <1>6, <1>7, <1>8 DEF Next, Step

(* Whatever builds of whatever kind overlap, fail or are killed, a stored  *)
(* passage has its vector: the search by meaning misses none.              *)
THEOREM ChunksAreSearchable == Spec => []ChunksHaveVectors
<1>1. Init => DraftInv
  BY DEF Init, DraftInv, ChunksHaveVectors
<1>2. DraftInv => ChunksHaveVectors
  BY DEF DraftInv
<1>. QED  BY <1>1, <1>2, NextDraft, TypeCorrect, PTL DEF Spec
=============================================================================

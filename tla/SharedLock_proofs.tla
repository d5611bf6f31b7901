-------------------------- MODULE SharedLock_proofs --------------------------
(***************************************************************************)
(* Theorems about the shared lock for any sets of clients: what holds with *)
(* every fault (NoLeak) and what holds until one happens or a shlock       *)
(* unlinks a live lock (OneWorker); and about module Shlock, the utility   *)
(* on its own.                                                             *)
(***************************************************************************)
EXTENDS SharedLock, Shlock, TLAPS

(* Types hold whatever the faults.                                         *)
LEMMA TypeInit == Init => TypeOK
<1>. SUFFICES ASSUME Init PROVE TypeOK
  OBVIOUS
<1>. USE DEF Init
<1>1. pc \in [Clients -> Labels]
  BY DEF Labels
<1>2. lock \in Clients \cup {None, Dead} /\ kills \in Nat
  OBVIOUS
<1>3. working \subseteq Clients /\ termed \subseteq Clients
  OBVIOUS
<1>4. old \in BOOLEAN /\ faulted \in BOOLEAN
  BY Zenon
<1>5. pidRead \in [Clients -> Clients \cup {None, Dead}]
  OBVIOUS
<1>. QED  BY <1>1, <1>2, <1>3, <1>4, <1>5, Zenon DEF TypeOK

LEMMA TypeNext == TypeOK /\ [Next]_vars => TypeOK'
<1>. USE DEF TypeOK, Labels, Goto, RemoveFile, Exits, SeenDead
<1>. SUFFICES ASSUME TypeOK, [Next]_vars PROVE TypeOK'
  OBVIOUS
<1>1. CASE UNCHANGED vars
  BY <1>1 DEF vars
<1>2. CASE Age
  BY <1>2 DEF Age
<1>3. ASSUME NEW c \in Clients, Step(c) PROVE TypeOK'
  <2>1. CASE Start(c) \/ FindStale(c) \/ RemoveStale(c)
    BY <2>1 DEF Start, FindStale, RemoveStale
  <2>2. CASE Acquire(c) \/ Exists(c) \/ ReadPid(c) \/ ProbePid(c)
    BY <2>2 DEF Acquire, Exists, ReadPid, ProbePid
  <2>3. CASE Work(c) \/ EndWork(c) \/ OrphanEnds(c)
    BY <2>3 DEF Work, EndWork, OrphanEnds
  <2>4. CASE Trap(c) \/ Release(c) \/ Yield(c)
    BY <2>4 DEF Trap, Release, Yield
  <2>5. CASE Retry(c) \/ GiveUp(c)
    BY <2>5 DEF Retry, GiveUp
  <2>6. CASE UnlinkStale(c)
    <3>1. CASE lock \in Clients
      BY <2>6, <3>1 DEF UnlinkStale
    <3>2. CASE lock \notin Clients
      BY <2>6, <3>2 DEF UnlinkStale
    <3>. QED  BY <3>1, <3>2
  <2>. QED  BY <1>3, <2>1, <2>2, <2>3, <2>4, <2>5, <2>6 DEF Step
<1>4. ASSUME NEW c \in Clients, Term(c) PROVE TypeOK'
  BY <1>4 DEF Term
<1>5. ASSUME NEW c \in Clients, Kill(c) PROVE TypeOK'
  <2>1. CASE UNCHANGED faulted
    BY <1>5, <2>1 DEF Kill
  <2>2. CASE faulted' = TRUE /\ UNCHANGED working
    BY <1>5, <2>2 DEF Kill
  <2>. QED  BY <1>5, <2>1, <2>2, Zenon DEF Kill
<1>. QED  BY <1>1, <1>2, <1>3, <1>4, <1>5 DEF Next

(* The lock file and the clients' state stay within their types.           *)
THEOREM TypeCorrect == Spec => []TypeOK
BY TypeInit, TypeNext, PTL DEF Spec

(* With every fault allowed, no living client leaves the file behind: it   *)
(* is waiting clients' only obstacle, and its owner still removes it.      *)
THEOREM NothingLeaks == Spec => []NoLeak
<1>. USE DEF Holding
<1>1. Init => NoLeak
  BY LockConstants DEF Init, NoLeak
<1>2. TypeOK /\ NoLeak /\ [Next]_vars => NoLeak'
  <2>. SUFFICES ASSUME TypeOK, NoLeak, [Next]_vars PROVE NoLeak'
    OBVIOUS
  <2>. USE LockConstants DEF TypeOK, NoLeak, Goto, RemoveFile
  <2>1. CASE UNCHANGED vars
    BY <2>1 DEF vars
  <2>2. CASE Age
    BY <2>2 DEF Age
  <2>3. ASSUME NEW c \in Clients,
               RemoveStale(c) \/ UnlinkStale(c) \/ Trap(c) \/ Release(c)
        PROVE  NoLeak'
    BY <2>3 DEF RemoveStale, UnlinkStale, Trap, Release
  <2>4. ASSUME NEW c \in Clients, Acquire(c) PROVE NoLeak'
    BY <2>4 DEF Acquire
  <2>5. ASSUME NEW c \in Clients,
               \/ Start(c) \/ FindStale(c) \/ Exists(c) \/ ReadPid(c) \/ ProbePid(c)
               \/ Retry(c) \/ GiveUp(c) \/ Yield(c)
        PROVE  NoLeak'
    BY <2>5 DEF Start, FindStale, Exists, ReadPid, ProbePid, Retry, GiveUp, Yield
  <2>6. ASSUME NEW c \in Clients, Work(c) \/ EndWork(c) \/ OrphanEnds(c) \/ Term(c)
        PROVE  NoLeak'
    BY <2>6 DEF Work, EndWork, OrphanEnds, Term
  <2>7. ASSUME NEW c \in Clients, Kill(c) PROVE NoLeak'
    BY <2>7 DEF Kill
  <2>. QED  BY <2>1, <2>2, <2>3, <2>4, <2>5, <2>6, <2>7 DEF Next, Step
<1>. QED  BY <1>1, <1>2, TypeCorrect, PTL DEF Spec

(* Until then the file names whoever works.                                *)
LEMMA IInvInit == Init => IInv
BY DEF Init, IInv, Holding

LEMMA FaultedStays == [Next]_vars /\ faulted => faulted'
BY DEF Next, Step, vars, Age, Start, FindStale, RemoveStale, Acquire, Exists, ReadPid,
       ProbePid, UnlinkStale, Retry, GiveUp, Work, EndWork, Trap, Release, Yield,
       OrphanEnds, Term, Kill

LEMMA IInvNext == TypeOK /\ IInv /\ [Next]_vars => IInv'
<1>. SUFFICES ASSUME TypeOK, IInv, [Next]_vars, ~faulted, ~faulted' PROVE IInv'
  BY FaultedStays DEF IInv
<1>. USE LockConstants DEF TypeOK, IInv, Holding, Goto, RemoveFile
<1>1. CASE UNCHANGED vars
  BY <1>1 DEF vars
<1>2. ~Age
  BY DEF Age
<1>3. ASSUME NEW c \in Clients,
             \/ Start(c) \/ FindStale(c) \/ Exists(c) \/ ReadPid(c)
             \/ ProbePid(c) \/ Retry(c)
      PROVE  IInv'
  BY <1>3 DEF Start, FindStale, Exists, ReadPid, ProbePid, Retry
<1>4. ASSUME NEW c \in Clients, RemoveStale(c) \/ Trap(c) \/ OrphanEnds(c) \/ Term(c)
      PROVE  FALSE
  BY <1>4 DEF RemoveStale, Trap, OrphanEnds, Term
<1>5. ASSUME NEW c \in Clients, Acquire(c) PROVE IInv'
  BY <1>5 DEF Acquire
<1>6. ASSUME NEW c \in Clients, GiveUp(c) \/ Yield(c) PROVE IInv'
  BY <1>6 DEF GiveUp, Yield
<1>7. ASSUME NEW c \in Clients, Work(c) PROVE IInv'
  BY <1>7 DEF Work
<1>8. ASSUME NEW c \in Clients, EndWork(c) PROVE IInv'
  BY <1>8 DEF EndWork
<1>9. ASSUME NEW c \in Clients, Release(c) PROVE IInv'
  BY <1>9 DEF Release
<1>10. ASSUME NEW c \in Clients, Kill(c) PROVE IInv'
  BY <1>10 DEF Kill
<1>11. ASSUME NEW c \in Clients, UnlinkStale(c) PROVE IInv'
  <2>1. \A d \in Clients : pc[d] \notin Holding
    BY <1>11 DEF UnlinkStale
  <2>. QED  BY <1>11, <2>1 DEF UnlinkStale
<1>. QED
  BY <1>1, <1>2, <1>3, <1>4, <1>5, <1>6, <1>7, <1>8, <1>9, <1>10, <1>11 DEF Next, Step

(* Any number of clients of the three kinds, interleaved by shlock's file  *)
(* system calls and killed at any point together with their children: at   *)
(* most one of them works until a shell dies without its child, a lock     *)
(* outlives the TTL, a shell is signalled, or a shlock unlinks a live lock *)
(* (which it can: run lock_takeover).                                      *)
THEOREM MutualExclusion == Spec => []OneWorker
<1>1. TypeOK /\ IInv => OneWorker
  BY DEF TypeOK, IInv, Holding, OneWorker
<1>. QED  BY <1>1, IInvInit, IInvNext, TypeCorrect, PTL DEF Spec

-----------------------------------------------------------------------------
(* The utility on its own, module Shlock: its callers' system calls, their *)
(* attempts, and disk errors and deaths.                                   *)

(* The types and the reason hold at first and no step breaks them.         *)
LEMMA CallsInit == ShlockInit => ShlockTypeOK /\ ShlockInv
<1>. SUFFICES ASSUME ShlockInit PROVE ShlockTypeOK /\ ShlockInv
  OBVIOUS
<1>. USE ShlockConstants DEF ShlockInit
<1>1. file \in Callers \cup {NoPid, DeadPid} /\ at \in [Callers -> Steps]
  BY DEF Steps
<1>2. /\ seen \in [Callers -> Callers \cup {NoPid, DeadPid}] /\ deaths \in Nat
      /\ attempts \in [Callers -> 0 .. MaxAttempts]
      /\ \A c \in Callers : at[c] # "idle" => attempts[c] < MaxAttempts
  OBVIOUS
<1>3. ShlockInv
  BY DEF ShlockInv
<1>4. disturbed \in BOOLEAN
  BY Zenon
<1>. HIDE DEF ShlockInit
<1>. QED  BY <1>1, <1>2, <1>3, <1>4, Zenon DEF ShlockTypeOK

LEMMA CallsTypeNext == ShlockTypeOK /\ [ShlockNext]_shlockVars => ShlockTypeOK'
<1>. SUFFICES ASSUME ShlockTypeOK, [ShlockNext]_shlockVars PROVE ShlockTypeOK'
  OBVIOUS
<1>. USE ShlockConstants DEF ShlockTypeOK, Steps, Go, SeenGone
<1>1. CASE UNCHANGED shlockVars
  BY <1>1 DEF shlockVars
<1>2. ASSUME NEW c \in Callers,
             Call(c) \/ Link(c) \/ LinkExists(c) \/ LinkFails(c)
      PROVE  ShlockTypeOK'
  BY <1>2 DEF Call, Link, LinkExists, LinkFails
<1>3. ASSUME NEW c \in Callers, Read(c) \/ Probe(c) PROVE ShlockTypeOK'
  BY <1>3 DEF Read, Probe
<1>4. ASSUME NEW c \in Callers, Unlink(c) PROVE ShlockTypeOK'
  <2>1. attempts[c] \in 0 .. MaxAttempts /\ attempts[c] < MaxAttempts
    BY <1>4 DEF Unlink
  <2>2. CASE attempts[c] + 1 = MaxAttempts
    BY <1>4, <2>1, <2>2 DEF Unlink
  <2>3. CASE attempts[c] + 1 < MaxAttempts
    BY <1>4, <2>1, <2>3 DEF Unlink
  <2>. QED  BY <2>1, <2>2, <2>3
<1>5. ASSUME NEW c \in Callers, Unlock(c) PROVE ShlockTypeOK'
  <2>1. disturbed' \in BOOLEAN
    BY <1>5, Zenon DEF Unlock
  <2>. QED  BY <1>5, <2>1 DEF Unlock
<1>6. ASSUME NEW c \in Callers, Die(c) PROVE ShlockTypeOK'
  <2>1. disturbed' \in BOOLEAN
    BY <1>6, Zenon DEF Die
  <2>2. file' \in Callers \cup {NoPid, DeadPid} /\ deaths' \in Nat
    BY <1>6 DEF Die
  <2>3. seen' \in [Callers -> Callers \cup {NoPid, DeadPid}]
    BY <1>6 DEF Die
  <2>4. at' \in [Callers -> Steps] /\ attempts' = attempts
    BY <1>6 DEF Die
  <2>5. \A d \in Callers : at'[d] # "idle" => attempts'[d] < MaxAttempts
    BY <1>6 DEF Die
  <2>. QED  BY <2>1, <2>2, <2>3, <2>4, <2>5
<1>. QED  BY <1>1, <1>2, <1>3, <1>4, <1>5, <1>6 DEF ShlockNext, Attempt

LEMMA DisturbedStays == [ShlockNext]_shlockVars /\ disturbed => disturbed'
BY DEF ShlockNext, Attempt, shlockVars, Call, Link, LinkExists, LinkFails,
       Read, Probe, Unlink, Unlock, Die

LEMMA CallsNext == ShlockTypeOK /\ ShlockInv /\ [ShlockNext]_shlockVars => ShlockInv'
<1>. SUFFICES ASSUME ShlockTypeOK, ShlockInv, [ShlockNext]_shlockVars, ~disturbed,
                     ~disturbed'
     PROVE  ShlockInv'
  BY DisturbedStays DEF ShlockInv
<1>. USE ShlockConstants DEF ShlockTypeOK, ShlockInv, Steps, Go
<1>1. CASE UNCHANGED shlockVars
  BY <1>1 DEF shlockVars
<1>2. ASSUME NEW c \in Callers, Call(c) \/ LinkExists(c) \/ LinkFails(c)
      PROVE  ShlockInv'
  BY <1>2 DEF Call, LinkExists, LinkFails
<1>3. ASSUME NEW c \in Callers, Link(c) PROVE ShlockInv'
  BY <1>3 DEF Link
<1>4. ASSUME NEW c \in Callers, Read(c) PROVE ShlockInv'
  BY <1>4 DEF Read
<1>5. ASSUME NEW c \in Callers, Probe(c) PROVE ShlockInv'
  <2>1. IsAlive(seen[c])
    BY <1>5 DEF Probe, IsAlive
  <2>. QED  BY <1>5, <2>1 DEF Probe
<1>6. ASSUME NEW c \in Callers, Unlink(c) \/ Unlock(c) \/ Die(c) PROVE FALSE
  BY <1>6 DEF Unlink, Unlock, Die
<1>. QED  BY <1>1, <1>2, <1>3, <1>4, <1>5, <1>6 DEF ShlockNext, Attempt

(* The types and the bound on attempts hold with releases and deaths too.  *)
THEOREM ShlockTypes == ShlockSpec => []ShlockTypeOK
BY CallsInit, CallsTypeNext, PTL DEF ShlockSpec

(* Any number of callers racing for a free lock: link() lets one of them   *)
(* through.  After a release or a death there is no such theorem: TLC      *)
(* shows two holders.                                                      *)
THEOREM OneWinner == ShlockSpec => []RaceHasOneWinner
<1>1. ShlockInv => RaceHasOneWinner
  BY DEF ShlockInv, RaceHasOneWinner
<1>. QED  BY <1>1, CallsNext, CallsInit, ShlockTypes, PTL DEF ShlockSpec
==============================================================================

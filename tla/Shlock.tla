------------------------------- MODULE Shlock -------------------------------
(***************************************************************************)
(* shlock -f lockfile -p pid, one file system call per step.  A caller     *)
(* link()s a file with its PID to the lock's name; when the name exists it *)
(* reads the PID, probes it with kill(pid, 0), and when that PID is dead   *)
(* or there is none to read, unlinks the name and tries again.  SharedLock *)
(* has these steps with what its clients do around them; here are the      *)
(* bound of attempts, failing disks and whether a call ever returns.  The  *)
(* two modules have disjoint names, so that SharedLock_proofs extends both.*)
(***************************************************************************)
EXTENDS Naturals

CONSTANTS
    Callers,
    NoPid,        \* no lock file, or no PID to read
    DeadPid,      \* the PID of a process that has ended
    MaxAttempts,  \* 64 in the code
    MaxDeaths     \* bound on kills

ASSUME ShlockConstants ==
    /\ NoPid \notin Callers /\ DeadPid \notin Callers /\ NoPid # DeadPid
    /\ MaxAttempts \in Nat \ {0} /\ MaxDeaths \in Nat

VARIABLES
    file,      \* the PID in the lock file
    at,        \* the next system call of each caller
    seen,      \* the PID each caller has read and not yet probed
    attempts,  \* unlinks of the current call
    deaths,    \* history: deaths so far
    disturbed  \* history: a lock was released or a caller died

shlockVars == <<file, at, seen, attempts, deaths, disturbed>>

Steps == {"idle", "link", "read", "probe", "unlink", "held"}

ShlockInit ==
    /\ file = NoPid
    /\ at = [c \in Callers |-> "idle"]
    /\ seen = [c \in Callers |-> NoPid]
    /\ attempts = [c \in Callers |-> 0]
    /\ deaths = 0 /\ disturbed = FALSE

Go(c, where) == at' = [at EXCEPT ![c] = where]

-----------------------------------------------------------------------------

Call(c) ==
    /\ at[c] = "idle"
    /\ attempts' = [attempts EXCEPT ![c] = 0]
    /\ Go(c, "link")
    /\ UNCHANGED <<file, seen, deaths, disturbed>>

(* open, write and link of the temporary file: only link is seen by others *)
LinkByRename(c) ==   \* mutant: rename replaces a lock that exists
    /\ at[c] = "link"
    /\ file' = c
    /\ Go(c, "held")
    /\ UNCHANGED <<seen, attempts, deaths, disturbed>>
Link(c) ==
    /\ at[c] = "link" /\ file = NoPid
    /\ file' = c
    /\ Go(c, "held")
    /\ UNCHANGED <<seen, attempts, deaths, disturbed>>

LinkExists(c) ==
    /\ at[c] = "link" /\ file # NoPid
    /\ Go(c, "read")
    /\ UNCHANGED <<file, seen, attempts, deaths, disturbed>>

(* A full or read-only disk: exit status 1 for the caller.                 *)
LinkFails(c) ==
    /\ at[c] = "link"
    /\ Go(c, "idle")
    /\ UNCHANGED <<file, seen, attempts, deaths, disturbed>>

Read(c) ==
    /\ at[c] = "read"
    /\ seen' = [seen EXCEPT ![c] = file]
    /\ Go(c, "probe")
    /\ UNCHANGED <<file, attempts, deaths, disturbed>>

IsAliveIfRead(pid) == pid # NoPid   \* mutant: kill's ESRCH is not looked at
IsAlive(pid) == pid \in Callers

Probe(c) ==
    /\ at[c] = "probe"
    /\ Go(c, IF IsAlive(seen[c]) THEN "idle" ELSE "unlink")
    /\ seen' = [seen EXCEPT ![c] = NoPid]
    /\ UNCHANGED <<file, attempts, deaths, disturbed>>

(* The name is unlinked, whichever PID it holds by now.                    *)
UnlinkForever(c) ==   \* mutant: attempts are not counted
    /\ at[c] = "unlink"
    /\ file' = NoPid
    /\ Go(c, "link")
    /\ UNCHANGED <<seen, attempts, deaths, disturbed>>
Unlink(c) ==
    /\ at[c] = "unlink"
    /\ file' = NoPid
    /\ attempts' = [attempts EXCEPT ![c] = @ + 1]
    /\ Go(c, IF attempts[c] + 1 = MaxAttempts THEN "idle" ELSE "link")
    /\ UNCHANGED <<seen, deaths, disturbed>>

(* Whoever has read c's PID will find it dead.                             *)
SeenGone(c) == [d \in Callers |-> IF seen[d] = c THEN DeadPid ELSE seen[d]]

(* The holder's rm -f, in a script that goes on or ends.                   *)
Unlock(c) ==
    /\ at[c] = "held"
    /\ file' = NoPid /\ disturbed' = TRUE
    /\ seen' \in {seen, SeenGone(c)}
    /\ Go(c, "idle")
    /\ UNCHANGED <<attempts, deaths>>

(* Caller and shlock die; the next call has another PID.                   *)
Die(c) ==
    /\ at[c] # "idle" /\ deaths < MaxDeaths
    /\ deaths' = deaths + 1 /\ disturbed' = TRUE
    /\ file' = IF file = c THEN DeadPid ELSE file
    /\ seen' = SeenGone(c)
    /\ Go(c, "idle")
    /\ UNCHANGED attempts

-----------------------------------------------------------------------------

(* What shlock does on its own once called.                                *)
Attempt(c) == Link(c) \/ LinkExists(c) \/ Read(c) \/ Probe(c) \/ Unlink(c)

ShlockNext == \E c \in Callers :
    Call(c) \/ Attempt(c) \/ LinkFails(c) \/ Unlock(c) \/ Die(c)

ShlockSpec == ShlockInit /\ [][ShlockNext]_shlockVars

(* A running shlock moves on, jobs end, timers call again, and the disk    *)
(* does not fail every time: hence strong fairness of Attempt.             *)
ShlockFairSpec == ShlockSpec /\ \A c \in Callers :
    SF_shlockVars(Attempt(c)) /\ WF_shlockVars(Unlock(c)) /\ WF_shlockVars(Call(c))

-----------------------------------------------------------------------------

(* Types of the lock file and of the callers' state, and the bound on the  *)
(* loop in try_lock: a caller inside it has attempts left.                 *)
ShlockTypeOK ==
    /\ file \in Callers \cup {NoPid, DeadPid}
    /\ at \in [Callers -> Steps]
    /\ seen \in [Callers -> Callers \cup {NoPid, DeadPid}]
    /\ attempts \in [Callers -> 0 .. MaxAttempts]
    /\ \A c \in Callers : at[c] # "idle" => attempts[c] < MaxAttempts
    /\ deaths \in Nat /\ disturbed \in BOOLEAN

(* Of callers that race for a free lock one acquires it.                   *)
RaceHasOneWinner == ~disturbed =>
    \A c, d \in Callers : at[c] = "held" /\ at[d] = "held" => c = d

(* Why: until someone releases the lock or dies, nobody sees a dead PID.   *)
ShlockInv == ~disturbed =>
    /\ file # DeadPid
    /\ \A c \in Callers :
        /\ at[c] = "held" => file = c
        /\ at[c] = "read" => file # NoPid
        /\ at[c] = "probe" => seen[c] \in Callers
        /\ at[c] # "unlink"

(* Every call comes back, with or without the lock, however others come    *)
(* and go meanwhile.                                                       *)
Returns == \A c \in Callers : at[c] = "link" ~> at[c] \in {"idle", "held"}

(* The file of a dead process does not keep the others out for good.       *)
StaleTaken == file = DeadPid ~> file # DeadPid
=============================================================================

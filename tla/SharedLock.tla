----------------------------- MODULE SharedLock -----------------------------
(***************************************************************************)
(* The lock data/.ingest.lock that every writer takes: it serialises the   *)
(* writes to SQLite and the calls to data.go.kr.  A client writes its PID  *)
(* into the file with shlock, which takes over the lock of a dead PID, and *)
(* removes the file when done.  Three kinds of client differ:              *)
(*   Crons    cron_ingest.sh: a shell holds the lock for its python child, *)
(*            removes locks older than a TTL while it waits, and ends;     *)
(*   Loops    backfill_geocode.sh, backfill_nonapt.sh: a shell takes the   *)
(*            lock for one child at a time and yields in between;          *)
(*   Batches  ShlockBatch in refill_kapt_fields, enrich_building_ledger,   *)
(*            build_corpus, enrich_poi: python holds it for its own batch. *)
(* A call of shlock is its link, its read of the PID, its probe and its    *)
(* unlink, each a step; its bound of attempts, its disk errors and the     *)
(* calls' termination are module Shlock's.                                 *)
(***************************************************************************)
EXTENDS Naturals

CONSTANTS
    Crons, Loops, Batches,
    None,      \* no lock file
    Dead,      \* a lock file whose PID no longer runs
    Faults,    \* what may go wrong besides a kill of client and child together:
               \* "orphan" a shell is killed and its child lives on,
               \* "expire" a lock gets older than the TTL,
               \* "term"   a shell gets SIGTERM while its child runs
    MaxKills   \* bound on kills

Clients == Crons \cup Loops \cup Batches
Shells == Crons \cup Loops

ASSUME LockConstants ==
    /\ None \notin Clients /\ Dead \notin Clients /\ None # Dead
    /\ Shells \cap Batches = {} /\ Crons \cap Loops = {}
    /\ Faults \subseteq {"orphan", "expire", "term"} /\ MaxKills \in Nat

VARIABLES
    lock,      \* the PID in the file
    old,       \* the file's mtime is beyond the TTL
    pc,        \* where each client stands
    pidRead,      \* the PID each client's shlock has read and not yet probed
    working,   \* clients whose child (or batch) is writing and calling APIs
    termed,    \* shells with a pending SIGTERM
    kills,     \* history: kills so far
    faulted    \* history: one of Faults, or a shlock unlinked a live lock

vars == <<lock, old, pc, pidRead, working, termed, kills, faulted>>

Labels == {"idle", "guard", "stale", "try", "read", "probe", "unlink", "refused",
           "held", "run", "trap", "ended", "yield"}

Init ==
    /\ lock = None /\ old = FALSE
    /\ pc = [c \in Clients |-> "idle"]
    /\ pidRead = [c \in Clients |-> None]
    /\ working = {} /\ termed = {} /\ kills = 0 /\ faulted = FALSE

Goto(c, where) == pc' = [pc EXCEPT ![c] = where]
RemoveFile == lock' = None /\ old' = FALSE

(* A client's process ends: whoever has read its PID will find it dead.    *)
SeenDead(gone) ==
    [d \in Clients |-> IF pidRead[d] \in gone THEN Dead ELSE pidRead[d]]
Exits(gone) == pidRead' = SeenDead(gone)

-----------------------------------------------------------------------------

Start(c) ==
    /\ pc[c] = "idle" /\ c \notin working
    /\ Goto(c, IF c \in Crons THEN "guard" ELSE "try")
    /\ UNCHANGED <<lock, old, pidRead, working, termed, kills, faulted>>

(* acquire_shared_lock: find and rm are two commands.                      *)
FindStale(c) ==
    /\ pc[c] = "guard"
    /\ Goto(c, IF lock # None /\ old THEN "stale" ELSE "try")
    /\ UNCHANGED <<lock, old, pidRead, working, termed, kills, faulted>>

RemoveStale(c) ==
    /\ pc[c] = "stale"
    /\ RemoveFile
    /\ Goto(c, "try")
    /\ UNCHANGED <<pidRead, working, termed, kills, faulted>>

(* shlock: link succeeds when there is no such name.                       *)
Acquire(c) ==
    /\ pc[c] = "try" /\ lock = None
    /\ lock' = c /\ old' = FALSE
    /\ Goto(c, "held")
    /\ UNCHANGED <<pidRead, working, termed, kills, faulted>>

Exists(c) ==
    /\ pc[c] = "try" /\ lock # None
    /\ Goto(c, "read")
    /\ UNCHANGED <<lock, old, pidRead, working, termed, kills, faulted>>

ReadPid(c) ==
    /\ pc[c] = "read"
    /\ pidRead' = [pidRead EXCEPT ![c] = lock]
    /\ Goto(c, "probe")
    /\ UNCHANGED <<lock, old, working, termed, kills, faulted>>

(* A PID that runs refuses the lock; a dead one, or none to read since the *)
(* file is gone by now, counts as stale.                                   *)
ProbeRespectsDead(c) ==   \* mutant: a dead PID's lock is respected
    /\ pc[c] = "probe"
    /\ Goto(c, IF pidRead[c] # None THEN "refused" ELSE "unlink")
    /\ pidRead' = [pidRead EXCEPT ![c] = None]
    /\ UNCHANGED <<lock, old, working, termed, kills, faulted>>
ProbePid(c) ==
    /\ pc[c] = "probe"
    /\ Goto(c, IF pidRead[c] \in Clients THEN "refused" ELSE "unlink")
    /\ pidRead' = [pidRead EXCEPT ![c] = None]
    /\ UNCHANGED <<lock, old, working, termed, kills, faulted>>

(* The name is unlinked, whoever has linked a PID to it since the probe.   *)
UnlinkStale(c) ==
    /\ pc[c] = "unlink"
    /\ RemoveFile
    /\ IF lock \in Clients THEN faulted' = TRUE ELSE UNCHANGED faulted
    /\ Goto(c, "try")
    /\ UNCHANGED <<pidRead, working, termed, kills>>

Retry(c) ==
    /\ pc[c] = "refused"
    /\ Goto(c, IF c \in Crons THEN "guard" ELSE "try")
    /\ UNCHANGED <<lock, old, pidRead, working, termed, kills, faulted>>

(* Deadline or spin limit reached: cron and batch runs end, loops yield.   *)
GiveUpUnchecked(c) ==   \* mutant: the batch does not look at acquired
    /\ pc[c] = "refused"
    /\ Goto(c, IF c \in Loops THEN "yield" ELSE IF c \in Batches THEN "held" ELSE "idle")
    /\ Exits({c} \ Loops)
    /\ UNCHANGED <<lock, old, working, termed, kills, faulted>>
GiveUp(c) ==
    /\ pc[c] = "refused"
    /\ Goto(c, IF c \in Loops THEN "yield" ELSE "idle")
    /\ Exits({c} \ Loops)
    /\ UNCHANGED <<lock, old, working, termed, kills, faulted>>

Work(c) ==
    /\ pc[c] = "held"
    /\ working' = working \cup {c}
    /\ Goto(c, "run")
    /\ UNCHANGED <<lock, old, pidRead, termed, kills, faulted>>

(* A trap runs when the foreground child has ended; the script goes on     *)
(* after it, since the trap does not exit.                                 *)
EndWork(c) ==
    /\ pc[c] = "run"
    /\ working' = working \ {c}
    /\ Goto(c, IF c \in termed THEN "trap" ELSE "ended")
    /\ UNCHANGED <<lock, old, pidRead, termed, kills, faulted>>

Trap(c) ==
    /\ pc[c] = "trap"
    /\ RemoveFile
    /\ termed' = termed \ {c}
    /\ Goto(c, "ended")
    /\ UNCHANGED <<pidRead, working, kills, faulted>>

(* rm -f / os.remove, whatever PID the file holds; a cron run then ends.   *)
ReleaseShellsOnly(c) ==   \* mutant: a batch keeps the file
    /\ pc[c] = "ended"
    /\ IF c \in Shells THEN RemoveFile ELSE UNCHANGED <<lock, old>>
    /\ Goto(c, IF c \in Crons THEN "idle" ELSE "yield")
    /\ Exits({c} \cap Crons)
    /\ UNCHANGED <<working, termed, kills, faulted>>
Release(c) ==
    /\ pc[c] = "ended"
    /\ RemoveFile
    /\ Goto(c, IF c \in Crons THEN "idle" ELSE "yield")
    /\ Exits({c} \cap Crons)
    /\ UNCHANGED <<working, termed, kills, faulted>>

(* Sleep without the lock, then the next batch, or the worklist is done.   *)
Yield(c) ==
    /\ pc[c] = "yield"
    /\ \/ Goto(c, "try") /\ UNCHANGED pidRead
       \/ Goto(c, "idle") /\ Exits({c})
    /\ UNCHANGED <<lock, old, working, termed, kills, faulted>>

-----------------------------------------------------------------------------

Term(c) ==
    /\ "term" \in Faults /\ c \in Shells \ termed /\ pc[c] = "run"
    /\ termed' = termed \cup {c}
    /\ faulted' = TRUE
    /\ UNCHANGED <<lock, old, pc, pidRead, working, kills>>

(* SIGKILL or power loss: the PID in the file, if it is this client's, is  *)
(* dead from now on, and so it is for whoever has read it.  A shlock that  *)
(* the client waits for dies with it.                                      *)
Kill(c) ==
    /\ pc[c] # "idle" /\ kills < MaxKills
    /\ kills' = kills + 1
    /\ Goto(c, "idle")
    /\ lock' = IF lock = c THEN Dead ELSE lock
    /\ pidRead' = [SeenDead({c}) EXCEPT ![c] = None]
    /\ termed' = termed \ {c}
    /\ \/ working' = working \ {c} /\ UNCHANGED faulted
       \/ /\ "orphan" \in Faults /\ c \in Shells \cap working
          /\ faulted' = TRUE /\ UNCHANGED working
    /\ UNCHANGED old

OrphanEnds(c) ==
    /\ pc[c] = "idle" /\ c \in working
    /\ working' = working \ {c}
    /\ UNCHANGED <<lock, old, pc, pidRead, termed, kills, faulted>>

Age ==
    /\ "expire" \in Faults /\ lock # None /\ ~old
    /\ old' = TRUE /\ faulted' = TRUE
    /\ UNCHANGED <<lock, pc, pidRead, working, termed, kills>>

Step(c) ==
    \/ Start(c) \/ FindStale(c) \/ RemoveStale(c)
    \/ Acquire(c) \/ Exists(c) \/ ReadPid(c) \/ ProbePid(c) \/ UnlinkStale(c)
    \/ Retry(c) \/ GiveUp(c) \/ Work(c) \/ EndWork(c) \/ Trap(c)
    \/ Release(c) \/ Yield(c) \/ OrphanEnds(c)

Next == Age \/ \E c \in Clients : Step(c) \/ Term(c) \/ Kill(c)

Spec == Init /\ [][Next]_vars

(* Timers and cron start clients again and again, and a running client     *)
(* moves on; nothing obliges a kill, a signal or an expiry.                *)
FairSpec == Spec /\ \A c \in Clients : WF_vars(Step(c))

-----------------------------------------------------------------------------

(* Types of the lock file and of the clients' state.                       *)
TypeOK ==
    /\ lock \in Clients \cup {None, Dead} /\ old \in BOOLEAN
    /\ pc \in [Clients -> Labels]
    /\ pidRead \in [Clients -> Clients \cup {None, Dead}]
    /\ working \subseteq Clients /\ termed \subseteq Clients
    /\ kills \in Nat /\ faulted \in BOOLEAN

(* One writer, one caller of data.go.kr at a time, until one of four       *)
(* things happens: a shell is killed without its child, a lock outlives    *)
(* the TTL, a shell is signalled, or a shlock unlinks a live lock that was *)
(* linked after its read.  Nothing else lets two of them in: neither kills *)
(* of a client with its child, nor give-ups, nor releases that do not look *)
(* at the PID in the file.                                                 *)
OneWorker == ~faulted => \A c, d \in working : c = d

(* What cron_ingest.sh:3 says of the lock, without a condition.            *)
SingleWriter == \A c, d \in working : c = d

(* Why: whoever works or is about to is the one the file names.            *)
Holding == {"held", "run", "ended"}
IInv == ~faulted =>
    /\ old = FALSE /\ termed = {}
    /\ \A c \in Clients :
        /\ pc[c] \notin {"stale", "trap"}
        /\ pc[c] \in Holding => lock = c
        /\ c \in working => pc[c] = "run"

(* No live process leaves the lock behind: a file with a live PID belongs  *)
(* to a client that still has its removal before it.                       *)
NoLeak == lock \in Clients => pc[lock] \in Holding \cup {"trap"}

(* The lock of a killed client does not stay: someone takes it over.       *)
Recovers == lock = Dead ~> lock # Dead
=============================================================================

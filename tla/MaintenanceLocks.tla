---------------------------- MODULE MaintenanceLocks ----------------------------
(***************************************************************************)
(* The lock files inside a Box (cli/utils/runtime/maintenanceLocks.js): the *)
(* workspace mutation lease and the maintenance lock of a container, the   *)
(* supervisors that keep the lease of a worker thread they had to stop     *)
(* (marketplaceEnableWorker.js, marketplaceRepositorySupervisor.mjs), and  *)
(* the host command that stops the Box and retires its lease               *)
(* (ploinky-box/noWaitCleanup.mjs).                                        *)
(*                                                                         *)
(* Every operation is a thread of a process of its own, and an action is   *)
(* one file-system call: other processes run between any two.  A file is   *)
(* known by the operation that created it, which stands for its inode, its *)
(* token and its pid; a lock lives in the Box (pid namespace) it was       *)
(* written in.  Expiry times never decide anything in this code.           *)
(*                                                                         *)
(* Timing assumption: a process that is between emptying (or creating) the *)
(* file and writing it needs less than LOCK_STALE_GRACE_MS, five seconds.  *)
(***************************************************************************)
EXTENDS Naturals, FiniteSets

CONSTANTS
    Op,          \* operations that take the lock, and monitors that inspect it
    Monitor,     \* those that only inspect (containerMonitor.js)
    Supervised,  \* worker threads with requireQuiescenceOnOwnerDeath
    Kind,        \* which locks are explored: "lease", "maintenance"
    None,
    MaxBox       \* bound: Boxes over the life of the workspace

File == [owner : Op, body : {"empty", "lock", "recover"}, box : 1..MaxBox]

ASSUME LockAssumption ==
    /\ Monitor \subseteq Op /\ Supervised \subseteq Op \ Monitor /\ None \notin File
    /\ Kind \subseteq {"lease", "maintenance"} /\ MaxBox \in Nat \ {0}

VARIABLES
    kind,     \* the lock that this behaviour is about
    file,     \* the file at the lock's path, or None
    pc, why,  \* the next call of an operation, and for which function
    seen,     \* the result of its last lstat
    snap,     \* the snapshot it decided on: what lstat and readFile returned
    tries,    \* attempt
    sup,      \* the supervising thread: "off", or where it is
    box,      \* the current Box
    orphans,  \* operations that ended before their children were known to have
    raced     \* whether two processes compared one file before unlinking it

lockVars == <<kind, file, pc, why, seen, snap, tries, sup, box, orphans, raced>>

Reason == {"create", "raced", "poll", "watch", "release"}
LockTypeOK ==
    /\ kind \in {"lease", "maintenance"}
    /\ file \in File \union {None}
    /\ pc \in [Op -> {"idle", "lstat", "read", "judge", "relstat", "reread", "unlink", "exists",
                      "wait", "create", "write", "hold", "done", "gone", "dead"}]
    /\ why \in [Op -> Reason]
    /\ seen \in [Op -> File \union {None}]
    /\ snap \in [Op -> (File \union {None}) \X (File \union {None})]
    /\ tries \in [Op -> 0..2]
    /\ sup \in [Op -> {"off", "check", "trunc", "write", "term", "recheck", "retrunc",
                       "rewrite", "end"}]
    /\ box \in 1..MaxBox /\ orphans \subseteq Supervised /\ raced \in BOOLEAN

NoSnapshot == <<None, None>>

LockInit ==
    /\ kind \in Kind /\ file = None
    /\ pc = [p \in Op |-> "idle"] /\ why = [p \in Op |-> "create"]
    /\ seen = [p \in Op |-> None] /\ snap = [p \in Op |-> NoSnapshot]
    /\ tries = [p \in Op |-> 0] /\ sup = [p \in Op |-> "off"]
    /\ box = 1 /\ orphans = {} /\ raced = FALSE

\* The process of p runs.
Running(p) == pc[p] \notin {"idle", "dead"}

-----------------------------------------------------------------------------
(* What a process concludes from a snapshot.                               *)

\* isProcessAlive (a maintenance lock: the pid may be one of a later Box)
\* and workspaceOwnerIsActive (the lease).
OwnerActive(f) ==
    IF f.box # box
    THEN IF kind = "lease" THEN {TRUE} ELSE BOOLEAN
    ELSE {Running(f.owner)}

\* A thread is about to write the file that f was.
BeingWritten(f) == f.box = box /\ (pc[f.owner] = "write" \/ sup[f.owner] \in {"write", "rewrite"})

\* Mutant: an unreadable lock file gets no time to be written.
NoGrace(f) == BOOLEAN

\* Whether the file was younger than LOCK_STALE_GRACE_MS.
Young(f) == IF BeingWritten(f) /\ f.body = "empty" THEN {TRUE} ELSE BOOLEAN

\* Mutant: a lease whose owner is gone is stale, whatever it needs.
LeaseVerdictByOwner(f, active) == IF active THEN "busy" ELSE "stale"

LeaseVerdict(f, active) ==
    IF f.body = "recover" \/ (f.owner \in Supervised /\ ~active) THEN "recovery"
    ELSE IF active THEN "busy" ELSE "stale"

\* inspectWorkspaceStartLock and inspectMaintenanceLock, up to removeSnapshot.
Verdicts(s) ==
    IF s[2].body = "empty"
    THEN {IF y THEN "busy" ELSE IF kind = "lease" THEN "recovery" ELSE "stale" : y \in Young(s[1])}
    ELSE {IF kind = "lease" THEN LeaseVerdict(s[2], a) ELSE IF a THEN "busy" ELSE "stale"
             : a \in OwnerActive(s[2])}

-----------------------------------------------------------------------------
(* Steps of an operation.  Goto(p, l, w) continues with call l of function w. *)

Goto(p, l, w) ==
    /\ pc' = [pc EXCEPT ![p] = l] /\ why' = [why EXCEPT ![p] = w]
    /\ seen' = [seen EXCEPT ![p] = None]
    /\ snap' = [snap EXCEPT ![p] = IF l \in {"relstat", "reread", "unlink"} THEN @ ELSE NoSnapshot]
    /\ tries' = [tries EXCEPT ![p] = IF l \in {"relstat", "reread", "unlink"} THEN @ ELSE 0]

Unmoved == UNCHANGED <<kind, sup, box, orphans>>
FileKept == UNCHANGED <<file, raced>>

Begin(p) ==
    /\ pc[p] = "idle" /\ FileKept /\ Unmoved
    /\ Goto(p, "lstat", IF p \in Monitor THEN "watch" ELSE "create")

\* The inspection found the path free, or removed what was there.
Inactive(p) ==
    CASE why[p] = "create" -> Goto(p, "create", "create")
      [] why[p] = "raced" -> Goto(p, "lstat", "poll")
      [] why[p] = "poll" -> Goto(p, "exists", "poll")
      [] why[p] = "watch" -> Goto(p, "idle", "create")
      [] why[p] = "release" -> Goto(p, "done", "release")

\* The inspection left the file; recovery says that it needs the host.
Active(p, recovery) ==
    CASE why[p] = "create" -> IF recovery THEN Goto(p, "done", "create") ELSE Goto(p, "lstat", "poll")
      [] why[p] = "raced" -> Goto(p, "lstat", "poll")
      [] why[p] = "poll" -> Goto(p, "wait", "poll")
      [] why[p] = "watch" -> Goto(p, "idle", "create")
      [] why[p] = "release" -> Goto(p, "done", "release")

\* removeSnapshot returned false: the inspection starts again, twice at most.
NotRemoved(p) ==
    IF why[p] # "release" /\ tries[p] < 2
    THEN /\ pc' = [pc EXCEPT ![p] = "lstat"] /\ tries' = [tries EXCEPT ![p] = @ + 1]
         /\ seen' = [seen EXCEPT ![p] = None] /\ snap' = [snap EXCEPT ![p] = NoSnapshot]
         /\ UNCHANGED why
    ELSE Active(p, FALSE)

\* lockSnapshot: lstat, then readFile.  The path may be empty at either.
Lstat(p) ==
    /\ pc[p] = "lstat" /\ FileKept /\ Unmoved
    /\ IF file = None THEN Inactive(p)
       ELSE /\ pc' = [pc EXCEPT ![p] = "read"] /\ seen' = [seen EXCEPT ![p] = file]
            /\ UNCHANGED <<why, snap, tries>>

Read(p) ==
    /\ pc[p] = "read" /\ FileKept /\ Unmoved
    /\ IF file = None THEN Inactive(p)
       ELSE /\ pc' = [pc EXCEPT ![p] = "judge"] /\ seen' = [seen EXCEPT ![p] = None]
            /\ snap' = [snap EXCEPT ![p] = <<seen[p], file>>]
            /\ UNCHANGED <<why, tries>>

Judge(p) ==
    /\ pc[p] = "judge" /\ why[p] # "release" /\ FileKept /\ Unmoved
    /\ \E v \in Verdicts(snap[p]) :
          IF v = "stale" THEN Goto(p, "relstat", why[p]) ELSE Active(p, v = "recovery")

\* releaseWorkspaceStartLock and removeMaintenanceLock, after their snapshot.
JudgeRelease(p) ==
    /\ pc[p] = "judge" /\ why[p] = "release" /\ FileKept /\ Unmoved
    /\ LET f == snap[p][2]
       IN \E a \in OwnerActive(f) :
             IF kind = "lease" /\ f.body # "empty" /\ LeaseVerdict(f, a) = "recovery"
             THEN Goto(p, "done", "release") ELSE Goto(p, "relstat", "release")

\* removeSnapshot: a second snapshot, the comparison (and the token), unlink.
Relstat(p) ==
    /\ pc[p] = "relstat" /\ FileKept /\ Unmoved
    /\ IF file = snap[p][1] /\ file # None THEN Goto(p, "reread", why[p]) ELSE NotRemoved(p)

Reread(p) ==
    /\ pc[p] = "reread" /\ FileKept /\ Unmoved
    /\ IF file = snap[p][2] /\ file # None /\ (why[p] = "release" => file.owner = p /\ file.body # "empty")
       THEN Goto(p, "unlink", why[p]) ELSE NotRemoved(p)

\* unlink names the path, not the file that was compared.
Unlink(p) ==
    /\ pc[p] = "unlink" /\ Unmoved
    /\ file' = None /\ raced' = (raced \/ \E q \in Op \ {p} : pc[q] = "unlink")
    /\ IF file = None THEN NotRemoved(p) ELSE Inactive(p)

\* acquireWorkspaceMutationLease and acquireMaintenanceLock: existsSync, wait.
Exists(p) ==
    /\ pc[p] = "exists" /\ FileKept /\ Unmoved
    /\ IF file = None THEN Goto(p, "lstat", "create") ELSE Goto(p, "wait", "poll")

Retry(p) == pc[p] = "wait" /\ Goto(p, "lstat", "create") /\ FileKept /\ Unmoved

TimedOut(p) == pc[p] = "wait" /\ Goto(p, "done", "poll") /\ FileKept /\ Unmoved

\* writeFileSync with flag wx: the file is created empty, or is there already.
Create(p) ==
    /\ pc[p] = "create" /\ Unmoved /\ UNCHANGED raced
    /\ IF file = None
       THEN file' = [owner |-> p, body |-> "empty", box |-> box] /\ Goto(p, "write", "create")
       ELSE /\ UNCHANGED file
            /\ Goto(p, "lstat", IF kind = "lease" THEN "raced" ELSE "poll")

\* A write goes to the file that was opened, which may have left the path.
Body(p, b) == IF file # None /\ file.owner = p THEN [file EXCEPT !.body = b] ELSE file

Write(p) ==
    /\ pc[p] = "write" /\ file' = Body(p, "lock") /\ Goto(p, "hold", "create")
    /\ Unmoved /\ UNCHANGED raced

\* The operation is over.
Release(p) == pc[p] = "hold" /\ Goto(p, "lstat", "release") /\ FileKept /\ Unmoved

-----------------------------------------------------------------------------
(* The supervisor of a worker thread: retainWorkspaceMutationLeaseForRecovery, *)
(* termination of the thread, and the same function again.                 *)

Retain(p, from, to) == sup[p] = from /\ Running(p) /\ sup' = [sup EXCEPT ![p] = to]
ThreadKept == UNCHANGED <<kind, pc, why, seen, snap, tries, box, raced>>

\* The deadline of the operation, a protocol error or a cancelled request.
Abort(p) ==
    /\ kind = "lease" /\ p \in Supervised /\ pc[p] \notin {"done", "gone"}
    /\ Retain(p, "off", "check") /\ ThreadKept /\ UNCHANGED <<file, orphans>>

\* The checks by path and the checks on the opened descriptor succeed together
\* when the descriptor is the worker's file and has a lease in it.
IsItsLease(p) == file # None /\ file.owner = p /\ file.body # "empty"

CheckLease(p) ==
    /\ \/ Retain(p, "check", IF IsItsLease(p) THEN "trunc" ELSE "term")
       \/ Retain(p, "recheck", IF IsItsLease(p) THEN "retrunc" ELSE "end")
    /\ ThreadKept /\ UNCHANGED <<file, orphans>>

Truncate(p) ==
    /\ Retain(p, "trunc", "write") \/ Retain(p, "retrunc", "rewrite")
    /\ file' = Body(p, "empty") /\ ThreadKept /\ UNCHANGED orphans

MarkRecovery(p) ==
    /\ Retain(p, "write", "term") \/ Retain(p, "rewrite", "end")
    /\ file' = Body(p, "recover") /\ ThreadKept /\ UNCHANGED orphans

\* Mutant: nothing is retained once the thread has stopped.
StoppedForGood(p) ==
    /\ Retain(p, "term", "end")
    /\ orphans' = IF pc[p] = "hold" THEN orphans \union {p} ELSE orphans
    /\ pc' = [pc EXCEPT ![p] = IF @ = "done" THEN @ ELSE "gone"]
    /\ UNCHANGED <<kind, file, why, seen, snap, tries, box, raced>>

\* worker.terminate() has stopped the thread, wherever it was.
Terminated(p) ==
    /\ Retain(p, "term", "recheck")
    /\ orphans' = IF pc[p] = "hold" THEN orphans \union {p} ELSE orphans
    /\ pc' = [pc EXCEPT ![p] = IF @ = "done" THEN @ ELSE "gone"]
    /\ UNCHANGED <<kind, file, why, seen, snap, tries, box, raced>>

-----------------------------------------------------------------------------
(* Processes and Boxes end.                                                *)

Ended(p) == /\ why' = [why EXCEPT ![p] = "create"] /\ seen' = [seen EXCEPT ![p] = None]
            /\ snap' = [snap EXCEPT ![p] = NoSnapshot] /\ tries' = [tries EXCEPT ![p] = 0]

\* The process ends: its work is over, or it crashes.  The children of a
\* worker thread may go on.
Exit(p) ==
    /\ Running(p) /\ pc' = [pc EXCEPT ![p] = "dead"] /\ Ended(p)
    /\ orphans' = IF p \in Supervised /\ pc[p] = "hold" /\ kind = "lease"
                  THEN orphans \union {p} ELSE orphans
    /\ UNCHANGED <<kind, file, sup, box, raced>>

AllEnd ==
    /\ box < MaxBox /\ box' = box + 1 /\ orphans' = {}
    /\ pc' = [p \in Op |-> IF Running(p) THEN "dead" ELSE pc[p]]
    /\ why' = [p \in Op |-> "create"] /\ seen' = [p \in Op |-> None]
    /\ snap' = [p \in Op |-> NoSnapshot] /\ tries' = [p \in Op |-> 0]
    /\ UNCHANGED <<kind, sup, raced>>

\* The container is lost and a new one started.
LoseBox == AllEnd /\ UNCHANGED file

\* retireQuiescentBoxWorkspaceStartLock: under the lock of the host the Box is
\* known to have stopped, and its lease is removed.
StopBox == AllEnd /\ file' = IF kind = "lease" THEN None ELSE file

OpStep(p) ==
    \/ Begin(p) \/ Lstat(p) \/ Read(p) \/ Judge(p) \/ JudgeRelease(p) \/ Relstat(p)
    \/ Reread(p) \/ Unlink(p) \/ Exists(p) \/ Retry(p) \/ TimedOut(p) \/ Create(p) \/ Write(p)
    \/ Abort(p) \/ CheckLease(p) \/ Truncate(p) \/ MarkRecovery(p) \/ Terminated(p) \/ Exit(p)

LockNext == (\E p \in Op : OpStep(p) \/ Release(p)) \/ LoseBox \/ StopBox

LockSpec == LockInit /\ [][LockNext]_lockVars

-----------------------------------------------------------------------------
(* Properties *)

\* The operations that may be changing the workspace: holders, and those
\* whose children may still run.
Mutating == {p \in Op : pc[p] = "hold"} \union orphans

\* The lock serialises the operations: at most one of them, the children of
\* stopped worker threads included, changes the workspace at a time
\* (createWorkspaceMutationLease, createMaintenanceLock).
Serialized == Cardinality(Mutating) <= 1

\* Only one thing breaks the exclusion: two processes compared the same file
\* in removeSnapshot before either unlinked it.
SerializedUnlessRaced == raced \/ Serialized

\* The file that p is about to unlink is not the one it compared: it was rewritten
\* or replaced between the last two calls of removeSnapshot.
Overtaken(p) == pc[p] = "unlink" /\ snap[p][2] # file

\* A lease that needs the host (marked for recovery, or written by a worker
\* thread whose process ended) stays at the path until its Box ends. The one
\* exception is an unlink that its comparison no longer covers: the worker's own
\* release that compared the lease before it was marked, or another process that
\* compared an earlier file. No inspection and no release that sees such a lease
\* removes it (inspectWorkspaceStartLock, releaseWorkspaceStartLock).
NeedsHost == /\ file # None /\ kind = "lease"
             /\ file.body = "recover" \/ (file.owner \in Supervised /\ ~Running(file.owner))
RecoveryKept ==
    [][NeedsHost /\ file' # file =>
          \/ box' # box
          \/ file' # None /\ file'.owner = file.owner
          \/ \E p \in Op : Overtaken(p) /\ pc'[p] # pc[p]]_lockVars

\* A supervisor that is done with a stopped worker has left nothing at the path
\* that looks like a lease somebody will release: what is left of the worker's
\* lease asks for the host (runMarketplaceEnableWorker, cancel).
AbnormalEndRetained ==
    \A p \in Supervised :
        sup[p] = "end" /\ Running(p) /\ file # None /\ file.owner = p => file.body # "lock"
=============================================================================

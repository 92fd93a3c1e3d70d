---------------------------- MODULE WorkspaceLock ----------------------------
(***************************************************************************)
(* The workspace mutation lock (ploinky-box/locks.mjs, lockFiles.mjs and   *)
(* lockLiveness.mjs) and the recovery of its reclaim guard by              *)
(* `ploinky unlock` (unlock.mjs).                                          *)
(*                                                                         *)
(* Commands are processes that share nothing but a directory, so every     *)
(* file-system call is an action of its own and a command may end between  *)
(* any two. A Command is one acquisition (or one `unlock`): a process that *)
(* takes the lock twice is two commands. A lock directory is named by the  *)
(* command that staged it, which stands for its inode and for the bytes of *)
(* its owner record; a guard directory by its creator and a number.        *)
(*                                                                         *)
(* Left out: `--force-holder`, whose operator vouches that the holder is   *)
(* gone; the released- siblings, which are never the lock; relocation and  *)
(* deletion of the workspace; malformed records.                           *)
(***************************************************************************)
EXTENDS Naturals, FiniteSets

CONSTANTS
    Command,
    None,       \* no directory
    MaxGuards   \* bound: how often one command makes the guard

ASSUME MaxGuardsAssumption == MaxGuards \in Nat
ASSUME NoneAssumption == None \notin Command /\ None \notin [by : Command, n : 1..MaxGuards]

VARIABLES
    pc,         \* the next file-system call of a command
    unlocking,  \* the command is `ploinky unlock`
    alive,      \* its process runs
    staging,    \* its staging directory: none, empty, or with the owner record
    lock,       \* the directory at the lock's path
    residue,    \* a lock directory holds more than its owner record
    guard,      \* the directory at the guard's path
    guardRec,   \* that directory holds its owner record
    made,       \* how many guards a command has made
    obs,        \* what inspectLockDirectory saw: the directory and the record
    outcome,    \* what reclaimStale will return
    judged,     \* what unlock saw at the guard's path: the directory and the record
    moved,      \* what unlock moved off the guard's path
    unlocker    \* the holder of locks/unlock.lock

vars == <<pc, unlocking, alive, staging, lock, residue, guard, guardRec, made, obs,
          outcome, judged, moved, unlocker>>
disk == <<staging, lock, residue, guard, guardRec>>
notes == <<unlocking, made, obs, outcome, judged, moved, unlocker>>

Guarding == {"grec", "gstat", "gread", "classify", "residue", "retire", "unrec", "unguard"}
Unlocking == {"ustat", "uread", "ure1", "ure2", "umove", "uverify"}
Holding == {"held", "release"}
PC == {"new", "stage", "record", "publish", "stat", "read", "guard", "wait", "done"}
          \union Guarding \union Unlocking \union Holding
Guard == [by : Command, n : 1..MaxGuards]
Nothing == [dir |-> None, rec |-> None]

TypeOK ==
    /\ pc \in [Command -> PC]
    /\ unlocking \in [Command -> BOOLEAN] /\ alive \in [Command -> BOOLEAN]
    /\ staging \in [Command -> {"none", "empty", "full"}]
    /\ lock \in Command \union {None} /\ residue \in [Command -> BOOLEAN]
    /\ guard \in Guard \union {None} /\ guardRec \in BOOLEAN
    /\ made \in [Command -> 0..MaxGuards]
    /\ obs \in [Command -> [dir : Command \union {None}, rec : Command \union {None}]]
    /\ outcome \in [Command -> {"retry", "reclaimed", "error"}]
    /\ judged \in [Command -> [dir : Guard \union {None}, rec : Guard \union {None}]]
    /\ moved \in [Command -> Guard \union {None}]
    /\ unlocker \in Command \union {None}

Init ==
    /\ pc = [p \in Command |-> "new"]
    /\ unlocking = [p \in Command |-> FALSE] /\ alive = [p \in Command |-> TRUE]
    /\ staging = [p \in Command |-> "none"]
    /\ lock = None /\ residue = [p \in Command |-> FALSE]
    /\ guard = None /\ guardRec = FALSE
    /\ made = [p \in Command |-> 0] /\ obs = [p \in Command |-> Nothing]
    /\ outcome = [p \in Command |-> "retry"] /\ judged = [p \in Command |-> Nothing]
    /\ moved = [p \in Command |-> None]
    /\ unlocker = None

At(p, label) == alive[p] /\ pc[p] = label
Goto(p, label) == pc' = [pc EXCEPT ![p] = label]

\* Where a command goes when a step of acquiring or unlocking did not work out.
Wait(p) == IF unlocking[p] THEN "done" ELSE "wait"

\* An immediate retry of the driver, or a wait when it has had too many.
Retries(p) == IF unlocking[p] THEN {"done"} ELSE {"publish", "wait"}

\* Mutant: the verdict does not look at the process.
VerdictsAnyone(p) == {"live", "stale", "undetermined"}

\* classify: stale only on evidence that the process is gone; any probe may fail.
Verdicts(p) == {"undetermined", IF alive[p] THEN "live" ELSE "stale"}

(***************************************************************************)
(* Acquisition.                                                            *)
(***************************************************************************)
\* Mutant: every staging directory counts as debris.
DebrisAny(p) == {q \in Command \ {p} : staging[q] # "none"}

\* What sweepLockDebris may remove: an empty staging directory that is older than
\* the sweeping process, and one whose owner is stale.
Debris(p) == {q \in Command \ {p} :
    staging[q] = "empty" \/ (staging[q] = "full" /\ "stale" \in Verdicts(q))}

\* The process starts and sweeps; an empty directory younger than the process and
\* an owner that cannot be classified stay.
Start(p) ==
    /\ At(p, "new")
    /\ \E swept \in SUBSET Debris(p) :
          staging' = [q \in Command |-> IF q \in swept THEN "none" ELSE staging[q]]
    /\ Goto(p, "stage")
    /\ UNCHANGED <<alive, lock, residue, guard, guardRec, notes>>

\* stageLock: mkdir, then the owner record. A sweeper may have removed the
\* empty directory in between, which makes the driver wait and start over.
StageMkdir(p) ==
    /\ At(p, "stage")
    /\ staging' = [staging EXCEPT ![p] = "empty"]
    /\ Goto(p, "record")
    /\ UNCHANGED <<alive, lock, residue, guard, guardRec, notes>>

StageRecord(p) ==
    /\ At(p, "record")
    /\ \/ /\ staging[p] = "empty"
          /\ staging' = [staging EXCEPT ![p] = "full"] /\ Goto(p, "publish")
       \/ /\ staging[p] = "none" /\ Goto(p, "wait") /\ UNCHANGED staging
    /\ UNCHANGED <<alive, lock, residue, guard, guardRec, notes>>

\* publishLock: rename(2) replaces no directory that holds a record. A staging
\* directory that is gone is staged again.
Publish(p) ==
    /\ At(p, "publish")
    /\ IF staging[p] # "full" THEN Goto(p, "wait") /\ UNCHANGED <<lock, staging>>
       ELSE \/ /\ lock = None
               /\ lock' = p /\ staging' = [staging EXCEPT ![p] = "none"] /\ Goto(p, "held")
            \/ lock # None /\ Goto(p, "stat") /\ UNCHANGED <<lock, staging>>
    /\ UNCHANGED <<alive, residue, guard, guardRec, notes>>

\* inspectLockDirectory: the directory first, its owner record second.
InspectStat(p) ==
    /\ At(p, "stat")
    /\ obs' = [obs EXCEPT ![p] = [dir |-> lock, rec |-> None]]
    /\ \E next \in IF lock = None THEN Retries(p) ELSE {"read"} : Goto(p, next)
    /\ UNCHANGED <<alive, disk, unlocking, made, outcome, judged, moved, unlocker>>

\* The record, then the verdict about its owner. A directory that is gone by now
\* looks ownerless, or vanished when the record itself had been found.
InspectRead(p) ==
    /\ At(p, "read")
    /\ obs' = [obs EXCEPT ![p].rec = lock]
    /\ \/ /\ lock # None
          /\ \E verdict \in Verdicts(lock) :
                Goto(p, IF verdict = "stale" THEN "guard" ELSE Wait(p))
       \/ lock = None /\ \E next \in {Wait(p)} \union Retries(p) : Goto(p, next)
    /\ UNCHANGED <<alive, disk, unlocking, made, outcome, judged, moved, unlocker>>

\* The driver sleeps and tries again, or its deadline has passed and it discards
\* its staging directory.
WaitOver(p) ==
    /\ At(p, "wait")
    /\ \/ Goto(p, IF staging[p] = "full" THEN "publish" ELSE "stage") /\ UNCHANGED staging
       \/ Goto(p, "done") /\ staging' = [staging EXCEPT ![p] = "none"]
    /\ UNCHANGED <<alive, lock, residue, guard, guardRec, notes>>

(***************************************************************************)
(* reclaimStale.                                                           *)
(***************************************************************************)
\* Mutant: an existing guard does not stop a second reclaimer.
GuardMkdirAnyway(p) ==
    /\ At(p, "guard") /\ made[p] < MaxGuards
    /\ made' = [made EXCEPT ![p] = @ + 1]
    /\ guard' = [by |-> p, n |-> made[p] + 1] /\ guardRec' = FALSE /\ Goto(p, "grec")
    /\ UNCHANGED <<alive, staging, lock, residue, unlocking, obs, judged, moved, unlocker>>
    /\ outcome' = [outcome EXCEPT ![p] = "retry"]

GuardMkdir(p) ==
    /\ At(p, "guard") /\ made[p] < MaxGuards
    /\ \/ /\ guard = None
          /\ guard' = [by |-> p, n |-> made[p] + 1] /\ guardRec' = FALSE
          /\ made' = [made EXCEPT ![p] = @ + 1]
          /\ Goto(p, "grec")
       \/ guard # None /\ Goto(p, Wait(p)) /\ UNCHANGED <<guard, guardRec, made>>
    /\ UNCHANGED <<alive, staging, lock, residue, unlocking, obs, judged, moved, unlocker>>
    /\ outcome' = [outcome EXCEPT ![p] = "retry"]

\* reclaimStale throws or returns early; the finally block comes next.
Result(p, result) ==
    /\ outcome' = [outcome EXCEPT ![p] = result]
    /\ UNCHANGED <<unlocking, made, obs, judged, moved, unlocker>>

\* The guard's owner record is written by path.
GuardRecord(p) ==
    /\ At(p, "grec")
    /\ guardRec' = (guard # None)
    /\ IF guard = None THEN Goto(p, "unrec") /\ Result(p, "error")
                       ELSE Goto(p, "gstat") /\ UNCHANGED notes
    /\ UNCHANGED <<alive, staging, lock, residue, guard>>

\* The lock is inspected again under the guard, in two reads as before.
GuardStat(p) ==
    /\ At(p, "gstat")
    /\ Goto(p, IF lock # None /\ lock = obs[p].dir THEN "gread" ELSE "unrec")
    /\ UNCHANGED <<alive, disk, notes>>

SameRecord(p) == lock # None /\ lock = obs[p].rec

GuardRead(p) ==
    /\ At(p, "gread")
    /\ Goto(p, IF SameRecord(p) THEN "classify" ELSE "unrec")
    /\ UNCHANGED <<alive, disk, notes>>

\* Its owner, obs[p].rec, is judged again.
GuardClassify(p) ==
    /\ At(p, "classify")
    /\ \E verdict \in Verdicts(obs[p].rec) :
          Goto(p, IF verdict = "stale" THEN "residue" ELSE "unrec")
    /\ UNCHANGED <<alive, disk, notes>>

\* Mutant: leftovers are not looked for.
LeftoversNever(p) == FALSE

Leftovers(p) == lock # None /\ residue[lock]

\* A lock with leftovers is kept and the command fails (an unlock reports it).
GuardResidue(p) ==
    /\ At(p, "residue")
    /\ IF lock = None \/ Leftovers(p) THEN Goto(p, "unrec") /\ Result(p, "error")
                                      ELSE Goto(p, "retire") /\ UNCHANGED notes
    /\ UNCHANGED <<alive, disk>>

\* retireLock moves whatever is at the lock's path now.
GuardRetire(p) ==
    /\ At(p, "retire")
    /\ lock' = None
    /\ Goto(p, "unrec")
    /\ Result(p, IF lock = None THEN "error" ELSE "reclaimed")
    /\ UNCHANGED <<alive, staging, residue, guard, guardRec>>

\* The finally block: the record, then the directory, both by path.
GuardUnlink(p) ==
    /\ At(p, "unrec")
    /\ guardRec' = FALSE
    /\ Goto(p, "unguard")
    /\ UNCHANGED <<alive, staging, lock, residue, guard, notes>>

\* Back in the driver: a failed command discards its staging directory.
GuardRmdir(p) ==
    /\ At(p, "unguard")
    /\ guard' = IF guardRec THEN guard ELSE None
    /\ \/ /\ outcome[p] = "reclaimed"
          /\ \E next \in Retries(p) : Goto(p, next)
          /\ UNCHANGED staging
       \/ outcome[p] = "retry" /\ Goto(p, Wait(p)) /\ UNCHANGED staging
       \/ /\ outcome[p] = "error" /\ Goto(p, "done")
          /\ staging' = [staging EXCEPT ![p] = "none"]
    /\ UNCHANGED <<alive, lock, residue, guardRec, notes>>

(***************************************************************************)
(* Holding and releasing.                                                  *)
(***************************************************************************)
\* The command keeps recovery state in the lock directory, or removes it.
Work(p) ==
    /\ At(p, "held")
    /\ residue' = [residue EXCEPT ![p] = ~@]
    /\ UNCHANGED <<pc, alive, staging, lock, guard, guardRec, notes>>

\* release: verifyAt, then the residue check; a handle that fails either stays
\* unreleased and the command ends with the error.
ReleaseVerify(p) ==
    /\ At(p, "held")
    /\ Goto(p, IF lock = p /\ ~residue[p] THEN "release" ELSE "done")
    /\ UNCHANGED <<alive, disk, notes>>

\* retireLock, by path.
Release(p) ==
    /\ At(p, "release")
    /\ lock' = None
    /\ Goto(p, "done")
    /\ UNCHANGED <<alive, staging, residue, guard, guardRec, notes>>

(***************************************************************************)
(* ploinky unlock.                                                         *)
(***************************************************************************)
\* Mutant: unlock commands are not serialised.
UnlockFreeAlways == TRUE

\* locks/unlock.lock is a lock of this same kind: free, or its holder is stale.
UnlockFree == unlocker \in Command => ~alive[unlocker]

TakeUnlockLock(p) ==
    /\ At(p, "new") /\ UnlockFree
    /\ unlocker' = p
    /\ unlocking' = [unlocking EXCEPT ![p] = TRUE]
    /\ Goto(p, "ustat")
    /\ UNCHANGED <<alive, disk, made, obs, outcome, judged, moved>>

ReleaseUnlockLock(p) ==
    /\ At(p, "done") /\ unlocker = p
    /\ unlocker' = None
    /\ UNCHANGED <<pc, alive, disk, unlocking, made, obs, outcome, judged, moved>>

\* judgeReclaimGuard: the directory, its record and the verdict, then both reads
\* again. Without a guard unlock goes on to the lock itself; a guard that cannot
\* be judged gone is kept and unlock ends.
JudgeStat(p) ==
    /\ At(p, "ustat")
    /\ judged' = [judged EXCEPT ![p] = [dir |-> guard, rec |-> None]]
    /\ Goto(p, IF guard = None THEN "stat" ELSE "uread")
    /\ UNCHANGED <<alive, disk, unlocking, made, obs, outcome, moved, unlocker>>

JudgeRead(p) ==
    /\ At(p, "uread")
    /\ judged' = [judged EXCEPT ![p].rec = guard]
    /\ \/ guard = None /\ Goto(p, "stat")
       \/ guard # None /\ ~guardRec /\ Goto(p, "done")
       \/ /\ guard # None /\ guardRec
          /\ \E verdict \in Verdicts(guard.by) :
                Goto(p, IF verdict = "stale" THEN "ure1" ELSE "done")
    /\ UNCHANGED <<alive, disk, unlocking, made, obs, outcome, moved, unlocker>>

RecheckStat(p) ==
    /\ At(p, "ure1")
    /\ Goto(p, IF guard = None THEN "stat" ELSE IF guard = judged[p].dir THEN "ure2" ELSE "done")
    /\ UNCHANGED <<alive, disk, notes>>

RecheckRead(p) ==
    /\ At(p, "ure2")
    /\ Goto(p, IF guard = None THEN "stat"
               ELSE IF guard = judged[p].rec /\ guardRec THEN "umove" ELSE "done")
    /\ UNCHANGED <<alive, disk, notes>>

\* retireJudgedDirectory: the move is by path, so what was moved is checked.
MoveAside(p) ==
    /\ At(p, "umove")
    /\ moved' = [moved EXCEPT ![p] = guard]
    /\ guard' = None /\ guardRec' = FALSE
    /\ Goto(p, IF guard = None THEN "stat" ELSE "uverify")
    /\ UNCHANGED <<alive, staging, lock, residue, unlocking, made, obs, outcome, judged, unlocker>>

IsJudged(p) == moved[p] = judged[p].dir /\ moved[p] = judged[p].rec

\* The judged guard is deleted; another one is put back when its name is free.
VerifyMoved(p) ==
    /\ At(p, "uverify")
    /\ IF IsJudged(p) \/ guard # None
       THEN UNCHANGED <<guard, guardRec>>
       ELSE guard' = moved[p] /\ guardRec' = TRUE
    /\ Goto(p, IF IsJudged(p) THEN "stat" ELSE "done")
    /\ UNCHANGED <<alive, staging, lock, residue, notes>>

\* The process ends: normally once it is done, by a crash or a kill before. What it
\* kept in memory goes with it.
End(p) ==
    /\ alive[p] /\ pc[p] # "new"
    /\ alive' = [alive EXCEPT ![p] = FALSE]
    /\ pc' = [pc EXCEPT ![p] = "done"]
    /\ obs' = [obs EXCEPT ![p] = Nothing] /\ judged' = [judged EXCEPT ![p] = Nothing]
    /\ moved' = [moved EXCEPT ![p] = None] /\ outcome' = [outcome EXCEPT ![p] = "retry"]
    /\ UNCHANGED <<disk, unlocking, made, unlocker>>

Next == \E p \in Command :
    \/ Start(p) \/ StageMkdir(p) \/ StageRecord(p) \/ Publish(p)
    \/ InspectStat(p) \/ InspectRead(p) \/ WaitOver(p)
    \/ GuardMkdir(p) \/ GuardRecord(p) \/ GuardStat(p) \/ GuardRead(p) \/ GuardClassify(p)
    \/ GuardResidue(p) \/ GuardRetire(p) \/ GuardUnlink(p) \/ GuardRmdir(p)
    \/ Work(p) \/ ReleaseVerify(p) \/ Release(p)
    \/ TakeUnlockLock(p) \/ ReleaseUnlockLock(p) \/ JudgeStat(p) \/ JudgeRead(p) \/ RecheckStat(p)
    \/ RecheckRead(p) \/ MoveAside(p) \/ VerifyMoved(p)
    \/ End(p)

Spec == Init /\ [][Next]_vars

(***************************************************************************)
(* Properties.                                                             *)
(***************************************************************************)
Holders == {p \in Command : alive[p] /\ pc[p] \in Holding}

\* The lock is a mutual exclusion lock, whatever commands crash, reclaim and
\* unlock at the same time (the comment of reclaimStale explains the race that
\* its guard prevents).
Lock == INSTANCE Mutex WITH holders <- Holders
MutualExclusion == Lock!Spec

\* A live holder's directory stays at the lock's path, so assertHeld and the
\* verifyAt of release never fail for it.
HandleValid == \A p \in Holders : lock = p

\* At most one live command is between mkdir and rmdir of the guard, even while
\* unlock removes the guards that crashed reclaimers left behind.
OneReclaimer ==
    \A p, q \in {c \in Command : alive[c] /\ pc[c] \in Guarding} : p = q

\* What unlock moves off the guard's path is what it judged: the window between
\* judging and moving, which retireJudgedDirectory checks for, is never hit.
JudgedIsMoved == \A p \in Command : At(p, "uverify") => IsJudged(p)

\* A staging directory with the record of a live command is never swept, so its
\* publish never finds the staging gone.
StagingSpared == \A p \in Command : At(p, "publish") => staging[p] = "full"

\* "It was left in place": a lock that holds more than its owner record is never
\* moved off its path, by its holder, a reclaimer or unlock.
ResidueKept == [][lock # None => (residue[lock] => lock' = lock)]_vars
=============================================================================

------------------------- MODULE WorkspaceLockProofs --------------------------
(***************************************************************************)
(* Theorems about WorkspaceLock, for every set of commands: the inductive  *)
(* invariant, the steps that preserve it, and what follows from it.        *)
(***************************************************************************)
EXTENDS WorkspaceLock, TLAPS

\* The pcs at which an acquiring command keeps its staged directory.
Staged == {"publish", "stat", "read", "guard"} \union Guarding

\* A live reclaimer owns the guard; a holder it judged is gone for good; and once
\* it has re-read the record under the guard, that record is the lock's.
ReclaimOK ==
    \A p \in Command : alive[p] =>
        /\ pc[p] \in Guarding => guard = [by |-> p, n |-> made[p]] /\ made[p] > 0
        /\ pc[p] \in Guarding \union {"guard"} =>
               obs[p].rec \in Command /\ ~alive[obs[p].rec]
        /\ pc[p] \in {"classify", "residue", "retire"} => lock = obs[p].rec
        /\ pc[p] = "retire" => ~residue[obs[p].rec]

\* A live unlock is the only one, and from its verdict on, the guard is the one it
\* judged, whose owner is gone.
UnlockOK ==
    \A p \in Command : alive[p] =>
        /\ pc[p] \in Unlocking => unlocker = p
        /\ pc[p] \in {"ure1", "ure2", "umove"} => guard = judged[p].rec
        /\ pc[p] \in {"ure1", "ure2", "umove", "uverify"} =>
               judged[p].rec \in Guard /\ ~alive[judged[p].rec.by]
        /\ pc[p] \in {"ure2", "umove", "uverify"} => judged[p].dir = judged[p].rec
        /\ pc[p] = "uverify" => moved[p] = judged[p].rec

\* An acquiring command keeps its staging directory while it may publish it.
StageOK ==
    \A p \in Command : alive[p] =>
        /\ pc[p] \in {"new", "stage", "record", "publish", "wait"} \union Holding => ~unlocking[p]
        /\ pc[p] \in Unlocking => unlocking[p]
        /\ ~unlocking[p] /\ pc[p] \in Staged => staging[p] = "full"

HoldOK ==
    \A p \in Command : alive[p] =>
        /\ pc[p] \in Holding => lock = p
        /\ pc[p] = "release" => ~residue[p]

LInv == TypeOK /\ ReclaimOK /\ UnlockOK /\ StageOK /\ HoldOK

\* The lock's path, the guard and all staging directories start absent.
LEMMA InitLInv == Init => LInv
<1> SUFFICES ASSUME Init PROVE LInv
  OBVIOUS
<1>1. TypeOK
  <2>1. /\ pc \in [Command -> PC] /\ unlocking \in [Command -> BOOLEAN]
        /\ alive \in [Command -> BOOLEAN] /\ residue \in [Command -> BOOLEAN]
        /\ staging \in [Command -> {"none", "empty", "full"}]
        /\ outcome \in [Command -> {"retry", "reclaimed", "error"}]
    BY DEF Init, PC
  <2>2. /\ made \in [Command -> 0..MaxGuards]
        /\ moved \in [Command -> Guard \union {None}]
    BY MaxGuardsAssumption DEF Init
  <2>3. /\ obs \in [Command -> [dir : Command \union {None}, rec : Command \union {None}]]
        /\ judged \in [Command -> [dir : Guard \union {None}, rec : Guard \union {None}]]
    BY DEF Init, Nothing
  <2> QED
    BY <2>1, <2>2, <2>3, Zenon DEF Init, TypeOK
<1>2. ReclaimOK /\ UnlockOK /\ StageOK /\ HoldOK
  BY DEF Init, ReclaimOK, UnlockOK, StageOK, HoldOK, Guarding, Unlocking, Holding, Staged
<1> QED
  BY <1>1, <1>2 DEF LInv

\* Steps of acquiring.
LEMMA StartKeeps ==
    ASSUME LInv, NEW p \in Command, Start(p)
    PROVE  LInv'
<1> USE DEF At, Goto, notes
<1>a. TypeOK /\ ReclaimOK /\ UnlockOK /\ StageOK /\ HoldOK
  BY DEF LInv
<1>1. TypeOK'
  BY <1>a DEF TypeOK, Start, PC
<1>2. ReclaimOK' /\ UnlockOK'
  BY <1>a DEF TypeOK, ReclaimOK, UnlockOK, Start, Guarding, Unlocking
<1>3. StageOK' /\ HoldOK'
  BY <1>a DEF TypeOK, StageOK, HoldOK, Start, Guarding, Unlocking, Staged, Holding, Debris,
     Verdicts
<1> QED
  BY <1>1, <1>2, <1>3 DEF LInv

\* The staging directory is created; it is not published yet.
LEMMA StageMkdirKeeps ==
    ASSUME LInv, NEW p \in Command, StageMkdir(p)
    PROVE  LInv'
<1> USE DEF At, Goto, notes
<1>a. TypeOK /\ ReclaimOK /\ UnlockOK /\ StageOK /\ HoldOK
  BY DEF LInv
<1>1. TypeOK'
  BY <1>a DEF TypeOK, StageMkdir, PC
<1>2. ReclaimOK' /\ UnlockOK'
  BY <1>a DEF TypeOK, ReclaimOK, UnlockOK, StageMkdir, Guarding, Unlocking
<1>3. StageOK' /\ HoldOK'
  BY <1>a DEF TypeOK, StageOK, HoldOK, StageMkdir, Guarding, Unlocking, Staged, Holding
<1> QED
  BY <1>1, <1>2, <1>3 DEF LInv

\* From its owner record on, the staging directory is full.
LEMMA StageRecordKeeps ==
    ASSUME LInv, NEW p \in Command, StageRecord(p)
    PROVE  LInv'
<1> USE DEF At, Goto, notes
<1>a. TypeOK /\ ReclaimOK /\ UnlockOK /\ StageOK /\ HoldOK
  BY DEF LInv
<1>1. TypeOK'
  BY <1>a, Zenon DEF TypeOK, StageRecord, PC
<1>2. ReclaimOK' /\ UnlockOK'
  BY <1>a DEF TypeOK, ReclaimOK, UnlockOK, StageRecord, Guarding, Unlocking
<1>3. StageOK' /\ HoldOK'
  BY <1>a DEF TypeOK, StageOK, HoldOK, StageRecord, Guarding, Unlocking, Staged, Holding
<1> QED
  BY <1>1, <1>2, <1>3 DEF LInv

\* rename publishes the staging directory only where no lock is.
LEMMA PublishKeeps ==
    ASSUME LInv, NEW p \in Command, Publish(p)
    PROVE  LInv'
<1> USE DEF At, Goto, notes
<1>a. TypeOK /\ ReclaimOK /\ UnlockOK /\ StageOK /\ HoldOK
  BY DEF LInv
<1>1. TypeOK'
  BY <1>a, Zenon DEF TypeOK, Publish, PC, Holding
<1>2. ReclaimOK' /\ UnlockOK'
  BY <1>a, NoneAssumption DEF TypeOK, ReclaimOK, UnlockOK, Publish, Guarding, Unlocking
<1>3. StageOK' /\ HoldOK'
  BY <1>a, NoneAssumption DEF TypeOK, StageOK, HoldOK, Publish, Guarding, Unlocking,
     Staged, Holding
<1> QED
  BY <1>1, <1>2, <1>3 DEF LInv

\* A wait ends in another attempt to publish, or gives up.
LEMMA WaitOverKeeps ==
    ASSUME LInv, NEW p \in Command, WaitOver(p)
    PROVE  LInv'
<1> USE DEF At, Goto, notes
<1>a. TypeOK /\ ReclaimOK /\ UnlockOK /\ StageOK /\ HoldOK
  BY DEF LInv
<1>1. TypeOK'
  BY <1>a, Zenon DEF TypeOK, WaitOver, PC
<1>2. ReclaimOK' /\ UnlockOK'
  BY <1>a DEF TypeOK, ReclaimOK, UnlockOK, WaitOver, Guarding, Unlocking
<1>3. StageOK' /\ HoldOK'
  BY <1>a DEF TypeOK, StageOK, HoldOK, WaitOver, Guarding, Unlocking, Staged, Holding
<1> QED
  BY <1>1, <1>2, <1>3 DEF LInv

\* Steps of inspectLockDirectory before the guard.
LEMMA InspectStatKeeps ==
    ASSUME LInv, NEW p \in Command, InspectStat(p)
    PROVE  LInv'
<1> USE NoneAssumption DEF At, Goto, disk, notes, Guarding, Unlocking, Holding
<1>a. TypeOK /\ ReclaimOK /\ UnlockOK /\ StageOK /\ HoldOK
  BY DEF LInv
<1>1. TypeOK'
  BY <1>a DEF TypeOK, PC, InspectStat, Retries
<1>2. ReclaimOK'
  BY <1>a DEF TypeOK, ReclaimOK, InspectStat, Retries
<1>3. UnlockOK'
  BY <1>a DEF TypeOK, UnlockOK, InspectStat, Retries
<1>4. StageOK' /\ HoldOK'
  BY <1>a DEF TypeOK, StageOK, HoldOK, Staged, InspectStat, Retries
<1> QED
  BY <1>1, <1>2, <1>3, <1>4 DEF LInv

\* Only a record whose owner is dead leads to the guard, and it stays dead.
LEMMA InspectReadKeeps ==
    ASSUME LInv, NEW p \in Command, InspectRead(p)
    PROVE  LInv'
<1> USE NoneAssumption DEF At, Goto, disk, notes, Guarding, Unlocking, Holding
<1>a. TypeOK /\ ReclaimOK /\ UnlockOK /\ StageOK /\ HoldOK
  BY DEF LInv
<1>1. TypeOK'
  <2>1. pc' \in [Command -> PC]
    BY <1>a DEF TypeOK, PC, InspectRead, Wait, Retries
  <2>2. obs' \in [Command -> [dir : Command \union {None}, rec : Command \union {None}]]
    <3> DEFINE seen == [obs[p] EXCEPT !.rec = lock]
    <3>1. obs' = [obs EXCEPT ![p] = seen]
      BY DEF InspectRead
    <3>2. seen \in [dir : Command \union {None}, rec : Command \union {None}]
      BY <1>a, SMTT(30) DEF TypeOK
    <3> HIDE DEF seen
    <3> QED
      BY <1>a, <3>1, <3>2 DEF TypeOK
  <2> QED
    BY <1>a, <2>1, SMTT(30) DEF TypeOK, InspectRead
<1>2. ReclaimOK'
  BY <1>a DEF TypeOK, ReclaimOK, InspectRead, Wait, Retries, Verdicts
<1>3. UnlockOK'
  BY <1>a DEF TypeOK, UnlockOK, InspectRead, Wait, Retries
<1>4. StageOK' /\ HoldOK'
  BY <1>a DEF TypeOK, StageOK, HoldOK, Staged, InspectRead, Wait, Retries
<1> QED
  BY <1>1, <1>2, <1>3, <1>4 DEF LInv

\* Steps of a holder, and the end of a process.
LEMMA WorkKeeps ==
    ASSUME LInv, NEW p \in Command, Work(p)
    PROVE  LInv'
<1> USE NoneAssumption DEF At, Goto, disk, notes, Guarding, Unlocking, Holding
<1>a. TypeOK /\ ReclaimOK /\ UnlockOK /\ StageOK /\ HoldOK
  BY DEF LInv
<1>1. TypeOK'
  BY <1>a DEF TypeOK, Work
<1>2. ReclaimOK'
  BY <1>a DEF TypeOK, ReclaimOK, Work
<1>3. UnlockOK'
  BY <1>a DEF TypeOK, UnlockOK, Work
<1>4. StageOK' /\ HoldOK'
  BY <1>a DEF TypeOK, StageOK, HoldOK, Work
<1> QED
  BY <1>1, <1>2, <1>3, <1>4 DEF LInv

\* A holder that verifies its own lock before releasing it still has it.
LEMMA ReleaseVerifyKeeps ==
    ASSUME LInv, NEW p \in Command, ReleaseVerify(p)
    PROVE  LInv'
<1> USE NoneAssumption DEF At, Goto, disk, notes, Guarding, Unlocking, Holding
<1>a. TypeOK /\ ReclaimOK /\ UnlockOK /\ StageOK /\ HoldOK
  BY DEF LInv
<1>1. TypeOK'
  BY <1>a DEF TypeOK, PC, ReleaseVerify
<1>2. ReclaimOK'
  BY <1>a DEF TypeOK, ReclaimOK, ReleaseVerify
<1>3. UnlockOK'
  BY <1>a DEF TypeOK, UnlockOK, ReleaseVerify
<1>4. StageOK' /\ HoldOK'
  BY <1>a DEF TypeOK, StageOK, HoldOK, Staged, ReleaseVerify
<1> QED
  BY <1>1, <1>2, <1>3, <1>4 DEF LInv

\* A release empties the lock's path, which no other live command holds.
LEMMA ReleaseKeeps ==
    ASSUME LInv, NEW p \in Command, Release(p)
    PROVE  LInv'
<1> USE NoneAssumption DEF At, Goto, disk, notes, Guarding, Unlocking, Holding
<1>a. TypeOK /\ ReclaimOK /\ UnlockOK /\ StageOK /\ HoldOK
  BY DEF LInv
<1>1. TypeOK'
  BY <1>a DEF TypeOK, PC, Release
<1>2. ReclaimOK'
  BY <1>a DEF TypeOK, ReclaimOK, HoldOK, Release
<1>3. UnlockOK'
  BY <1>a DEF TypeOK, UnlockOK, Release
<1>4. StageOK' /\ HoldOK'
  BY <1>a DEF TypeOK, StageOK, HoldOK, Staged, Release
<1> QED
  BY <1>1, <1>2, <1>3, <1>4 DEF LInv

\* A command may end at any step; what others judged of dead owners stays true.
LEMMA EndKeeps ==
    ASSUME LInv, NEW p \in Command, End(p)
    PROVE  LInv'
<1> USE NoneAssumption DEF At, Goto, disk, notes, Guarding, Unlocking, Holding
<1>a. TypeOK /\ ReclaimOK /\ UnlockOK /\ StageOK /\ HoldOK
  BY DEF LInv
<1>0. /\ ~alive'[p]
      /\ \A q \in Command : alive'[q] =>
            /\ alive[q] /\ pc'[q] = pc[q] /\ obs'[q] = obs[q]
            /\ judged'[q] = judged[q] /\ moved'[q] = moved[q]
      /\ \A q \in Command : ~alive[q] => ~alive'[q]
      /\ UNCHANGED <<staging, lock, residue, guard, guardRec, unlocking, made, unlocker>>
  BY <1>a DEF TypeOK, End
<1>1. TypeOK'
  BY <1>a DEF TypeOK, PC, Nothing, End
<1>2. ReclaimOK'
  BY <1>a, <1>0 DEF TypeOK, ReclaimOK
<1>3. UnlockOK'
  BY <1>a, <1>0 DEF TypeOK, UnlockOK, Guard
<1>4. StageOK' /\ HoldOK'
  BY <1>a, <1>0 DEF TypeOK, StageOK, HoldOK
<1> QED
  BY <1>1, <1>2, <1>3, <1>4 DEF LInv

\* Steps of unlock.
LEMMA TakeUnlockLockKeeps ==
    ASSUME LInv, NEW p \in Command, TakeUnlockLock(p)
    PROVE  LInv'
<1> USE NoneAssumption DEF At, Goto, disk, notes, Guarding, Unlocking, Holding
<1>a. TypeOK /\ ReclaimOK /\ UnlockOK /\ StageOK /\ HoldOK
  BY DEF LInv
<1>1. TypeOK'
  BY <1>a DEF TypeOK, PC, TakeUnlockLock
<1>2. ReclaimOK'
  BY <1>a DEF TypeOK, ReclaimOK, TakeUnlockLock
<1>3. UnlockOK'
  BY <1>a DEF TypeOK, UnlockOK, TakeUnlockLock, UnlockFree
<1>4. StageOK' /\ HoldOK'
  BY <1>a DEF TypeOK, StageOK, HoldOK, TakeUnlockLock
<1> QED
  BY <1>1, <1>2, <1>3, <1>4 DEF LInv

\* unlock gives up its own lock after its last step on the guard.
LEMMA ReleaseUnlockLockKeeps ==
    ASSUME LInv, NEW p \in Command, ReleaseUnlockLock(p)
    PROVE  LInv'
<1> USE NoneAssumption DEF At, Goto, disk, notes, Guarding, Unlocking, Holding
<1>a. TypeOK /\ ReclaimOK /\ UnlockOK /\ StageOK /\ HoldOK
  BY DEF LInv
<1>1. TypeOK'
  BY <1>a DEF TypeOK, ReleaseUnlockLock
<1>2. ReclaimOK'
  BY <1>a DEF TypeOK, ReclaimOK, ReleaseUnlockLock
<1>3. UnlockOK'
  BY <1>a DEF TypeOK, UnlockOK, ReleaseUnlockLock
<1>4. StageOK' /\ HoldOK'
  BY <1>a DEF TypeOK, StageOK, HoldOK, ReleaseUnlockLock
<1> QED
  BY <1>1, <1>2, <1>3, <1>4 DEF LInv

\* unlock notes which guard is at the path.
LEMMA JudgeStatKeeps ==
    ASSUME LInv, NEW p \in Command, JudgeStat(p)
    PROVE  LInv'
<1> USE NoneAssumption DEF At, Goto, disk, notes, Guarding, Unlocking, Holding
<1>a. TypeOK /\ ReclaimOK /\ UnlockOK /\ StageOK /\ HoldOK
  BY DEF LInv
<1>1. TypeOK'
  BY <1>a DEF TypeOK, PC, JudgeStat
<1>2. ReclaimOK'
  BY <1>a DEF TypeOK, ReclaimOK, JudgeStat
<1>3. UnlockOK'
  BY <1>a DEF TypeOK, UnlockOK, JudgeStat
<1>4. StageOK' /\ HoldOK'
  BY <1>a DEF TypeOK, StageOK, HoldOK, JudgeStat
<1> QED
  BY <1>1, <1>2, <1>3, <1>4 DEF LInv

\* unlock goes on only if the guard's owner is dead, so the guard stays.
LEMMA JudgeReadKeeps ==
    ASSUME LInv, NEW p \in Command, JudgeRead(p)
    PROVE  LInv'
<1> USE NoneAssumption DEF At, Goto, disk, notes, Guarding, Unlocking, Holding
<1>a. TypeOK /\ ReclaimOK /\ UnlockOK /\ StageOK /\ HoldOK
  BY DEF LInv
<1>1. TypeOK'
  <2>1. judged' \in [Command -> [dir : Guard \union {None}, rec : Guard \union {None}]]
    BY <1>a, SMTT(30) DEF TypeOK, JudgeRead
  <2> QED
    BY <1>a, <2>1, SMTT(30) DEF TypeOK, PC, JudgeRead
<1>2. ReclaimOK'
  BY <1>a DEF TypeOK, ReclaimOK, JudgeRead
<1>3. UnlockOK'
  BY <1>a DEF TypeOK, UnlockOK, JudgeRead, Verdicts
<1>4. StageOK' /\ HoldOK'
  BY <1>a, SMTT(30) DEF TypeOK, StageOK, HoldOK, JudgeRead
<1> QED
  BY <1>1, <1>2, <1>3, <1>4 DEF LInv

\* The guard found again is the one that was judged.
LEMMA RecheckStatKeeps ==
    ASSUME LInv, NEW p \in Command, RecheckStat(p)
    PROVE  LInv'
<1> USE NoneAssumption DEF At, Goto, disk, notes, Guarding, Unlocking, Holding
<1>a. TypeOK /\ ReclaimOK /\ UnlockOK /\ StageOK /\ HoldOK
  BY DEF LInv
<1>1. TypeOK'
  BY <1>a DEF TypeOK, PC, RecheckStat
<1>2. ReclaimOK'
  <2>1. PICK next \in {"stat", "ure2", "umove", "done"} : pc' = [pc EXCEPT ![p] = next]
    BY Zenon DEF RecheckStat
  <2>2. UNCHANGED <<alive, guard, made, obs, lock, residue>>
    BY DEF RecheckStat
  <2> QED
    BY <1>a, <2>1, <2>2 DEF TypeOK, ReclaimOK
<1>3. UnlockOK'
  BY <1>a DEF TypeOK, UnlockOK, RecheckStat
<1>4. StageOK' /\ HoldOK'
  BY <1>a DEF TypeOK, StageOK, HoldOK, RecheckStat
<1> QED
  BY <1>1, <1>2, <1>3, <1>4 DEF LInv

\* Its record is that of the judged owner.
LEMMA RecheckReadKeeps ==
    ASSUME LInv, NEW p \in Command, RecheckRead(p)
    PROVE  LInv'
<1> USE NoneAssumption DEF At, Goto, disk, notes, Guarding, Unlocking, Holding
<1>a. TypeOK /\ ReclaimOK /\ UnlockOK /\ StageOK /\ HoldOK
  BY DEF LInv
<1>1. TypeOK'
  BY <1>a DEF TypeOK, PC, RecheckRead
<1>2. ReclaimOK'
  <2>1. PICK next \in {"stat", "ure2", "umove", "done"} : pc' = [pc EXCEPT ![p] = next]
    BY Zenon DEF RecheckRead
  <2>2. UNCHANGED <<alive, guard, made, obs, lock, residue>>
    BY DEF RecheckRead
  <2> QED
    BY <1>a, <2>1, <2>2 DEF TypeOK, ReclaimOK
<1>3. UnlockOK'
  BY <1>a DEF TypeOK, UnlockOK, RecheckRead
<1>4. StageOK' /\ HoldOK'
  BY <1>a DEF TypeOK, StageOK, HoldOK, RecheckRead
<1> QED
  BY <1>1, <1>2, <1>3, <1>4 DEF LInv

\* What is moved from the guard's path is the judged guard.
LEMMA MoveAsideKeeps ==
    ASSUME LInv, NEW p \in Command, MoveAside(p)
    PROVE  LInv'
<1> USE NoneAssumption DEF At, Goto, disk, notes, Guarding, Unlocking, Holding
<1>a. TypeOK /\ ReclaimOK /\ UnlockOK /\ StageOK /\ HoldOK
  BY DEF LInv
<1>1. TypeOK'
  BY <1>a, Zenon DEF TypeOK, PC, MoveAside
<1>2. ReclaimOK'
  <2>1. /\ guard \in Guard /\ ~alive[guard.by] /\ pc[p] = "umove"
        /\ pc' = [pc EXCEPT ![p] = "uverify"]
        /\ UNCHANGED <<alive, made, obs, lock, residue>>
    <3>1. guard \in Guard /\ ~alive[guard.by] /\ pc[p] = "umove"
      BY <1>a DEF TypeOK, UnlockOK, MoveAside
    <3>2. guard # None
      BY <3>1 DEF Guard
    <3> QED
      BY <3>1, <3>2 DEF MoveAside
  <2>2. \A q \in Command : alive[q] => pc[q] \notin Guarding
    BY <1>a, SMTT(30), <2>1 DEF TypeOK, ReclaimOK
  <2> QED
    BY <1>a, <2>1 DEF TypeOK, ReclaimOK
<1>3. UnlockOK'
  BY <1>a DEF TypeOK, UnlockOK, MoveAside
<1>4. StageOK' /\ HoldOK'
  BY <1>a DEF TypeOK, StageOK, HoldOK, MoveAside
<1> QED
  BY <1>1, <1>2, <1>3, <1>4 DEF LInv

\* The moved directory is the judged one, so nothing is put back.
LEMMA VerifyMovedKeeps ==
    ASSUME LInv, NEW p \in Command, VerifyMoved(p)
    PROVE  LInv'
<1> USE NoneAssumption DEF At, Goto, disk, notes, Guarding, Unlocking, Holding
<1>a. TypeOK /\ ReclaimOK /\ UnlockOK /\ StageOK /\ HoldOK
  BY DEF LInv
<1>1. TypeOK'
  BY <1>a, Zenon DEF TypeOK, PC, VerifyMoved
<1>2. ReclaimOK'
  BY <1>a DEF TypeOK, ReclaimOK, UnlockOK, VerifyMoved, IsJudged
<1>3. UnlockOK'
  BY <1>a DEF TypeOK, UnlockOK, VerifyMoved
<1>4. StageOK' /\ HoldOK'
  BY <1>a DEF TypeOK, StageOK, HoldOK, VerifyMoved
<1> QED
  BY <1>1, <1>2, <1>3, <1>4 DEF LInv

-----------------------------------------------------------------------------
(* Reclaiming, and the theorems *)

\* Steps of reclaimStale under its guard.
LEMMA GuardMkdirKeeps ==
    ASSUME LInv, NEW p \in Command, GuardMkdir(p)
    PROVE  LInv'
<1> USE NoneAssumption DEF At, Goto, disk, notes, Guarding, Unlocking, Holding
<1>a. TypeOK /\ ReclaimOK /\ UnlockOK /\ StageOK /\ HoldOK
  BY DEF LInv
<1>0. alive[p] /\ pc[p] = "guard" /\ made[p] \in Nat /\ made[p] < MaxGuards
  BY <1>a DEF TypeOK, GuardMkdir
<1>1. CASE guard = None
  <2> DEFINE new == [by |-> p, n |-> made[p] + 1]
  <2>1. /\ pc' = [pc EXCEPT ![p] = "grec"] /\ guard' = new /\ guardRec' = FALSE
        /\ made' = [made EXCEPT ![p] = made[p] + 1]
        /\ outcome' = [outcome EXCEPT ![p] = "retry"]
        /\ UNCHANGED <<alive, staging, lock, residue, unlocking, obs, judged, moved, unlocker>>
    BY <1>1 DEF GuardMkdir
  <2>2. made[p] + 1 \in 1..MaxGuards /\ made[p] + 1 \in 0..MaxGuards /\ made[p] + 1 > 0
    BY <1>0, MaxGuardsAssumption
  <2>3. new \in Guard /\ made' \in [Command -> 0..MaxGuards]
    BY <1>a, <2>1, <2>2 DEF TypeOK, Guard
  <2>4. TypeOK'
    BY <1>a, Zenon, <2>1, <2>3 DEF TypeOK, PC
  <2>5. \A q \in Command : alive[q] => pc[q] \notin Guarding
    <3> SUFFICES ASSUME NEW q \in Command, alive[q], pc[q] \in Guarding PROVE FALSE
      OBVIOUS
    <3>1. guard = [by |-> q, n |-> made[q]] /\ made[q] > 0 /\ made[q] \in 0..MaxGuards
      BY <1>a DEF TypeOK, ReclaimOK
    <3>2. made[q] \in 1..MaxGuards
      BY <3>1, MaxGuardsAssumption
    <3>3. guard \in [by : Command, n : 1..MaxGuards]
      BY <3>1, <3>2
    <3> QED
      BY <1>1, <3>3
  <2>6. ReclaimOK'
    <3>1. guard' = [by |-> p, n |-> made'[p]] /\ made'[p] > 0
      BY <1>a, <2>1, <2>2 DEF TypeOK
    <3> QED
      BY <1>a, <1>0, <2>1, <2>5, <3>1 DEF TypeOK, ReclaimOK
  <2>7. UnlockOK'
    <3>1. \A q \in Command : alive[q] => pc[q] \notin {"ure1", "ure2", "umove"}
      BY <1>a, <1>1 DEF TypeOK, UnlockOK, Guard
    <3> QED
      BY <1>a, <2>1, <3>1 DEF TypeOK, UnlockOK
  <2>8. StageOK' /\ HoldOK'
    BY <1>a, <1>0, <2>1 DEF TypeOK, StageOK, HoldOK, Staged
  <2> QED
    BY <2>4, <2>6, <2>7, <2>8 DEF LInv
<1>2. CASE guard # None
  <2>1. /\ pc' = [pc EXCEPT ![p] = Wait(p)] /\ Wait(p) \in {"wait", "done"}
        /\ outcome' = [outcome EXCEPT ![p] = "retry"]
        /\ UNCHANGED <<guard, guardRec, made, alive, staging, lock, residue, unlocking, obs,
                       judged, moved, unlocker>>
    BY <1>2 DEF GuardMkdir, Wait
  <2>2. TypeOK'
    BY <1>a, <2>1 DEF TypeOK, PC
  <2>3. \A q \in Command : pc'[q] = pc[q] \/ pc'[q] \in {"wait", "done"}
    BY <1>a, <2>1 DEF TypeOK
  <2>4. ReclaimOK'
    BY <1>a, <2>1, <2>3 DEF TypeOK, ReclaimOK, Guarding
  <2>5. UnlockOK'
    BY <1>a, <2>1, <2>3 DEF TypeOK, UnlockOK, Unlocking
  <2>6. StageOK' /\ HoldOK'
    BY <1>a, <2>1 DEF TypeOK, StageOK, HoldOK, Staged, Wait
  <2> QED
    BY <2>2, <2>4, <2>5, <2>6 DEF LInv
<1> QED
  BY <1>1, <1>2

\* The reclaimer writes its record into the guard it created.
LEMMA GuardRecordKeeps ==
    ASSUME LInv, NEW p \in Command, GuardRecord(p)
    PROVE  LInv'
<1> USE NoneAssumption DEF At, Goto, disk, notes, Guarding, Unlocking, Holding
<1>a. TypeOK /\ ReclaimOK /\ UnlockOK /\ StageOK /\ HoldOK
  BY DEF LInv
<1>1. TypeOK'
  BY <1>a, SMTT(30) DEF TypeOK, PC, Guard, GuardRecord, Result
<1>2. ReclaimOK'
  BY <1>a DEF TypeOK, ReclaimOK, GuardRecord
<1>3. UnlockOK'
  BY <1>a DEF TypeOK, UnlockOK, GuardRecord, Result
<1>4. StageOK' /\ HoldOK'
  BY <1>a DEF TypeOK, StageOK, HoldOK, Staged, GuardRecord, Result
<1> QED
  BY <1>1, <1>2, <1>3, <1>4 DEF LInv

\* Under the guard the lock's directory is looked up again.
LEMMA GuardStatKeeps ==
    ASSUME LInv, NEW p \in Command, GuardStat(p)
    PROVE  LInv'
<1> USE NoneAssumption DEF At, Goto, disk, notes, Guarding, Unlocking, Holding
<1>a. TypeOK /\ ReclaimOK /\ UnlockOK /\ StageOK /\ HoldOK
  BY DEF LInv
<1>1. TypeOK'
  BY <1>a DEF TypeOK, PC, GuardStat
<1>2. ReclaimOK'
  BY <1>a DEF TypeOK, ReclaimOK, GuardStat
<1>3. UnlockOK'
  BY <1>a DEF TypeOK, UnlockOK, GuardStat
<1>4. StageOK' /\ HoldOK'
  BY <1>a DEF TypeOK, StageOK, HoldOK, Staged, GuardStat
<1> QED
  BY <1>1, <1>2, <1>3, <1>4 DEF LInv

\* Only the same record as before leads on to its classification.
LEMMA GuardReadKeeps ==
    ASSUME LInv, NEW p \in Command, GuardRead(p)
    PROVE  LInv'
<1> USE NoneAssumption DEF At, Goto, disk, notes, Guarding, Unlocking, Holding
<1>a. TypeOK /\ ReclaimOK /\ UnlockOK /\ StageOK /\ HoldOK
  BY DEF LInv
<1>1. TypeOK'
  BY <1>a DEF TypeOK, PC, GuardRead
<1>2. ReclaimOK'
  BY <1>a DEF TypeOK, ReclaimOK, GuardRead, SameRecord
<1>3. UnlockOK'
  BY <1>a DEF TypeOK, UnlockOK, GuardRead
<1>4. StageOK' /\ HoldOK'
  BY <1>a DEF TypeOK, StageOK, HoldOK, Staged, GuardRead
<1> QED
  BY <1>1, <1>2, <1>3, <1>4 DEF LInv

\* The owner is judged again under the guard; it was dead before.
LEMMA GuardClassifyKeeps ==
    ASSUME LInv, NEW p \in Command, GuardClassify(p)
    PROVE  LInv'
<1> USE NoneAssumption DEF At, Goto, disk, notes, Guarding, Unlocking, Holding
<1>a. TypeOK /\ ReclaimOK /\ UnlockOK /\ StageOK /\ HoldOK
  BY DEF LInv
<1>1. TypeOK'
  BY <1>a DEF TypeOK, PC, GuardClassify
<1>2. ReclaimOK'
  BY <1>a DEF TypeOK, ReclaimOK, GuardClassify
<1>3. UnlockOK'
  BY <1>a DEF TypeOK, UnlockOK, GuardClassify
<1>4. StageOK' /\ HoldOK'
  BY <1>a DEF TypeOK, StageOK, HoldOK, Staged, GuardClassify
<1> QED
  BY <1>1, <1>2, <1>3, <1>4 DEF LInv

\* A lock that holds more than its record is not retired.
LEMMA GuardResidueKeeps ==
    ASSUME LInv, NEW p \in Command, GuardResidue(p)
    PROVE  LInv'
<1> USE NoneAssumption DEF At, Goto, disk, notes, Guarding, Unlocking, Holding
<1>a. TypeOK /\ ReclaimOK /\ UnlockOK /\ StageOK /\ HoldOK
  BY DEF LInv
<1>1. TypeOK'
  BY <1>a, ZenonT(30) DEF TypeOK, PC, GuardResidue, Result, Leftovers
<1>2. ReclaimOK'
  BY <1>a DEF TypeOK, ReclaimOK, GuardResidue, Result, Leftovers
<1>3. UnlockOK'
  <2>1. /\ \A q \in Command : pc'[q] = pc[q] \/ pc'[q] \in {"unrec", "retire"}
        /\ UNCHANGED <<alive, guard, judged, moved, unlocker>>
    BY <1>a DEF TypeOK, GuardResidue, Result
  <2> QED
    BY <1>a, <2>1 DEF UnlockOK
<1>4. StageOK' /\ HoldOK'
  BY <1>a DEF TypeOK, StageOK, HoldOK, Staged, GuardResidue, Result
<1> QED
  BY <1>1, <1>2, <1>3, <1>4 DEF LInv

\* The retired lock is the judged one, of a dead owner.
LEMMA GuardRetireKeeps ==
    ASSUME LInv, NEW p \in Command, GuardRetire(p)
    PROVE  LInv'
<1> USE NoneAssumption DEF At, Goto, disk, notes, Guarding, Unlocking, Holding
<1>a. TypeOK /\ ReclaimOK /\ UnlockOK /\ StageOK /\ HoldOK
  BY DEF LInv
<1>1. TypeOK'
  BY <1>a DEF TypeOK, PC, GuardRetire, Result
<1>2. ReclaimOK'
  BY <1>a DEF TypeOK, ReclaimOK, GuardRetire, Result
<1>3. UnlockOK'
  BY <1>a DEF TypeOK, UnlockOK, GuardRetire, Result
<1>4. StageOK' /\ HoldOK'
  BY <1>a DEF TypeOK, StageOK, HoldOK, ReclaimOK, Staged, GuardRetire, Result
<1> QED
  BY <1>1, <1>2, <1>3, <1>4 DEF LInv

\* The record of the guard is removed before its directory.
LEMMA GuardUnlinkKeeps ==
    ASSUME LInv, NEW p \in Command, GuardUnlink(p)
    PROVE  LInv'
<1> USE NoneAssumption DEF At, Goto, disk, notes, Guarding, Unlocking, Holding
<1>a. TypeOK /\ ReclaimOK /\ UnlockOK /\ StageOK /\ HoldOK
  BY DEF LInv
<1>1. TypeOK'
  BY <1>a, Zenon DEF TypeOK, PC, GuardUnlink
<1>2. ReclaimOK'
  BY <1>a DEF TypeOK, ReclaimOK, GuardUnlink
<1>3. UnlockOK'
  BY <1>a DEF TypeOK, UnlockOK, GuardUnlink
<1>4. StageOK' /\ HoldOK'
  BY <1>a DEF TypeOK, StageOK, HoldOK, Staged, GuardUnlink
<1> QED
  BY <1>1, <1>2, <1>3, <1>4 DEF LInv

\* Only the reclaimer's own guard is removed.
LEMMA GuardRmdirKeeps ==
    ASSUME LInv, NEW p \in Command, GuardRmdir(p)
    PROVE  LInv'
<1> USE NoneAssumption DEF At, Goto, disk, notes, Guarding, Unlocking, Holding
<1>a. TypeOK /\ ReclaimOK /\ UnlockOK /\ StageOK /\ HoldOK
  BY DEF LInv
<1>1. TypeOK'
  <2>1. \E next \in {"wait", "done", "publish"} : pc' = [pc EXCEPT ![p] = next]
    BY ZenonT(30) DEF GuardRmdir, Retries, Wait
  <2>2. pc' \in [Command -> PC]
    BY <1>a, <2>1 DEF TypeOK, PC
  <2>3. /\ guard' \in Guard \union {None}
        /\ staging' \in [Command -> {"none", "empty", "full"}]
    BY <1>a DEF TypeOK, GuardRmdir
  <2> QED
    BY <1>a, <2>2, <2>3, SMTT(30) DEF TypeOK, GuardRmdir
<1>2. ReclaimOK'
  BY <1>a DEF TypeOK, ReclaimOK, GuardRmdir, Retries, Wait
<1>3. UnlockOK'
  BY <1>a DEF TypeOK, ReclaimOK, UnlockOK, GuardRmdir, Retries, Wait
<1>4. StageOK' /\ HoldOK'
  BY <1>a DEF TypeOK, StageOK, HoldOK, Staged, GuardRmdir, Retries, Wait
<1> QED
  BY <1>1, <1>2, <1>3, <1>4 DEF LInv

\* Every step of every command keeps the invariant.
LEMMA NextLInv ==
    ASSUME LInv, [Next]_vars
    PROVE  LInv'
<1>1. CASE UNCHANGED vars
  BY <1>1 DEF LInv, TypeOK, ReclaimOK, UnlockOK, StageOK, HoldOK, vars
<1>2. CASE Next
  BY <1>2, StartKeeps, StageMkdirKeeps, StageRecordKeeps, PublishKeeps, WaitOverKeeps,
     InspectStatKeeps, InspectReadKeeps, WorkKeeps, ReleaseVerifyKeeps, ReleaseKeeps, EndKeeps,
     TakeUnlockLockKeeps, ReleaseUnlockLockKeeps, JudgeStatKeeps, JudgeReadKeeps,
     RecheckStatKeeps, RecheckReadKeeps, MoveAsideKeeps, VerifyMovedKeeps, GuardMkdirKeeps,
     GuardRecordKeeps, GuardStatKeeps, GuardReadKeeps, GuardClassifyKeeps, GuardResidueKeeps,
     GuardRetireKeeps, GuardUnlinkKeeps, GuardRmdirKeeps DEF Next
<1> QED
  BY <1>1, <1>2

(***************************************************************************)
(* The theorems.                                                           *)
(***************************************************************************)
\* The inductive invariant holds for every number of commands.
THEOREM LockInvariant == Spec => []LInv
  BY InitLInv, NextLInv, PTL DEF Spec

\* Every variable keeps its type.
THEOREM LockTypes == Spec => []TypeOK
<1>1. LInv => TypeOK
  BY DEF LInv
<1> QED
  BY <1>1, LockInvariant, PTL

\* A live holder's directory stays at the lock's path.
THEOREM HandlesValid == Spec => []HandleValid
<1>1. LInv => HandleValid
  BY DEF LInv, TypeOK, HoldOK, HandleValid, Holders
<1> QED
  BY <1>1, LockInvariant, PTL

\* The guard admits one live reclaimer at a time, also while unlock removes guards.
THEOREM ReclaimersExclude == Spec => []OneReclaimer
<1>1. LInv => OneReclaimer
  BY DEF LInv, TypeOK, ReclaimOK, OneReclaimer
<1> QED
  BY <1>1, LockInvariant, PTL

\* unlock removes only the guard it judged.
THEOREM UnlockExact == Spec => []JudgedIsMoved
<1>1. LInv => JudgedIsMoved
  BY DEF LInv, TypeOK, UnlockOK, JudgedIsMoved, IsJudged, At
<1> QED
  BY <1>1, LockInvariant, PTL

\* The sweep spares the staging directory of every live command.
THEOREM SweepSafe == Spec => []StagingSpared
<1>1. LInv => StagingSpared
  BY DEF LInv, TypeOK, StageOK, StagingSpared, At, Staged
<1> QED
  BY <1>1, LockInvariant, PTL

\* A lock with leftovers stays where it is.
THEOREM ResidueStays == Spec => ResidueKept
<1>1. ASSUME LInv, [Next]_vars, lock # None, residue[lock]
      PROVE  lock' = lock
  <2>1. ASSUME NEW p \in Command, GuardRetire(p) \/ Release(p) \/ Publish(p) PROVE lock' = lock
    BY <1>1, <2>1 DEF LInv, TypeOK, ReclaimOK, HoldOK, GuardRetire, Release, Publish, At,
       Holding
  <2>2. ASSUME NEW p \in Command,
               \/ Start(p) \/ StageMkdir(p) \/ StageRecord(p) \/ InspectStat(p)
               \/ InspectRead(p) \/ WaitOver(p) \/ GuardMkdir(p) \/ GuardRecord(p)
               \/ GuardStat(p) \/ GuardRead(p) \/ GuardClassify(p) \/ GuardResidue(p)
               \/ GuardUnlink(p) \/ GuardRmdir(p)
        PROVE  lock' = lock
    BY <2>2 DEF Start, StageMkdir, StageRecord, InspectStat, InspectRead, WaitOver, GuardMkdir,
           GuardRecord, GuardStat, GuardRead, GuardClassify, GuardResidue, GuardUnlink,
           GuardRmdir, disk
  <2>3. ASSUME NEW p \in Command,
               \/ Work(p) \/ ReleaseVerify(p) \/ TakeUnlockLock(p) \/ ReleaseUnlockLock(p)
               \/ JudgeStat(p) \/ JudgeRead(p) \/ RecheckStat(p) \/ RecheckRead(p)
               \/ MoveAside(p) \/ VerifyMoved(p) \/ End(p)
        PROVE  lock' = lock
    BY <2>3 DEF Work, ReleaseVerify, TakeUnlockLock, ReleaseUnlockLock, JudgeStat, JudgeRead,
           RecheckStat, RecheckRead, MoveAside, VerifyMoved, End, disk
  <2> QED
    BY <1>1, <2>1, <2>2, <2>3 DEF Next, vars
<1>2. LInv /\ [Next]_vars => [lock # None => (residue[lock] => lock' = lock)]_vars
  BY <1>1
<1> QED
  BY <1>2, LockInvariant, PTL DEF Spec, ResidueKept

\* The protocol implements a mutual exclusion lock: the initial states map to an
\* unheld lock and every step to an acquisition, a release or a stutter.
THEOREM Refinement == Spec => MutualExclusion
<1>1. Init => Lock!Init
  BY DEF Init, Lock!Init, Holders, Holding
<1>2. ASSUME LInv, [Next]_vars
      PROVE  [Lock!Next]_Holders
  <2>0. pc \in [Command -> PC] /\ alive \in [Command -> BOOLEAN] /\ HandleValid
    BY <1>2 DEF LInv, TypeOK, HoldOK, HandleValid, Holders
  <2>1. ASSUME NEW p \in Command, Publish(p) PROVE [Lock!Next]_Holders
    <3>1. CASE lock = None /\ pc' = [pc EXCEPT ![p] = "held"]
      <4>1. Holders = {}
        BY <2>0, <3>1, NoneAssumption DEF HandleValid, Holders
      <4>2. Holders' = {p}
        BY <2>0, <2>1, <3>1, <4>1 DEF Publish, At, Holders, Holding
      <4> QED
        BY <4>1, <4>2 DEF Lock!Next, Lock!Acquire
    <3>2. CASE \E next \in {"wait", "stat"} : pc' = [pc EXCEPT ![p] = next]
      <4>1. Holders' = Holders
        BY <2>0, <2>1, <3>2 DEF Publish, At, Holders, Holding
      <4> QED
        BY <4>1
    <3> QED
      BY <2>1, <3>1, <3>2 DEF Publish, Goto
  <2>2. ASSUME NEW p \in Command, Release(p) \/ ReleaseVerify(p) \/ End(p)
        PROVE  [Lock!Next]_Holders
    <3>1. CASE p \in Holders
      <4>1. Holders = {p}
        BY <2>0, <3>1 DEF HandleValid
      <4>2. Holders' = {p} \/ Holders' = {}
        BY <2>0, <2>2, <4>1 DEF Release, ReleaseVerify, End, Goto, Holders
      <4> QED
        BY <4>1, <4>2 DEF Lock!Next, Lock!GiveUp
    <3>2. CASE p \notin Holders
      <4>1. Holders' = Holders
        BY <2>0, <2>2, <3>2 DEF Release, ReleaseVerify, End, At, Holders, Holding
      <4> QED
        BY <4>1
    <3> QED
      BY <3>1, <3>2
  <2>3. ASSUME NEW p \in Command, NEW next \in PC \ Holding,
               pc[p] \notin Holding, pc' = [pc EXCEPT ![p] = next], alive' = alive
        PROVE  Holders' = Holders
    BY <2>0, <2>3 DEF Holders
  <2>4. ASSUME NEW p \in Command,
               \/ Start(p) \/ StageMkdir(p) \/ StageRecord(p) \/ InspectStat(p)
               \/ InspectRead(p) \/ WaitOver(p)
        PROVE  Holders' = Holders
    <3>1. /\ pc[p] \notin Holding /\ alive' = alive
          /\ \E next \in PC \ Holding : pc' = [pc EXCEPT ![p] = next]
      BY <2>4 DEF Start, StageMkdir, StageRecord, InspectStat, InspectRead, WaitOver, At, Goto,
             Wait, Retries, PC, Holding
    <3> QED
      BY Zenon, <2>3, <3>1
  <2>5. ASSUME NEW p \in Command,
               \/ GuardMkdir(p) \/ GuardRecord(p) \/ GuardStat(p) \/ GuardRead(p)
               \/ GuardClassify(p) \/ GuardResidue(p) \/ GuardRetire(p)
               \/ GuardUnlink(p) \/ GuardRmdir(p)
        PROVE  Holders' = Holders
    <3>1. /\ pc[p] \notin Holding /\ alive' = alive
          /\ \E next \in PC \ Holding : pc' = [pc EXCEPT ![p] = next]
      BY <2>5 DEF GuardMkdir, GuardRecord, GuardStat, GuardRead, GuardClassify, GuardResidue,
             GuardRetire, GuardUnlink, GuardRmdir, At, Goto, Wait, Retries, PC, Guarding, Holding
    <3> QED
      BY Zenon, <2>3, <3>1
  <2>6. ASSUME NEW p \in Command,
               \/ TakeUnlockLock(p) \/ JudgeStat(p) \/ JudgeRead(p) \/ RecheckStat(p)
               \/ RecheckRead(p) \/ MoveAside(p) \/ VerifyMoved(p)
        PROVE  Holders' = Holders
    <3>1. /\ pc[p] \notin Holding /\ alive' = alive
          /\ \E next \in PC \ Holding : pc' = [pc EXCEPT ![p] = next]
      BY <2>6 DEF TakeUnlockLock, JudgeStat, JudgeRead, RecheckStat, RecheckRead, MoveAside,
             VerifyMoved, At, Goto, PC, Unlocking, Holding
    <3> QED
      BY Zenon, <2>3, <3>1
  <2>7. ASSUME NEW p \in Command, Work(p) \/ ReleaseUnlockLock(p)
        PROVE  Holders' = Holders
    BY <2>7 DEF Work, ReleaseUnlockLock, Holders
  <2>8. CASE UNCHANGED vars
    BY <2>8 DEF vars, Holders
  <2> QED
    BY <1>2, <2>1, <2>2, <2>4, <2>5, <2>6, <2>7, <2>8 DEF Next
<1> QED
  BY <1>1, <1>2, LockInvariant, PTL DEF Spec, MutualExclusion, Lock!Spec
===============================================================================

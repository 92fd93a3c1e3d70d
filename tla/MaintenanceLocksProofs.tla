------------------------- MODULE MaintenanceLocksProofs -------------------------
(***************************************************************************)
(* The properties of MaintenanceLocks, proved for every set of operations, *)
(* monitors and worker threads and every number of Boxes.                  *)
(*                                                                         *)
(* The argument: an operation creates one file in its life, so a file that *)
(* has left the path never returns, and a process that has died stays dead. *)
(* What a process concluded from a snapshot is therefore still true when it *)
(* unlinks, unless another process unlinked in between, which is raced.    *)
(***************************************************************************)
EXTENDS MaintenanceLocks, FiniteSetTheorems, TLAPS

Inspecting == {"lstat", "read", "judge", "relstat", "reread", "unlink"}
Removing == {"relstat", "reread", "unlink"}

\* p has not created its file yet and may still do so.
Fresh(p) ==
    pc[p] \in {"idle", "exists", "wait", "create"} \/ (pc[p] \in Inspecting /\ why[p] # "release")

\* What holds of every file that was seen at the path.
Known(f) ==
    /\ ~Fresh(f.owner)
    /\ f.box # box => pc[f.owner] = "dead"
    /\ kind = "maintenance" /\ f.body # "empty" => pc[f.owner] # "write"

\* What holds of a snapshot that was judged stale.
Stale(s) ==
    /\ \/ pc[s[2].owner] = "dead"
       \/ /\ kind = "maintenance" /\ s[2].body = "empty"
          /\ s[1].owner = s[2].owner => pc[s[2].owner] # "write"
    /\ kind = "lease" => s[2].owner \notin Supervised

\* A file that was replaced between lstat and readFile is not at the path.
Replaced(s) == s[1].owner # s[2].owner => file = None \/ file.owner # s[1].owner

\* What the snapshot of q says, from its first call to the unlink.
SnapInv(q) ==
    /\ seen[q] # None => Known(seen[q])
    /\ pc[q] = "read" => seen[q] # None
    /\ snap[q] = NoSnapshot \/ (snap[q][1] # None /\ snap[q][2] # None)
    /\ snap[q] # NoSnapshot => Known(snap[q][1]) /\ Known(snap[q][2]) /\ Replaced(snap[q])
    /\ pc[q] \in {"judge"} \union Removing => snap[q] # NoSnapshot
    /\ pc[q] \in Removing /\ why[q] # "release" => Stale(snap[q])
    /\ pc[q] \in Removing /\ why[q] = "release" /\ kind = "lease" => snap[q][2].body # "recover"
    /\ pc[q] \in {"reread", "unlink"} => snap[q][1].owner = snap[q][2].owner
    /\ pc[q] = "unlink" =>
          /\ IF why[q] = "release" THEN snap[q][2].owner = q ELSE pc[snap[q][2].owner] = "dead"
          /\ raced \/ (file # None /\ file.owner = snap[q][2].owner)

FileInv ==
    file # None =>
        /\ Known(file)
        /\ file.body = "recover" => file.owner \in Supervised
        /\ kind = "maintenance" /\ file.body = "empty" => pc[file.owner] \in {"write", "dead"}

\* Whoever may be changing the workspace has its file at the path.
HoldInv ==
    /\ \A p \in Op : raced \/ (pc[p] \in {"write", "hold"} \/ p \in orphans
                                  => file # None /\ file.owner = p)
    /\ \A p \in orphans : kind = "lease" /\ p \in Supervised /\ pc[p] \in {"gone", "dead"}

SupInv ==
    \A p \in Op :
        /\ sup[p] # "off" => kind = "lease" /\ p \in Supervised
        /\ sup[p] \in {"recheck", "retrunc", "rewrite", "end"} => pc[p] \in {"gone", "done", "dead"}
        /\ sup[p] = "end" /\ file # None /\ file.owner = p => file.body # "lock"

LockInv == LockTypeOK /\ (\A q \in Op : SnapInv(q)) /\ FileInv /\ HoldInv /\ SupInv

-----------------------------------------------------------------------------
(* Types *)

LocalType ==
    /\ pc \in [Op -> {"idle", "lstat", "read", "judge", "relstat", "reread", "unlink", "exists",
                      "wait", "create", "write", "hold", "done", "gone", "dead"}]
    /\ why \in [Op -> Reason]
    /\ seen \in [Op -> File \union {None}]
    /\ snap \in [Op -> (File \union {None}) \X (File \union {None})]
    /\ tries \in [Op -> 0..2]

GlobalType ==
    /\ kind \in {"lease", "maintenance"} /\ file \in File \union {None}
    /\ sup \in [Op -> {"off", "check", "trunc", "write", "term", "recheck", "retrunc",
                       "rewrite", "end"}]
    /\ box \in 1..MaxBox /\ orphans \subseteq Supervised /\ raced \in BOOLEAN

\* The type invariant is that of the operations' own state and that of the rest.
LEMMA TypeParts == LockTypeOK <=> LocalType /\ GlobalType
BY DEF LockTypeOK, LocalType, GlobalType

\* Only p moves.
Only(p) ==
    \A q \in Op \ {p} :
        pc'[q] = pc[q] /\ why'[q] = why[q] /\ seen'[q] = seen[q] /\ snap'[q] = snap[q]

\* Goto keeps the types and the other operations (the steps of maintenanceLocks.js).
LEMMA GotoFacts ==
    ASSUME LocalType, NEW p \in Op, NEW w \in Reason,
           NEW l \in {"idle", "lstat", "relstat", "reread", "unlink", "exists", "wait", "create",
                      "write", "hold", "done"},
           Goto(p, l, w)
    PROVE  /\ LocalType' /\ Only(p)
           /\ pc'[p] = l /\ why'[p] = w /\ seen'[p] = None
           /\ snap'[p] = IF l \in Removing THEN snap[p] ELSE NoSnapshot
<1>1. pc'[p] = l /\ why'[p] = w /\ seen'[p] = None
      /\ snap'[p] = IF l \in Removing THEN snap[p] ELSE NoSnapshot
  BY DEF Goto, LocalType, Removing
<1>2. Only(p)
  BY DEF Goto, LocalType, Only
<1>3. pc' \in [Op -> {"idle", "lstat", "read", "judge", "relstat", "reread", "unlink", "exists",
                      "wait", "create", "write", "hold", "done", "gone", "dead"}]
      /\ why' \in [Op -> Reason] /\ seen' \in [Op -> File \union {None}]
  BY DEF Goto, LocalType
<1>4. NoSnapshot \in (File \union {None}) \X (File \union {None})
  BY DEF NoSnapshot
<1>5. snap' \in [Op -> (File \union {None}) \X (File \union {None})]
  BY <1>4 DEF Goto, LocalType
<1>6. tries' \in [Op -> 0..2]
  BY DEF Goto, LocalType
<1>7. QED
  BY <1>1, <1>2, <1>3, <1>5, <1>6 DEF LocalType

-----------------------------------------------------------------------------
(* The results of an inspection *)

\* The inspection of p is over or starts again, and p has no snapshot.
Over(p) ==
    /\ LocalType' /\ Only(p)
    /\ pc'[p] \in {"create", "lstat", "exists", "idle", "done", "wait"}
    /\ seen'[p] = None /\ snap'[p] = NoSnapshot
    /\ why[p] = "release" => pc'[p] = "done"

\* An inspection that found the path free ends it (inspectWorkspaceStartLock).
LEMMA InactiveOver == ASSUME LocalType, NEW p \in Op, Inactive(p) PROVE Over(p)
<1>1. why[p] \in Reason
  BY DEF LocalType
<1>2. PICK l \in {"create", "lstat", "exists", "idle", "done"}, w \in Reason :
         Goto(p, l, w) /\ (why[p] = "release" => l = "done")
  BY <1>1, Zenon DEF Inactive, Reason
<1>3. QED
  BY <1>2, GotoFacts DEF Over, Removing

\* An inspection that left the file ends it (inspectWorkspaceStartLock).
LEMMA ActiveOver ==
    ASSUME LocalType, NEW p \in Op, NEW r \in BOOLEAN, Active(p, r) PROVE Over(p)
<1>1. why[p] \in Reason
  BY DEF LocalType
<1>2. PICK l \in {"lstat", "idle", "done", "wait"}, w \in Reason :
         Goto(p, l, w) /\ (why[p] = "release" => l = "done")
  BY <1>1, Zenon DEF Active, Reason
<1>3. QED
  BY <1>2, GotoFacts DEF Over, Removing

\* A removal that failed ends or restarts the inspection (removeSnapshot).
LEMMA NotRemovedOver == ASSUME LocalType, NEW p \in Op, NotRemoved(p) PROVE Over(p)
<1>1. CASE why[p] # "release" /\ tries[p] < 2
  <2>1. pc' = [pc EXCEPT ![p] = "lstat"] /\ tries' = [tries EXCEPT ![p] = @ + 1] /\ why' = why
        /\ seen' = [seen EXCEPT ![p] = None] /\ snap' = [snap EXCEPT ![p] = NoSnapshot]
    BY <1>1 DEF NotRemoved
  <2>2. NoSnapshot \in (File \union {None}) \X (File \union {None})
    BY DEF NoSnapshot
  <2>3. tries[p] + 1 \in 0..2
    BY <1>1 DEF LocalType
  <2>4. LocalType'
    BY <2>1, <2>2, <2>3 DEF LocalType
  <2>5. QED
    BY <1>1, <2>1, <2>4 DEF LocalType, Over, Only
<1>2. CASE ~(why[p] # "release" /\ tries[p] < 2)
  BY <1>2, ActiveOver, Zenon DEF NotRemoved
<1>3. QED
  BY <1>1, <1>2

-----------------------------------------------------------------------------
(* What never becomes false again *)

\* Who has created, died or finished writing stays so.
Grow ==
    \A q \in Op :
        /\ ~Fresh(q) => ~Fresh(q)'
        /\ pc[q] = "dead" => pc'[q] = "dead"
        /\ ~Fresh(q) /\ pc[q] # "write" => pc'[q] # "write"

\* What is known of a file stays true while the Box runs.
LEMMA KnownKept ==
    ASSUME Grow, kind' = kind, box' = box, NEW f \in File, Known(f)
    PROVE  Known(f)'
<1>1. f.owner \in Op
  BY DEF File
<1>2. QED
  BY <1>1 DEF Grow, Known

\* A stale snapshot stays stale.
LEMMA StaleKept ==
    ASSUME Grow, kind' = kind, NEW s \in File \X File, Known(s[2]), Stale(s)
    PROVE  Stale(s)'
<1>1. s[2].owner \in Op
  BY DEF File
<1>2. QED
  BY <1>1 DEF Grow, Known, Stale

\* What a step of p may do to the file at the path.
FileStep(p) ==
    \/ file' = file
    \/ file # None /\ file' # None /\ file'.owner = file.owner
    \/ file = None /\ file' # None /\ Fresh(file'.owner)
    \/ file' = None /\ (raced' \/ \A r \in Op \ {p} : pc[r] # "unlink")

\* A step of p leaves what the snapshots of the others say: in particular, a
\* file that was compared is still at the path, or raced records otherwise.
LEMMA OthersKept ==
    ASSUME LockTypeOK, NEW p \in Op, NEW q \in Op \ {p}, SnapInv(q), Grow, Only(p), FileStep(p),
           kind' = kind, box' = box, raced => raced'
    PROVE  SnapInv(q)'
<1>1. /\ pc'[q] = pc[q] /\ why'[q] = why[q] /\ seen'[q] = seen[q] /\ snap'[q] = snap[q]
      /\ seen[q] \in File \union {None}
      /\ snap[q] \in (File \union {None}) \X (File \union {None})
  BY DEF Only, LockTypeOK
<1>2. seen'[q] # None => Known(seen[q])'
  BY <1>1, KnownKept DEF SnapInv
<1>3. ASSUME snap[q] # NoSnapshot
      PROVE  snap[q] \in File \X File
  BY <1>1, <1>3 DEF SnapInv
<1>4. ASSUME snap[q] # NoSnapshot
      PROVE  Known(snap[q][1])' /\ Known(snap[q][2])'
  BY <1>1, <1>3, <1>4, KnownKept DEF SnapInv
<1>5. ASSUME snap[q] # NoSnapshot
      PROVE  Replaced(snap[q])'
  <2>1. Replaced(snap[q]) /\ ~Fresh(snap[q][1].owner)
    BY <1>5 DEF SnapInv, Known
  <2>2. QED
    BY <1>1, <2>1 DEF Replaced, FileStep
<1>6. ASSUME pc[q] \in Removing, why[q] # "release"
      PROVE  Stale(snap[q])'
  <2>1. snap[q] # NoSnapshot /\ Stale(snap[q])
    BY <1>6 DEF SnapInv
  <2>2. Known(snap[q][2])
    BY <2>1 DEF SnapInv
  <2>3. QED
    BY <1>1, <1>3, <2>1, <2>2, StaleKept
<1>7. ASSUME pc[q] = "unlink"
      PROVE  /\ IF why[q] = "release" THEN snap[q][2].owner = q ELSE pc'[snap[q][2].owner] = "dead"
             /\ raced' \/ (file' # None /\ file'.owner = snap[q][2].owner)
  <2>1. snap[q] # NoSnapshot
    BY <1>7 DEF SnapInv, Removing
  <2>2. snap[q][2].owner \in Op
    BY <1>3, <2>1 DEF File
  <2>3. QED
    BY <1>7, <2>2 DEF SnapInv, Grow, FileStep
<1>8. QED
  BY <1>1, <1>2, <1>4, <1>5, <1>6, <1>7 DEF SnapInv

-----------------------------------------------------------------------------
(* Steps that change nothing but the state of one operation *)

\* p moves before it creates or after it held, and stays short of the critical
\* section.
Moves(p) ==
    /\ LocalType' /\ Only(p) /\ UNCHANGED <<kind, file, sup, box, orphans, raced>>
    /\ pc[p] \notin {"write", "done", "gone", "dead"}
    /\ pc'[p] \notin {"write", "hold", "gone", "dead"}
    /\ Fresh(p)' => Fresh(p)

\* Such a step makes nothing false that was known.
LEMMA MovesGrow == ASSUME LockTypeOK, NEW p \in Op, Moves(p) PROVE Grow
BY DEF Moves, Only, Grow, Fresh

\* Such a step keeps the invariant if it keeps what the snapshot of p says.
LEMMA MovesKeep ==
    ASSUME LockInv, NEW p \in Op, Moves(p), SnapInv(p)'
    PROVE  LockInv'
<1>a. LockTypeOK /\ (\A q \in Op : SnapInv(q)) /\ FileInv /\ HoldInv /\ SupInv
  BY DEF LockInv
<1>1. LockTypeOK'
  BY <1>a, TypeParts DEF Moves, LockTypeOK, LocalType
<1>2. Grow
  BY MovesGrow DEF LockInv
<1>3. ASSUME NEW q \in Op PROVE SnapInv(q)'
  <2>1. CASE q = p
    BY <2>1
  <2>2. CASE q # p
    BY <1>a, <1>2, <2>2, OthersKept DEF Moves, FileStep
  <2>3. QED
    BY <2>1, <2>2
<1>4. FileInv'
  <2>1. SUFFICES ASSUME file # None PROVE FileInv'
    BY DEF FileInv, Moves
  <2>2. file \in File /\ file.owner \in Op /\ file' = file
    BY <1>a, <2>1 DEF LockTypeOK, File, Moves
  <2>3. Known(file)'
    BY <1>a, <1>2, <2>1, <2>2, KnownKept DEF FileInv, Moves
  <2>4. kind = "maintenance" /\ file.body = "empty" => pc'[file.owner] \in {"write", "dead"}
    BY <1>a, <2>1, <2>2 DEF FileInv, Moves, Only
  <2>5. QED
    BY <1>a, <2>1, <2>2, <2>3, <2>4 DEF FileInv, Moves
<1>5. HoldInv'
  <2>1. \A q \in Op : raced' \/ (pc'[q] \in {"write", "hold"} \/ q \in orphans'
                                   => file' # None /\ file'.owner = q)
    BY <1>a DEF HoldInv, Moves, Only
  <2>2. \A q \in orphans' : kind' = "lease" /\ q \in Supervised /\ pc'[q] \in {"gone", "dead"}
    BY <1>a, LockAssumption DEF HoldInv, Moves, Only
  <2>3. QED
    BY <2>1, <2>2 DEF HoldInv
<1>6. SupInv'
  BY <1>a DEF SupInv, Moves, Only
<1>7. QED
  BY <1>1, <1>3, <1>4, <1>5, <1>6 DEF LockInv

\* The end of an inspection keeps the invariant (inspectWorkspaceStartLock).
LEMMA OverKeeps ==
    ASSUME LockInv, NEW p \in Op, Over(p), pc[p] \in Inspecting,
           UNCHANGED <<kind, file, sup, box, orphans, raced>>
    PROVE  LockInv'
<1>1. Moves(p)
  BY DEF Over, Moves, Inspecting, Fresh
<1>2. SnapInv(p)'
  BY DEF Over, SnapInv, Removing
<1>3. QED
  BY <1>1, <1>2, MovesKeep

\* A step to a call that needs no snapshot keeps the invariant.
LEMMA GotoKeeps ==
    ASSUME LockInv, NEW p \in Op, NEW w \in Reason,
           NEW l \in {"idle", "lstat", "exists", "wait", "create", "done"},
           Goto(p, l, w), UNCHANGED <<kind, file, sup, box, orphans, raced>>,
           pc[p] \notin {"write", "done", "gone", "dead"},
           Fresh(p) \/ l = "done" \/ (l = "lstat" /\ w = "release")
    PROVE  LockInv'
<1>1. LocalType
  BY TypeParts DEF LockInv
<1>2. /\ LocalType' /\ Only(p)
      /\ pc'[p] = l /\ why'[p] = w /\ seen'[p] = None /\ snap'[p] = NoSnapshot
  BY <1>1, GotoFacts DEF Removing
<1>3. Moves(p)
  BY <1>2 DEF Moves, Fresh, Inspecting
<1>4. SnapInv(p)'
  BY <1>2 DEF SnapInv, Removing
<1>5. QED
  BY <1>3, <1>4, MovesKeep

\* Begin, Exists, Retry, TimedOut and Release keep the invariant: waiting for
\* the lock and starting to release it (acquireWorkspaceMutationLease).
LEMMA WaitingKeeps ==
    ASSUME LockInv, NEW p \in Op,
           Begin(p) \/ Exists(p) \/ Retry(p) \/ TimedOut(p) \/ Release(p)
    PROVE  LockInv'
<1>1. CASE Begin(p)
  <2>1. PICK w \in Reason : Goto(p, "lstat", w)
    BY <1>1 DEF Begin, Reason
  <2>2. QED
    BY <1>1, <2>1, GotoKeeps DEF Begin, FileKept, Unmoved, Fresh
<1>2. CASE Exists(p)
  <2>1. PICK l \in {"lstat", "wait"}, w \in Reason : Goto(p, l, w)
    BY <1>2 DEF Exists, Reason
  <2>2. QED
    BY <1>2, <2>1, GotoKeeps DEF Exists, FileKept, Unmoved, Fresh
<1>3. CASE Retry(p)
  BY <1>3, GotoKeeps DEF Retry, FileKept, Unmoved, Fresh, Reason
<1>4. CASE TimedOut(p)
  BY <1>4, GotoKeeps DEF TimedOut, FileKept, Unmoved, Fresh, Reason
<1>5. CASE Release(p)
  BY <1>5, GotoKeeps DEF Release, FileKept, Unmoved, Reason
<1>6. QED
  BY <1>1, <1>2, <1>3, <1>4, <1>5

\* lstat: the file that was seen is known (lockSnapshot).
LEMMA LstatKeeps == ASSUME LockInv, NEW p \in Op, Lstat(p) PROVE LockInv'
<1>a. LockTypeOK /\ (\A q \in Op : SnapInv(q)) /\ FileInv /\ HoldInv /\ SupInv
  BY DEF LockInv
<1>1. LocalType /\ LockTypeOK
  BY TypeParts DEF LockInv
<1>2. UNCHANGED <<kind, file, sup, box, orphans, raced>> /\ pc[p] = "lstat"
  BY DEF Lstat, FileKept, Unmoved
<1>3. CASE file = None
  BY <1>1, <1>2, <1>3, InactiveOver, OverKeeps DEF Lstat, Inspecting
<1>4. CASE file # None
  <2>1. /\ pc' = [pc EXCEPT ![p] = "read"] /\ seen' = [seen EXCEPT ![p] = file]
        /\ UNCHANGED <<why, snap, tries>>
    BY <1>4 DEF Lstat
  <2>2. LocalType' /\ Only(p)
    BY <1>1, <2>1 DEF LocalType, Only, LockTypeOK
  <2>3. Moves(p)
    BY <1>1, <1>2, <2>1, <2>2 DEF Moves, Fresh, Inspecting, LocalType
  <2>4. Grow
    BY <1>1, <2>3, MovesGrow
  <2>5. SnapInv(p)'
    <3>1. pc'[p] = "read" /\ seen'[p] = file /\ snap'[p] = snap[p] /\ file \in File
      BY <1>1, <1>4, <2>1 DEF LocalType, LockTypeOK
    <3>2. Known(file)'
      BY <1>a, <1>2, <1>4, <2>4, <3>1, KnownKept DEF FileInv
    <3>3. ASSUME snap[p] # NoSnapshot
          PROVE  Known(snap[p][1])' /\ Known(snap[p][2])' /\ Replaced(snap[p])'
      <4>1. snap[p] \in File \X File
        BY <1>a, <1>1, <3>3 DEF SnapInv, LocalType
      <4>2. Known(snap[p][1])' /\ Known(snap[p][2])'
        BY <1>a, <1>2, <2>1, <2>4, <3>3, <4>1, KnownKept DEF SnapInv
      <4>3. Replaced(snap[p])'
        BY <1>a, <1>2, <2>1, <3>3, Zenon DEF SnapInv, Replaced
      <4>4. QED
        BY <4>2, <4>3
    <3>4. QED
      BY <1>a, <1>2, <2>1, <3>1, <3>2, <3>3, <1>4, Zenon DEF SnapInv, Removing
  <2>6. QED
    BY <2>3, <2>5, MovesKeep
<1>5. QED
  BY <1>3, <1>4

\* readFile: two files in one snapshot mean that the first has left the path
\* for good (lockSnapshot).
LEMMA ReadKeeps == ASSUME LockInv, NEW p \in Op, Read(p) PROVE LockInv'
<1>a. LockTypeOK /\ (\A q \in Op : SnapInv(q)) /\ FileInv /\ HoldInv /\ SupInv
  BY DEF LockInv
<1>1. LocalType /\ LockTypeOK
  BY TypeParts DEF LockInv
<1>2. UNCHANGED <<kind, file, sup, box, orphans, raced>> /\ pc[p] = "read"
  BY DEF Read, FileKept, Unmoved
<1>3. CASE file = None
  BY <1>1, <1>2, <1>3, InactiveOver, OverKeeps DEF Read, Inspecting
<1>4. CASE file # None
  <2>1. /\ pc' = [pc EXCEPT ![p] = "judge"] /\ seen' = [seen EXCEPT ![p] = None]
        /\ snap' = [snap EXCEPT ![p] = <<seen[p], file>>] /\ UNCHANGED <<why, tries>>
    BY <1>4 DEF Read
  <2>2. seen[p] \in File /\ file \in File /\ Known(seen[p]) /\ Known(file)
    BY <1>a, <1>1, <1>2, <1>4, Zenon DEF SnapInv, FileInv, LockTypeOK
  <2>3. LocalType' /\ Only(p)
    BY <1>1, <2>1, <2>2 DEF LocalType, Only
  <2>4. Moves(p)
    BY <1>1, <1>2, <2>1, <2>3, Zenon DEF Moves, Fresh, Inspecting, LocalType
  <2>5. Grow
    BY <1>1, <2>4, MovesGrow
  <2>6. SnapInv(p)'
    <3>1. pc'[p] = "judge" /\ seen'[p] = None /\ snap'[p] = <<seen[p], file>>
      BY <1>1, <2>1 DEF LocalType
    <3>2. snap'[p][1] = seen[p] /\ snap'[p][2] = file
      BY <3>1
    <3>3. Known(snap[p][1])' /\ Known(snap[p][2])'
      BY <1>2, <2>2, <2>5, <3>2, KnownKept
    <3>4. Replaced(snap[p])'
      BY <1>2, <3>2 DEF Replaced
    <3>5. snap'[p][1] # None /\ snap'[p][2] # None
      BY <1>a, <1>2, <1>4, <3>2 DEF SnapInv
    <3>6. snap'[p] # NoSnapshot
      BY <3>5 DEF NoSnapshot
    <3>7. QED
      BY <3>1, <3>3, <3>4, <3>5, <3>6 DEF SnapInv, Removing
  <2>7. QED
    BY <2>4, <2>6, MovesKeep
<1>5. QED
  BY <1>3, <1>4

-----------------------------------------------------------------------------
(* Judging and removing a file *)

\* The snapshot of p justifies its step to the call l of a removal.
Justified(p, l) ==
    /\ why[p] # "release" => Stale(snap[p])
    /\ why[p] = "release" /\ kind = "lease" => snap[p][2].body # "recover"
    /\ l \in {"reread", "unlink"} => snap[p][1].owner = snap[p][2].owner
    /\ l = "unlink" =>
          /\ IF why[p] = "release" THEN snap[p][2].owner = p ELSE pc[snap[p][2].owner] = "dead"
          /\ file # None /\ file.owner = snap[p][2].owner

\* A step from one call to the next of a removal keeps the invariant if the
\* snapshot justifies the next call.
LEMMA RemovingKeeps ==
    ASSUME LockInv, NEW p \in Op, NEW l \in Removing, pc[p] \in {"judge", "relstat", "reread"},
           Goto(p, l, why[p]), UNCHANGED <<kind, file, sup, box, orphans, raced>>,
           Justified(p, l)
    PROVE  LockInv'
<1>a. LockTypeOK /\ (\A q \in Op : SnapInv(q)) /\ FileInv /\ HoldInv /\ SupInv
  BY DEF LockInv
<1>1. LocalType /\ LockTypeOK /\ why[p] \in Reason
  BY <1>a, TypeParts DEF LocalType
<1>2. /\ LocalType' /\ Only(p)
      /\ pc'[p] = l /\ why'[p] = why[p] /\ seen'[p] = None /\ snap'[p] = snap[p]
  BY <1>1, GotoFacts DEF Removing
<1>3. Moves(p)
  BY <1>2 DEF Moves, Fresh, Inspecting, Removing
<1>4. Grow
  BY <1>1, <1>3, MovesGrow
<1>5. snap[p] # NoSnapshot /\ snap[p] \in File \X File
  BY <1>a, <1>1 DEF SnapInv, Removing, LocalType
<1>6. Known(snap[p][1])' /\ Known(snap[p][2])' /\ Replaced(snap[p])'
  <2>1. Known(snap[p][1]) /\ Known(snap[p][2]) /\ Replaced(snap[p])
    BY <1>a, <1>5 DEF SnapInv
  <2>2. snap[p][1] \in File /\ snap[p][2] \in File
    BY <1>5
  <2>3. Known(snap[p][1])' /\ Known(snap[p][2])'
    BY <1>2, <1>4, <2>1, <2>2, KnownKept
  <2>4. Replaced(snap[p])'
    BY <1>2, <2>1 DEF Replaced
  <2>5. QED
    BY <2>3, <2>4
<1>7. why[p] # "release" => Stale(snap[p])'
  <2>1. Known(snap[p][2])
    BY <1>a, <1>5, Zenon DEF SnapInv
  <2>2. why[p] # "release" => Stale(snap[p])
    BY DEF Justified
  <2>3. QED
    BY <1>2, <1>4, <1>5, <2>1, <2>2, StaleKept
<1>8. l = "unlink" =>
         /\ IF why[p] = "release" THEN snap[p][2].owner = p ELSE pc'[snap[p][2].owner] = "dead"
         /\ file' # None /\ file'.owner = snap[p][2].owner
  <2>1. snap[p][2].owner \in Op
    BY <1>5 DEF File
  <2>2. QED
    BY <1>4, <2>1 DEF Grow, Justified
<1>9. SnapInv(p)'
  <2>1. l \in {"reread", "unlink"} => snap[p][1].owner = snap[p][2].owner
    BY Zenon DEF Justified
  <2>2. snap[p][1] # None /\ snap[p][2] # None
    BY <1>a, <1>5 DEF SnapInv
  <2>3. why[p] = "release" /\ kind = "lease" => snap[p][2].body # "recover"
    BY Zenon DEF Justified
  <2>4. kind' = kind
    OBVIOUS
  <2>5. QED
    BY <1>2, <1>5, <1>6, <1>7, <1>8, <2>1, <2>2, <2>3, <2>4, Zenon DEF SnapInv, Removing
<1>10. QED
  BY <1>3, <1>9, MovesKeep

\* The verdict "stale" is right: the owner is dead, or the file was empty and
\* its owner past writing it (inspectWorkspaceStartLock, inspectMaintenanceLock).
LEMMA VerdictStale ==
    ASSUME LockInv, NEW p \in Op, pc[p] = "judge", "stale" \in Verdicts(snap[p])
    PROVE  Stale(snap[p])
<1>a. LockTypeOK /\ (\A q \in Op : SnapInv(q)) /\ FileInv /\ HoldInv /\ SupInv
  BY DEF LockInv
<1>1. LockTypeOK
  BY DEF LockInv
<1>2. snap[p] # NoSnapshot /\ snap[p] \in File \X File
  BY <1>a, <1>1, Zenon DEF SnapInv, LockTypeOK
<1>3. DEFINE s == snap[p]
<1>4. s[1] \in File /\ s[2] \in File /\ Known(s[1]) /\ Known(s[2])
  BY <1>a, <1>2 DEF SnapInv
<1>5. s[1].owner \in Op /\ s[2].owner \in Op
  BY <1>4 DEF File
<1>6. CASE s[2].body = "empty"
  <2>1. kind = "maintenance" /\ FALSE \in Young(s[1])
    BY <1>1, <1>6, Zenon DEF Verdicts, LockTypeOK, Young
  <2>2. ~(BeingWritten(s[1]) /\ s[1].body = "empty")
    BY <2>1, Zenon DEF Young
  <2>3. ASSUME s[1].owner = s[2].owner PROVE pc[s[2].owner] # "write"
    BY <1>4, <2>1, <2>2, <2>3, Zenon DEF BeingWritten, Known
  <2>4. QED
    BY <1>6, <2>1, <2>3 DEF Stale
<1>7. CASE s[2].body # "empty"
  <2>1. PICK a \in OwnerActive(s[2]) :
           "stale" = IF kind = "lease" THEN LeaseVerdict(s[2], a) ELSE IF a THEN "busy" ELSE "stale"
    BY <1>7 DEF Verdicts
  <2>2. ~a /\ (kind = "lease" => s[2].owner \notin Supervised)
    BY <2>1 DEF LeaseVerdict
  <2>3. pc[s[2].owner] = "dead"
    BY <1>4, <2>1, <2>2, Zenon DEF OwnerActive, Running, Known, Fresh
  <2>4. QED
    BY <2>2, <2>3 DEF Stale
<1>8. QED
  BY <1>6, <1>7

\* Judging a snapshot keeps the invariant (inspectWorkspaceStartLock).
LEMMA JudgeKeeps == ASSUME LockInv, NEW p \in Op, Judge(p) PROVE LockInv'
<1>1. LocalType /\ LockTypeOK
  BY TypeParts DEF LockInv
<1>2. UNCHANGED <<kind, file, sup, box, orphans, raced>> /\ pc[p] = "judge" /\ why[p] # "release"
  BY DEF Judge, FileKept, Unmoved
<1>3. PICK v \in Verdicts(snap[p]) :
         IF v = "stale" THEN Goto(p, "relstat", why[p]) ELSE Active(p, v = "recovery")
  BY DEF Judge
<1>4. CASE v = "stale"
  BY <1>2, <1>3, <1>4, VerdictStale, RemovingKeeps DEF Removing, Justified
<1>5. CASE v # "stale"
  <2>1. Over(p)
    BY <1>1, <1>3, <1>5, ActiveOver, Zenon
  <2>2. QED
    BY <1>2, <2>1, OverKeeps DEF Inspecting
<1>6. QED
  BY <1>4, <1>5

\* Judging before a release keeps the invariant (releaseWorkspaceStartLock).
LEMMA JudgeReleaseKeeps == ASSUME LockInv, NEW p \in Op, JudgeRelease(p) PROVE LockInv'
<1>1. UNCHANGED <<kind, file, sup, box, orphans, raced>> /\ pc[p] = "judge" /\ why[p] = "release"
  BY DEF JudgeRelease, FileKept, Unmoved
<1>2. \/ Goto(p, "done", "release")
      \/ Goto(p, "relstat", "release") /\ (kind = "lease" => snap[p][2].body # "recover")
  BY DEF JudgeRelease, LeaseVerdict
<1>3. CASE Goto(p, "done", "release")
  BY <1>1, <1>3, GotoKeeps DEF Reason
<1>4. CASE Goto(p, "relstat", "release") /\ (kind = "lease" => snap[p][2].body # "recover")
  BY <1>1, <1>4, RemovingKeeps DEF Removing, Justified
<1>5. QED
  BY <1>2, <1>3, <1>4

\* The second lstat succeeds only for a snapshot of one file (removeSnapshot).
LEMMA RelstatKeeps == ASSUME LockInv, NEW p \in Op, Relstat(p) PROVE LockInv'
<1>a. LockTypeOK /\ (\A q \in Op : SnapInv(q)) /\ FileInv /\ HoldInv /\ SupInv
  BY DEF LockInv
<1>1. LocalType /\ LockTypeOK
  BY TypeParts DEF LockInv
<1>2. UNCHANGED <<kind, file, sup, box, orphans, raced>> /\ pc[p] = "relstat"
  BY DEF Relstat, FileKept, Unmoved
<1>3. CASE file = snap[p][1] /\ file # None
  <2>1. Goto(p, "reread", why[p])
    BY <1>3 DEF Relstat
  <2>2. snap[p] # NoSnapshot /\ Replaced(snap[p]) /\ (why[p] # "release" => Stale(snap[p]))
    BY <1>a, <1>2 DEF SnapInv, Removing
  <2>3. snap[p][1].owner = snap[p][2].owner
    BY <1>3, <2>2 DEF Replaced
  <2>4. why[p] = "release" /\ kind = "lease" => snap[p][2].body # "recover"
    BY <1>a, <1>2 DEF SnapInv, Removing
  <2>5. QED
    BY <1>2, <2>1, <2>2, <2>3, <2>4, RemovingKeeps DEF Removing, Justified
<1>4. CASE ~(file = snap[p][1] /\ file # None)
  BY <1>1, <1>2, <1>4, NotRemovedOver, OverKeeps DEF Relstat, Inspecting
<1>5. QED
  BY <1>3, <1>4

\* The second readFile succeeds only for a file whose owner is dead, or is the
\* one that releases it (removeSnapshot).
LEMMA RereadKeeps == ASSUME LockInv, NEW p \in Op, Reread(p) PROVE LockInv'
<1>a. LockTypeOK /\ (\A q \in Op : SnapInv(q)) /\ FileInv /\ HoldInv /\ SupInv
  BY DEF LockInv
<1>1. LocalType /\ LockTypeOK
  BY TypeParts DEF LockInv
<1>2. UNCHANGED <<kind, file, sup, box, orphans, raced>> /\ pc[p] = "reread"
  BY DEF Reread, FileKept, Unmoved
<1>3. DEFINE same == /\ file = snap[p][2] /\ file # None
                     /\ why[p] = "release" => file.owner = p /\ file.body # "empty"
<1>4. CASE same
  <2>1. Goto(p, "unlink", why[p])
    BY <1>4 DEF Reread
  <2>2. snap[p][1].owner = snap[p][2].owner /\ (why[p] # "release" => Stale(snap[p]))
    BY <1>a, <1>2, Zenon DEF SnapInv, Removing
  <2>3. why[p] # "release" => pc[snap[p][2].owner] = "dead"
    BY <1>a, <1>4, <2>2, Zenon DEF Stale, FileInv
  <2>4. why[p] = "release" /\ kind = "lease" => snap[p][2].body # "recover"
    BY <1>a, <1>2, Zenon DEF SnapInv, Removing
  <2>5. QED
    BY <1>2, <1>4, <2>1, <2>2, <2>3, <2>4, RemovingKeeps, Zenon DEF Removing, Justified
<1>5. CASE ~same
  <2>1. NotRemoved(p)
    BY <1>5 DEF Reread
  <2>2. QED
    BY <1>1, <1>2, <2>1, NotRemovedOver, OverKeeps DEF Inspecting
<1>6. QED
  BY <1>4, <1>5

-----------------------------------------------------------------------------
(* Steps that change the file at the path *)

\* Unlinking takes the file of a dead owner or of the releasing one, unless
\* another process stood at the same point (removeSnapshot).
LEMMA UnlinkKeeps == ASSUME LockInv, NEW p \in Op, Unlink(p) PROVE LockInv'
<1>a. LockTypeOK /\ (\A q \in Op : SnapInv(q)) /\ FileInv /\ HoldInv /\ SupInv
  BY DEF LockInv
<1>1. LocalType /\ LockTypeOK
  BY TypeParts DEF LockInv
<1>2. /\ UNCHANGED <<kind, sup, box, orphans>> /\ pc[p] = "unlink" /\ file' = None
      /\ raced' = (raced \/ \E q \in Op \ {p} : pc[q] = "unlink")
  BY DEF Unlink, Unmoved
<1>3. Over(p)
  BY <1>1, InactiveOver, NotRemovedOver DEF Unlink
<1>4. Grow
  BY <1>2, <1>3 DEF Over, Only, Grow, Fresh, Inspecting
<1>5. LockTypeOK'
  BY <1>1, <1>2, <1>3 DEF Over, LockTypeOK, LocalType
<1>6. ASSUME NEW q \in Op PROVE SnapInv(q)'
  <2>1. CASE q = p
    BY <1>3, <2>1, Zenon DEF Over, SnapInv, Removing
  <2>2. CASE q # p
    BY <1>a, <1>1, <1>2, <1>3, <1>4, <2>2, OthersKept, Zenon DEF Over, FileStep
  <2>3. QED
    BY <2>1, <2>2
<1>7. FileInv'
  BY <1>2 DEF FileInv
<1>8. HoldInv'
  <2>1. ASSUME NEW q \in Op, ~raced', pc'[q] \in {"write", "hold"} \/ q \in orphans'
        PROVE  FALSE
    <3>1. file # None /\ file.owner = snap[p][2].owner /\ ~raced
      BY <1>a, <1>2, <2>1, Zenon DEF SnapInv
    <3>2. q # p
      BY <1>a, <1>2, <1>3, <2>1, Zenon DEF Over, HoldInv
    <3>3. /\ file.owner = q
          /\ (q \in orphans =>
                 pc[q] \in {"gone", "dead"} /\ q \in Supervised /\ kind = "lease")
          /\ (q \notin orphans => pc[q] \in {"write", "hold"})
      BY <1>a, <1>2, <1>3, <2>1, <3>1, <3>2, Zenon DEF Over, Only, HoldInv
    <3>4. why[p] # "release"
      BY <1>a, <1>2, <3>1, <3>2, <3>3, Zenon DEF SnapInv
    <3>5. Stale(snap[p]) /\ pc[q] = "dead"
      BY <1>a, <1>2, <3>1, <3>3, <3>4, Zenon DEF SnapInv, Removing
    <3>6. QED
      BY <3>1, <3>3, <3>5 DEF Stale
  <2>2. \A q \in orphans' : kind' = "lease" /\ q \in Supervised /\ pc'[q] \in {"gone", "dead"}
    BY <1>a, <1>2, <1>3, LockAssumption, Zenon DEF HoldInv, Over, Only
  <2>3. QED
    BY <2>1, <2>2 DEF HoldInv
<1>9. SupInv'
  BY <1>a, <1>2, <1>3 DEF SupInv, Over, Only
<1>10. QED
  BY <1>5, <1>6, <1>7, <1>8, <1>9 DEF LockInv

\* The file is created where none was, so nobody is in the critical section
\* (createWorkspaceMutationLease).
LEMMA CreateKeeps == ASSUME LockInv, NEW p \in Op, Create(p) PROVE LockInv'
<1>a. LockTypeOK /\ (\A q \in Op : SnapInv(q)) /\ FileInv /\ HoldInv /\ SupInv
  BY DEF LockInv
<1>1. LocalType /\ LockTypeOK
  BY TypeParts DEF LockInv
<1>2. UNCHANGED <<kind, sup, box, orphans, raced>> /\ pc[p] = "create"
  BY DEF Create, Unmoved
<1>3. CASE file # None
  <2>1. PICK w \in Reason : Goto(p, "lstat", w) /\ file' = file
    BY <1>3 DEF Create, Reason
  <2>2. QED
    BY <1>2, <2>1, GotoKeeps, Zenon DEF Fresh
<1>4. CASE file = None
  <2>1. file' = [owner |-> p, body |-> "empty", box |-> box] /\ Goto(p, "write", "create")
    BY <1>4 DEF Create
  <2>2. file' \in File /\ file' # None /\ file'.owner = p /\ file'.body = "empty" /\ file'.box = box
    BY <1>1, <2>1, LockAssumption DEF File, LockTypeOK
  <2>3. /\ LocalType' /\ Only(p) /\ pc'[p] = "write" /\ why'[p] = "create"
        /\ seen'[p] = None /\ snap'[p] = NoSnapshot
    BY <1>1, <2>1, GotoFacts, Zenon DEF Reason, Removing
  <2>4. Grow
    BY <1>2, <2>3 DEF Only, Grow, Fresh, Inspecting
  <2>5. LockTypeOK'
    BY <1>1, <1>2, <2>2, <2>3, Zenon DEF LockTypeOK, LocalType
  <2>6. ASSUME NEW q \in Op PROVE SnapInv(q)'
    <3>1. CASE q = p
      BY <2>3, <3>1, Zenon DEF SnapInv, Removing
    <3>2. CASE q # p
      BY <1>a, <1>1, <1>2, <1>4, <2>2, <2>3, <2>4, <3>2, OthersKept, Zenon DEF FileStep, Fresh
    <3>3. QED
      BY <3>1, <3>2
  <2>7. FileInv'
    BY <1>2, <2>2, <2>3 DEF FileInv, Known, Fresh, Inspecting
  <2>8. HoldInv'
    <3>1. ASSUME NEW q \in Op, ~raced', pc'[q] \in {"write", "hold"} \/ q \in orphans'
          PROVE  file' # None /\ file'.owner = q
      BY <1>a, <1>2, <1>4, <2>2, <2>3, <3>1 DEF HoldInv, Only
    <3>2. \A q \in orphans' : kind' = "lease" /\ q \in Supervised /\ pc'[q] \in {"gone", "dead"}
      BY <1>a, <1>2, <2>3, LockAssumption DEF HoldInv, Only
    <3>3. QED
      BY <3>1, <3>2 DEF HoldInv
  <2>9. SupInv'
    BY <1>a, <1>2, <2>2, <2>3, Zenon DEF SupInv, Only
  <2>10. QED
    BY <2>5, <2>6, <2>7, <2>8, <2>9 DEF LockInv
<1>5. QED
  BY <1>3, <1>4

\* Writing to an opened file changes neither its owner nor its place.
LEMMA BodyFacts ==
    ASSUME LockTypeOK, NEW p \in Op, NEW b \in {"empty", "lock", "recover"}
    PROVE  /\ Body(p, b) \in File \union {None}
           /\ Body(p, b) = None <=> file = None
           /\ file # None => /\ Body(p, b).owner = file.owner /\ Body(p, b).box = file.box
                             /\ Body(p, b).body = IF file.owner = p THEN b ELSE file.body
<1>1. CASE file # None /\ file.owner = p
  <2>1. file \in File /\ Body(p, b) = [file EXCEPT !.body = b]
    BY <1>1 DEF LockTypeOK, Body
  <2>2. [file EXCEPT !.body = b] \in File
    BY <2>1 DEF File
  <2>3. QED
    BY <1>1, <2>1, <2>2, LockAssumption DEF File
<1>2. CASE ~(file # None /\ file.owner = p)
  BY <1>2 DEF LockTypeOK, Body
<1>3. QED
  BY <1>1, <1>2

\* The file at the path keeps its owner and its Box, and its body unless it is p's.
Rewritten(p) ==
    /\ file' \in File \union {None}
    /\ file' = None <=> file = None
    /\ file # None => file'.owner = file.owner /\ file'.box = file.box
    /\ file # None /\ file.owner # p => file'.body = file.body

\* Writing the new lock keeps the invariant (createMaintenanceLock).
LEMMA WriteKeeps == ASSUME LockInv, NEW p \in Op, Write(p) PROVE LockInv'
<1>a. LockTypeOK /\ (\A q \in Op : SnapInv(q)) /\ FileInv /\ HoldInv /\ SupInv
  BY DEF LockInv
<1>1. LocalType /\ LockTypeOK
  BY <1>a, TypeParts
<1>2. UNCHANGED <<kind, sup, box, orphans, raced>> /\ pc[p] = "write" /\ file' = Body(p, "lock")
  BY DEF Write, Unmoved
<1>3. /\ LocalType' /\ Only(p) /\ pc'[p] = "hold" /\ seen'[p] = None /\ snap'[p] = NoSnapshot
  BY <1>1, GotoFacts, Zenon DEF Write, Reason, Removing
<1>4. Rewritten(p) /\ (file # None /\ file.owner = p => file'.body = "lock")
  BY <1>1, <1>2, BodyFacts, Zenon DEF Rewritten
<1>5. Grow
  BY <1>2, <1>3, Zenon DEF Only, Grow, Fresh, Inspecting
<1>6. LockTypeOK'
  BY <1>1, <1>2, <1>3, <1>4, Zenon DEF LockTypeOK, LocalType, Rewritten
<1>7. ASSUME NEW q \in Op PROVE SnapInv(q)'
  <2>1. CASE q = p
    BY <1>3, <2>1, Zenon DEF SnapInv, Removing
  <2>2. CASE q # p
    <3>1. FileStep(p)
      BY <1>4, Zenon DEF Rewritten, FileStep
    <3>2. QED
      BY <1>a, <1>2, <1>3, <1>5, <2>2, <3>1, OthersKept, Zenon
  <2>3. QED
    BY <2>1, <2>2
<1>8. FileInv'
  <2>1. SUFFICES ASSUME file' # None PROVE FileInv'
    BY DEF FileInv
  <2>2. file # None /\ file'.owner = file.owner /\ file'.box = file.box
    BY <1>4, <2>1 DEF Rewritten
  <2>3. file \in File /\ file.owner \in Op
    BY <1>1, <2>2 DEF LockTypeOK, File
  <2>4. Known(file) /\ (file.body = "recover" => file.owner \in Supervised)
        /\ (kind = "maintenance" /\ file.body = "empty" => pc[file.owner] \in {"write", "dead"})
    BY <1>a, <2>2, Zenon DEF FileInv
  <2>5. CASE file.owner = p
    <3>1. file'.body = "lock" /\ file'.owner = p
      BY <1>4, <2>2, <2>5
    <3>2. ~Fresh(p)' /\ (file'.box # box => FALSE)
      BY <1>2, <1>3, <2>2, <2>4, <2>5, Zenon DEF Known, Fresh, Inspecting
    <3>3. QED
      BY <1>2, <1>3, <3>1, <3>2 DEF FileInv, Known
  <2>6. CASE file.owner # p
    <3>1. file'.body = file.body /\ pc'[file.owner] = pc[file.owner]
      BY <1>3, <1>4, <2>2, <2>3, <2>6, Zenon DEF Rewritten, Only
    <3>2. ~Fresh(file.owner)'
      BY <1>5, <2>2, <2>3, <2>4, Zenon DEF Grow, Known, Fresh
    <3>3. QED
      BY <1>2, <2>2, <2>4, <3>1, <3>2, Zenon DEF FileInv, Known
  <2>7. QED
    BY <2>5, <2>6
<1>9. HoldInv'
  <2>1. file' # None <=> file # None
    BY <1>4 DEF Rewritten
  <2>2. file # None => file'.owner = file.owner
    BY <1>4 DEF Rewritten
  <2>3. QED
    BY <1>a, <1>2, <1>3, <2>1, <2>2, LockAssumption DEF HoldInv, Only
<1>10. SupInv'
  <2>1. ASSUME NEW q \in Op, sup[q] = "end" PROVE q # p
    BY <1>a, <1>2, <2>1, Zenon DEF SupInv
  <2>2. ASSUME NEW q \in Op, q # p, file' # None, file'.owner = q
        PROVE  file # None /\ file.owner = q /\ file'.body = file.body
    BY <1>4, <2>2 DEF Rewritten
  <2>3. QED
    BY <1>a, <1>2, <1>3, <2>1, <2>2, Zenon DEF SupInv, Only
<1>11. QED
  BY <1>6, <1>7, <1>8, <1>9, <1>10 DEF LockInv

-----------------------------------------------------------------------------
(* Steps of a supervisor *)

SupState == {"off", "check", "trunc", "write", "term", "recheck", "retrunc", "rewrite", "end"}

\* A supervisor of p goes on to the state to and leaves the thread alone.
SupStep(p, to) ==
    /\ ThreadKept /\ orphans' = orphans /\ sup' = [sup EXCEPT ![p] = to]
    /\ kind = "lease" /\ p \in Supervised
    /\ to \in {"recheck", "retrunc", "rewrite", "end"} => pc[p] \in {"gone", "done", "dead"}
    /\ file' = file \/ (\E b \in {"empty", "recover"} : file' = Body(p, b))
    /\ to = "end" /\ file' # None /\ file'.owner = p => file'.body # "lock"

\* What was known, stale or replaced stays so while no operation moves.
LEMMA ThreadsKept ==
    ASSUME UNCHANGED <<kind, pc, why, box>>
    PROVE  /\ \A q : Fresh(q)' = Fresh(q)
           /\ \A f : Known(f)' = Known(f)
           /\ \A s : Stale(s)' = Stale(s)
<1>1. \A q : Fresh(q)' = Fresh(q)
  BY Zenon DEF Fresh
<1>2. QED
  BY <1>1, Zenon DEF Known, Stale

\* Such a step keeps the invariant: it empties or marks a lease of a worker
\* thread, which is never judged stale (retainWorkspaceMutationLeaseForRecovery).
LEMMA SupervisorKeeps ==
    ASSUME LockInv, NEW p \in Op, NEW to \in SupState, SupStep(p, to)
    PROVE  LockInv'
<1>a. LockTypeOK /\ (\A q \in Op : SnapInv(q)) /\ FileInv /\ HoldInv /\ SupInv
  BY DEF LockInv
<1>1. /\ UNCHANGED <<kind, pc, why, seen, snap, tries, box, raced, orphans>>
      /\ kind = "lease" /\ p \in Supervised
  BY DEF SupStep, ThreadKept
<1>2. sup' \in [Op -> SupState] /\ sup'[p] = to /\ (\A q \in Op \ {p} : sup'[q] = sup[q])
  BY <1>a DEF SupStep, LockTypeOK, SupState
<1>3. Rewritten(p)
  <2>1. CASE file' = file
    BY <1>a, <2>1 DEF Rewritten, LockTypeOK
  <2>2. CASE \E b \in {"empty", "recover"} : file' = Body(p, b)
    BY <1>a, <2>2, BodyFacts DEF Rewritten
  <2>3. QED
    BY <2>1, <2>2 DEF SupStep
<1>4. LockTypeOK'
  BY <1>a, <1>1, <1>2, <1>3, Zenon DEF LockTypeOK, SupState, Rewritten
<1>5. /\ file' # None <=> file # None
      /\ file # None => file'.owner = file.owner /\ file'.box = file.box
  BY <1>3 DEF Rewritten
<1>6. ASSUME NEW q \in Op PROVE SnapInv(q)'
  <2>1. \A s : Replaced(s)' = Replaced(s)
    BY <1>5, Zenon DEF Replaced
  <2>2. SnapInv(q)
    BY <1>a
  <2>3. QED
    BY <1>1, <1>5, <2>1, <2>2, ThreadsKept, Zenon DEF SnapInv
<1>7. FileInv'
  <2>1. SUFFICES ASSUME file # None PROVE FileInv'
    BY <1>5 DEF FileInv
  <2>2. Known(file)'
    BY <1>a, <1>1, <1>5, <2>1, ThreadsKept, Zenon DEF FileInv, Known
  <2>3. file'.body = "recover" => file'.owner \in Supervised
    BY <1>a, <1>1, <1>3, <2>1 DEF FileInv, Rewritten
  <2>4. QED
    BY <1>1, <2>2, <2>3, ZenonT(30) DEF FileInv
<1>8. HoldInv'
  BY <1>a, <1>1, <1>5 DEF HoldInv
<1>9. SupInv'
  <2>1. ASSUME NEW q \in Op \ {p}, sup'[q] = "end", file' # None, file'.owner = q
        PROVE  file'.body # "lock"
    BY <1>a, <1>2, <1>3, <2>1, Zenon DEF SupInv, Rewritten
  <2>2. /\ to \in {"recheck", "retrunc", "rewrite", "end"} => pc[p] \in {"gone", "done", "dead"}
        /\ to = "end" /\ file' # None /\ file'.owner = p => file'.body # "lock"
    BY DEF SupStep
  <2>3. QED
    BY <1>a, <1>1, <1>2, <2>1, <2>2, Zenon DEF SupInv
<1>10. QED
  BY <1>4, <1>6, <1>7, <1>8, <1>9 DEF LockInv

\* Abort, CheckLease, Truncate and MarkRecovery keep the invariant
\* (runMarketplaceEnableWorker, retainWorkspaceMutationLeaseForRecovery).
LEMMA RetainKeeps ==
    ASSUME LockInv, NEW p \in Op, Abort(p) \/ CheckLease(p) \/ Truncate(p) \/ MarkRecovery(p)
    PROVE  LockInv'
<1>1. /\ LockTypeOK
      /\ sup[p] # "off" => kind = "lease" /\ p \in Supervised
      /\ sup[p] \in {"recheck", "retrunc", "rewrite", "end"} => pc[p] \in {"gone", "done", "dead"}
  BY DEF LockInv, SupInv
<1>2. ASSUME Abort(p) PROVE \E to \in SupState : SupStep(p, to)
  BY <1>2, Zenon DEF Abort, Retain, SupState, SupStep
<1>3. ASSUME CheckLease(p) PROVE \E to \in SupState : SupStep(p, to)
  <2>1. CASE Retain(p, "check", IF IsItsLease(p) THEN "trunc" ELSE "term")
    <3>1. PICK to \in {"trunc", "term"} : sup[p] = "check" /\ sup' = [sup EXCEPT ![p] = to]
      BY <2>1, Zenon DEF Retain
    <3>2. QED
      BY <1>1, <1>3, <3>1, Zenon DEF CheckLease, SupState, SupStep
  <2>2. CASE Retain(p, "recheck", IF IsItsLease(p) THEN "retrunc" ELSE "end")
    <3>1. PICK to \in {"retrunc", "end"} :
             sup[p] = "recheck" /\ sup' = [sup EXCEPT ![p] = to] /\ (to = "end" => ~IsItsLease(p))
      BY <2>2, Zenon DEF Retain
    <3>2. to = "end" /\ file # None /\ file.owner = p => file.body # "lock"
      BY <3>1 DEF IsItsLease
    <3>3. QED
      BY <1>1, <1>3, <3>1, <3>2, Zenon DEF CheckLease, SupState, SupStep
  <2>3. QED
    BY <1>3, <2>1, <2>2 DEF CheckLease
<1>4. ASSUME Truncate(p) PROVE \E to \in SupState : SupStep(p, to)
  <2>1. PICK to \in {"write", "rewrite"} :
           /\ sup[p] = IF to = "write" THEN "trunc" ELSE "retrunc"
           /\ sup' = [sup EXCEPT ![p] = to]
    BY <1>4 DEF Truncate, Retain
  <2>2. QED
    BY <1>1, <1>4, <2>1, Zenon DEF Truncate, SupState, SupStep
<1>5. ASSUME MarkRecovery(p) PROVE \E to \in SupState : SupStep(p, to)
  <2>1. PICK to \in {"term", "end"} :
           /\ sup[p] = IF to = "term" THEN "write" ELSE "rewrite"
           /\ sup' = [sup EXCEPT ![p] = to]
    BY <1>5 DEF MarkRecovery, Retain
  <2>2. file' # None /\ file'.owner = p => file'.body = "recover"
    BY <1>1, <1>5, BodyFacts, Zenon DEF MarkRecovery
  <2>3. QED
    BY <1>1, <1>5, <2>1, <2>2, Zenon DEF MarkRecovery, SupState, SupStep
<1>6. QED
  BY <1>2, <1>3, <1>4, <1>5, SupervisorKeeps

-----------------------------------------------------------------------------
(* The end of threads, processes and Boxes *)

\* The thread of p ends (to = "gone", or "done" as before), or its process (to = "dead").
EndStep(p, to) ==
    /\ Running(p) /\ LocalType' /\ Only(p) /\ UNCHANGED <<kind, file, box, raced>>
    /\ pc'[p] = to /\ (to = "done" => pc[p] = "done") /\ (to # "dead" => kind = "lease")
    /\ \/ seen'[p] = seen[p] /\ snap'[p] = snap[p]
       \/ seen'[p] = None /\ snap'[p] = NoSnapshot
    /\ \/ orphans' = orphans
       \/ orphans' = orphans \union {p} /\ pc[p] = "hold" /\ kind = "lease" /\ p \in Supervised
    /\ \/ sup' = sup
       \/ sup' = [sup EXCEPT ![p] = "recheck"] /\ kind = "lease" /\ p \in Supervised

\* Such an end keeps the invariant.
LEMMA EndKeeps ==
    ASSUME LockInv, NEW p \in Op, NEW to \in {"gone", "done", "dead"}, EndStep(p, to)
    PROVE  LockInv'
<1>a. LockTypeOK /\ (\A q \in Op : SnapInv(q)) /\ FileInv /\ HoldInv /\ SupInv
  BY DEF LockInv
<1>1. LocalType /\ LocalType' /\ Only(p) /\ UNCHANGED <<kind, file, box, raced>>
  BY <1>a, TypeParts DEF EndStep
<1>2. /\ Running(p) /\ pc'[p] = to /\ (to = "done" => pc[p] = "done")
      /\ to # "dead" => kind = "lease"
  BY Zenon DEF EndStep
<1>3. LockTypeOK'
  <2>1. sup' \in [Op -> SupState] /\ orphans' \subseteq Supervised
    BY <1>a, Zenon DEF EndStep, LockTypeOK, SupState
  <2>2. QED
    BY <1>a, <1>1, <2>1, Zenon DEF LockTypeOK, LocalType, SupState
<1>4. Grow
  BY <1>1, <1>2, Zenon DEF Only, Grow, Fresh, Inspecting, Running
<1>5. ASSUME NEW q \in Op PROVE SnapInv(q)'
  <2>1. CASE q = p
    <3>1. \/ seen'[p] = seen[p] /\ snap'[p] = snap[p]
          \/ seen'[p] = None /\ snap'[p] = NoSnapshot
      BY Zenon DEF EndStep
    <3>2. SnapInv(p) /\ seen[p] \in File \union {None}
          /\ snap[p] \in (File \union {None}) \X (File \union {None})
      BY <1>a, <1>1 DEF LocalType
    <3>3. seen'[p] # None => Known(seen[p])'
      <4>1. ASSUME seen'[p] # None
            PROVE  seen'[p] = seen[p] /\ seen[p] \in File /\ Known(seen[p])
        BY <3>1, <3>2, <4>1, Zenon DEF SnapInv
      <4>2. QED
        BY <1>1, <1>4, <4>1, KnownKept
    <3>4. ASSUME snap'[p] # NoSnapshot
          PROVE  Known(snap[p][1])' /\ Known(snap[p][2])' /\ Replaced(snap[p])'
                 /\ snap'[p][1] # None /\ snap'[p][2] # None
      <4>1. snap'[p] = snap[p] /\ snap[p][1] # None /\ snap[p][2] # None
        BY <3>1, <3>2, <3>4, Zenon DEF SnapInv
      <4>2. snap[p] \in File \X File
        BY <3>2, <4>1
      <4>3. Known(snap[p][1]) /\ Known(snap[p][2]) /\ Replaced(snap[p])
        BY <3>2, <3>4, <4>1, Zenon DEF SnapInv
      <4>4. Known(snap[p][1])' /\ Known(snap[p][2])'
        BY <1>1, <1>4, <4>1, <4>2, <4>3, KnownKept, Zenon
      <4>5. Replaced(snap[p])'
        BY <1>1, <4>1, <4>3, Zenon DEF Replaced
      <4>6. QED
        BY <4>1, <4>4, <4>5
    <3>5. QED
      BY <1>2, <2>1, <3>3, <3>4, Zenon DEF SnapInv, Removing
  <2>2. CASE q # p
    <3>1. FileStep(p)
      BY <1>1 DEF FileStep
    <3>2. QED
      BY <1>a, <1>1, <1>4, <2>2, <3>1, OthersKept
  <2>3. QED
    BY <2>1, <2>2
<1>6. FileInv'
  <2>1. SUFFICES ASSUME file # None PROVE FileInv'
    BY <1>1 DEF FileInv
  <2>2. file \in File /\ file.owner \in Op
    BY <1>a, <2>1 DEF LockTypeOK, File
  <2>3. Known(file)'
    BY <1>a, <1>1, <1>4, <2>1, <2>2, KnownKept, ZenonT(30) DEF FileInv
  <2>4. kind = "maintenance" /\ file.body = "empty" => pc'[file.owner] \in {"write", "dead"}
    BY <1>a, <1>1, <1>2, <2>1, <2>2 DEF FileInv, Only
  <2>5. QED
    BY <1>a, <1>1, <2>1, <2>3, <2>4 DEF FileInv
<1>7. HoldInv'
  <2>1. \/ orphans' = orphans
        \/ orphans' = orphans \union {p} /\ pc[p] = "hold" /\ kind = "lease" /\ p \in Supervised
    BY DEF EndStep
  <2>2. ASSUME NEW q \in Op, ~raced', pc'[q] \in {"write", "hold"} \/ q \in orphans'
        PROVE  file' # None /\ file'.owner = q
    BY <1>a, <1>1, <1>2, <2>1, <2>2 DEF HoldInv, Only
  <2>3. ASSUME NEW q \in orphans'
        PROVE  kind' = "lease" /\ q \in Supervised /\ pc'[q] \in {"gone", "dead"}
    BY <1>a, <1>1, <1>2, <2>1, <2>3, LockAssumption, ZenonT(30) DEF HoldInv, Only, LockTypeOK
  <2>4. QED
    BY <2>2, <2>3 DEF HoldInv
<1>8. SupInv'
  <2>1. \/ sup' = sup
        \/ sup' = [sup EXCEPT ![p] = "recheck"] /\ kind = "lease" /\ p \in Supervised
    BY Zenon DEF EndStep
  <2>2. QED
    BY <1>a, <1>1, <1>2, <2>1, Zenon DEF SupInv, Only, LockTypeOK
<1>9. QED
  BY <1>3, <1>5, <1>6, <1>7, <1>8 DEF LockInv

\* Terminated keeps the invariant: who held the lease is remembered (cancel).
LEMMA TerminatedKeeps == ASSUME LockInv, NEW p \in Op, Terminated(p) PROVE LockInv'
<1>1. LocalType /\ LockTypeOK
  BY TypeParts DEF LockInv
<1>2. sup[p] = "term" /\ Running(p) /\ sup' = [sup EXCEPT ![p] = "recheck"]
  BY DEF Terminated, Retain
<1>3. kind = "lease" /\ p \in Supervised
  BY <1>2 DEF LockInv, SupInv
<1>4. LocalType' /\ Only(p) /\ pc'[p] = IF pc[p] = "done" THEN "done" ELSE "gone"
  BY <1>1 DEF Terminated, LocalType, Only
<1>5. \E to \in {"gone", "done"} : EndStep(p, to)
  BY <1>2, <1>3, <1>4, Zenon DEF Terminated, EndStep
<1>6. QED
  BY <1>5, EndKeeps

\* Exit keeps the invariant: the children of a worker thread that held the
\* lease are remembered.
LEMMA ExitKeeps == ASSUME LockInv, NEW p \in Op, Exit(p) PROVE LockInv'
<1>1. LocalType /\ LockTypeOK
  BY TypeParts DEF LockInv
<1>2. NoSnapshot \in (File \union {None}) \X (File \union {None})
  BY DEF NoSnapshot
<1>3. LocalType' /\ Only(p) /\ pc'[p] = "dead" /\ seen'[p] = None /\ snap'[p] = NoSnapshot
  BY <1>1, <1>2, SMTT(30) DEF Exit, Ended, LocalType, Only, Reason
<1>4. EndStep(p, "dead")
  BY <1>3, Zenon DEF Exit, EndStep
<1>5. QED
  BY <1>4, EndKeeps

\* The end of a Box keeps the invariant: everything in it is dead, and its file
\* names the dead (retireQuiescentBoxWorkspaceStartLock).
LEMMA AllEndKeeps == ASSUME LockInv, LoseBox \/ StopBox PROVE LockInv'
<1>a. LockTypeOK /\ (\A q \in Op : SnapInv(q)) /\ FileInv /\ HoldInv /\ SupInv
  BY DEF LockInv
<1>1. LocalType /\ LockTypeOK
  BY TypeParts DEF LockInv
<1>2. AllEnd /\ (file' = file \/ file' = None)
  BY DEF LoseBox, StopBox
<1>3. NoSnapshot \in (File \union {None}) \X (File \union {None})
  BY DEF NoSnapshot
<1>4. box' \in 1..MaxBox /\ orphans' = {} /\ kind' = kind /\ sup' = sup /\ raced' = raced
  BY <1>1, <1>2, LockAssumption, SMTT(30) DEF AllEnd, LockTypeOK
<1>5. LockTypeOK'
  BY <1>1, <1>2, <1>3, <1>4, SMTT(30) DEF AllEnd, LockTypeOK, Reason
<1>6. \A q \in Op : /\ pc'[q] = IF pc[q] = "idle" THEN "idle" ELSE "dead"
                    /\ seen'[q] = None /\ snap'[q] = NoSnapshot
  BY <1>2 DEF AllEnd, Running
<1>7. \A q \in Op : SnapInv(q)'
  BY <1>6, Zenon DEF SnapInv, Removing
<1>8. FileInv'
  <2>1. SUFFICES ASSUME file' # None PROVE FileInv'
    BY DEF FileInv
  <2>2. file' = file /\ file.owner \in Op /\ Known(file)
    BY <1>a, <1>1, <1>2, <2>1, Zenon DEF LockTypeOK, File, FileInv
  <2>3. pc'[file.owner] = "dead"
    BY <1>6, <2>2 DEF Known, Fresh
  <2>4. QED
    BY <1>a, <1>4, <2>1, <2>2, <2>3, Zenon DEF FileInv, Known, Fresh, Inspecting
<1>9. HoldInv'
  BY <1>4, <1>6, Zenon DEF HoldInv
<1>10. SupInv'
  BY <1>a, <1>2, <1>4, <1>6, Zenon DEF SupInv
<1>11. QED
  BY <1>5, <1>7, <1>8, <1>9, <1>10 DEF LockInv

-----------------------------------------------------------------------------
(* The theorems *)

\* Nobody has a snapshot when the workspace is created (lockPathFor).
LEMMA LockInitInv == LockInit => LockInv
<1>1. SUFFICES ASSUME LockInit PROVE LockInv
  OBVIOUS
<1>2. NoSnapshot \in (File \union {None}) \X (File \union {None})
  BY DEF NoSnapshot
<1>3. LockTypeOK
  <2>1. kind \in {"lease", "maintenance"} /\ file \in File \union {None} /\ raced \in BOOLEAN
    BY <1>1, LockAssumption, Zenon DEF LockInit
  <2>2. LocalType
    BY <1>1, <1>2 DEF LockInit, LocalType, Reason
  <2>3. box \in 1..MaxBox
    BY <1>1, LockAssumption DEF LockInit
  <2>4. QED
    BY <1>1, <2>1, <2>2, <2>3, Zenon DEF LockInit, LockTypeOK, LocalType
<1>4. \A q \in Op : SnapInv(q)
  BY <1>1, Zenon DEF LockInit, SnapInv, Removing
<1>5. FileInv /\ HoldInv /\ SupInv
  BY <1>1 DEF LockInit, FileInv, HoldInv, SupInv
<1>6. QED
  BY <1>3, <1>4, <1>5 DEF LockInv

\* Every step of an operation, a supervisor or a Box keeps the invariant
\* (maintenanceLocks.js).
LEMMA LockStepInv == LockInv /\ [LockNext]_lockVars => LockInv'
<1>1. SUFFICES ASSUME LockInv, [LockNext]_lockVars PROVE LockInv'
  OBVIOUS
<1>2. ASSUME NEW p \in Op, OpStep(p) PROVE LockInv'
  BY <1>1, <1>2, WaitingKeeps, LstatKeeps, ReadKeeps, JudgeKeeps, JudgeReleaseKeeps, RelstatKeeps,
     RereadKeeps, UnlinkKeeps, CreateKeeps, WriteKeeps, RetainKeeps, TerminatedKeeps, ExitKeeps
     DEF OpStep
<1>3. ASSUME NEW p \in Op, Release(p) PROVE LockInv'
  BY <1>1, <1>3, WaitingKeeps
<1>4. ASSUME LoseBox \/ StopBox PROVE LockInv'
  BY <1>1, <1>4, AllEndKeeps
<1>5. CASE UNCHANGED lockVars
  <2>1. UNCHANGED <<kind, file, pc, why, seen, snap, tries, sup, box, orphans, raced>>
    BY <1>5 DEF lockVars
  <2>2. LockTypeOK /\ (\A q \in Op : SnapInv(q)) /\ FileInv /\ HoldInv /\ SupInv
    BY <1>1 DEF LockInv
  <2>3. LockTypeOK'
    BY <2>1, <2>2 DEF LockTypeOK
  <2>4. \A s : Replaced(s)' = Replaced(s)
    BY <2>1, Zenon DEF Replaced
  <2>5. \A q \in Op : SnapInv(q)'
    BY <2>1, <2>2, <2>4, ThreadsKept, Zenon DEF SnapInv
  <2>6. FileInv' /\ HoldInv' /\ SupInv'
    BY <2>1, <2>2, ThreadsKept, Zenon DEF FileInv, HoldInv, SupInv
  <2>7. QED
    BY <2>3, <2>5, <2>6 DEF LockInv
<1>6. QED
  BY <1>1, <1>2, <1>3, <1>4, <1>5 DEF LockNext

\* The invariant holds in every reachable state of the locks (maintenanceLocks.js).
THEOREM LocksInvariant == LockSpec => []LockInv
BY LockInitInv, LockStepInv, PTL DEF LockSpec

\* For every set of operations: only two simultaneous comparisons of one file
\* in removeSnapshot break the exclusion of the lock
\* (createWorkspaceMutationLease, createMaintenanceLock).
THEOREM LocksSerialize == LockSpec => []SerializedUnlessRaced
<1>1. ASSUME LockInv PROVE SerializedUnlessRaced
  <2>1. SUFFICES ASSUME ~raced PROVE Serialized
    BY DEF SerializedUnlessRaced
  <2>2. \A p \in Mutating : file # None /\ file.owner = p
    BY <1>1, <2>1, LockAssumption DEF LockInv, HoldInv, Mutating, LockTypeOK
  <2>3. Mutating \subseteq {file.owner}
    BY <2>2
  <2>4. IsFiniteSet({file.owner}) /\ Cardinality({file.owner}) = 1
    BY FS_Singleton, Zenon
  <2>5. Cardinality(Mutating) <= 1
    BY <2>3, <2>4, FS_Subset
  <2>6. QED
    BY <2>5 DEF Serialized
<1>2. QED
  BY <1>1, LocksInvariant, PTL

\* For every set of worker threads: a supervisor that is done leaves no lease
\* that looks like one to be released (runMarketplaceEnableWorker, cancel).
THEOREM LocksRetain == LockSpec => []AbnormalEndRetained
<1>1. ASSUME LockInv PROVE AbnormalEndRetained
  BY <1>1, LockAssumption DEF LockInv, SupInv, AbnormalEndRetained
<1>2. QED
  BY <1>1, LocksInvariant, PTL

\* For every set of operations: a lease that needs the host stays at the path until
\* its Box ends, except for an unlink whose comparison was of what the file was
\* before (inspectWorkspaceStartLock, releaseWorkspaceStartLock, removeSnapshot).
THEOREM LocksKeepRecovery == LockSpec => RecoveryKept
<1>1. ASSUME LockInv, [LockNext]_lockVars, NeedsHost, file' # file
      PROVE  \/ box' # box
             \/ file' # None /\ file'.owner = file.owner
             \/ \E p \in Op : Overtaken(p) /\ pc'[p] # pc[p]
  <2>1. LockTypeOK /\ file # None /\ kind = "lease"
    BY <1>1 DEF LockInv, NeedsHost
  <2>2. ASSUME NEW p \in Op, Unlink(p)
        PROVE  Overtaken(p) /\ pc'[p] # pc[p]
    <3>1. pc[p] = "unlink" /\ SnapInv(p)
      BY <1>1, <2>2 DEF Unlink, LockInv
    <3>2. Over(p)
      BY <2>1, <2>2, TypeParts, InactiveOver, Zenon DEF Unlink
    <3>3. pc'[p] # pc[p]
      BY <3>1, <3>2 DEF Over
    <3>4. SUFFICES ASSUME snap[p][2] = file PROVE FALSE
      BY <3>1, <3>3, Zenon DEF Overtaken
    <3>5. CASE why[p] = "release"
      <4>1. file.body # "recover" /\ file.owner = p
        BY <2>1, <3>1, <3>4, <3>5, Zenon DEF SnapInv, Removing
      <4>2. Running(p)
        BY <3>1 DEF Running
      <4>3. QED
        BY <1>1, <4>1, <4>2 DEF NeedsHost
    <3>6. CASE why[p] # "release"
      <4>1. Stale(snap[p])
        BY <3>1, <3>6, Zenon DEF SnapInv, Removing
      <4>2. file.owner \notin Supervised
        BY <2>1, <3>4, <4>1, Zenon DEF Stale
      <4>3. QED
        BY <1>1, <2>1, <4>2 DEF LockInv, FileInv, NeedsHost
    <3>7. QED
      BY <3>5, <3>6
  <2>3. ASSUME NEW p \in Op, Write(p) \/ Truncate(p) \/ MarkRecovery(p)
        PROVE  file' # None /\ file'.owner = file.owner
    BY <2>1, <2>3, BodyFacts, ZenonT(30) DEF Write, Truncate, MarkRecovery
  <2>4. ASSUME NEW p \in Op, OpStep(p) \/ Release(p),
               ~(Unlink(p) \/ Write(p) \/ Truncate(p) \/ MarkRecovery(p))
        PROVE  FALSE
    BY <1>1, <2>1, <2>4, Zenon DEF OpStep, Begin, Lstat, Read, Judge, JudgeRelease, Relstat,
       Reread, Exists, Retry, TimedOut, Create, Abort, CheckLease, Terminated, Exit, Release,
       FileKept
  <2>5. ASSUME LoseBox \/ StopBox PROVE box' # box
    BY <2>1, <2>5, SMTT(30) DEF LoseBox, StopBox, AllEnd, LockTypeOK
  <2>6. QED
    BY <1>1, <2>2, <2>3, <2>4, <2>5 DEF LockNext, lockVars
<1>2. LockInv /\ [LockNext]_lockVars
         => [NeedsHost /\ file' # file =>
                \/ box' # box
                \/ file' # None /\ file'.owner = file.owner
                \/ \E p \in Op : Overtaken(p) /\ pc'[p] # pc[p]]_lockVars
  BY <1>1
<1>3. QED
  BY <1>2, LocksInvariant, PTL DEF LockSpec, RecoveryKept
=============================================================================

------------------------------ MODULE TaskQueue ------------------------------
(***************************************************************************)
(* The asynchronous task queue of an agent (Agent/server/TaskQueue.mjs)    *)
(* with the shell executor AgentServer.mjs gives it.                       *)
(*                                                                         *)
(* One action is one macrotask of the event loop: an HTTP handler, a timer *)
(* callback, a child-process event or a file-system completion, together   *)
(* with the promise continuations that run before the next one. So a task  *)
(* that ends leaves `running` in the same action, and `activeChildren`     *)
(* always equals `running` (onSpawn is called synchronously by startTask). *)
(*                                                                         *)
(* Task ids are never reused (generateId is random). Tool names, payloads, *)
(* logs and results are left out; ages are left out too, so retention may  *)
(* drop any terminal tasks.                                                *)
(***************************************************************************)
EXTENDS Integers, Sequences, FiniteSets

CONSTANTS
    Task,           \* the ids enqueueTask may generate
    MaxConcurrent,  \* constructor option maxConcurrent
    MaxTerminal,    \* constructor option maxTerminalTasks
    Aging,          \* whether terminalRetentionMs may pass
    MaxCrashes,     \* bound: crashes of the agent process
    MaxWriteErrors  \* bound: failed writes of the queue file

ASSUME MaxConcurrentAssumption == MaxConcurrent \in Nat \ {0}
ASSUME MaxTerminalAssumption == MaxTerminal \in Nat \ {0}
ASSUME BoundAssumption == MaxCrashes \in Nat /\ MaxWriteErrors \in Nat /\ Aging \in BOOLEAN

VARIABLES
    status,     \* tasks: id -> status, "absent" when the map has no entry
    cancelReq,  \* task.cancelRequested
    pending,    \* the FIFO of pending ids
    running,    \* the ids being executed
    exec,       \* where executeTask is: awaiting the executor or the cleanup
    timedOut,   \* the timedOut local of executeTask
    cleanup,    \* the process-group cleanup started by a cancellation
    failures,   \* cancellationFailures
    shut,       \* shutdown: "no", polling, flushing, or its outcome
    dirty,      \* persistDirty
    timer,      \* persistTimer is armed
    write,      \* persistWrite: the snapshot in flight and who awaits it
    disk,       \* the queue file: id -> status
    saved,      \* the queue file exists
    proc,       \* the process group of a task's command
    spawns,     \* how often a task's command was spawned
    rejected,   \* the executor of a cancelled task rejected after the spawn
    used,       \* ids already generated
    up,         \* the agent process runs
    crashes, writeErrors

memory == <<status, cancelReq, pending, running, exec, timedOut, cleanup, failures, shut>>
persist == <<dirty, timer, write>>
file == <<disk, saved>>
world == <<proc, spawns, rejected, used>>
env == <<up, crashes, writeErrors>>
vars == <<memory, persist, file, world, env>>

Terminal == {"completed", "failed", "cancelled"}
Live == {"pending", "running", "cancelling"}
Status == {"absent"} \union Live \union Terminal
NoTasks == [t \in Task |-> "absent"]
Idle == [by |-> "nobody", snap |-> NoTasks]

TypeOK ==
    /\ status \in [Task -> Status] /\ disk \in [Task -> Status]
    /\ cancelReq \in [Task -> BOOLEAN] /\ timedOut \in [Task -> BOOLEAN]
    /\ pending \in Seq(Task)
    /\ running \subseteq Task /\ failures \subseteq Task
    /\ exec \in [Task -> {"none", "running", "draining"}]
    /\ cleanup \in [Task -> {"none", "term", "kill", "done", "failed"}]
    /\ shut \in {"no", "draining", "flushing", "drained", "failed"}
    /\ dirty \in BOOLEAN /\ timer \in BOOLEAN /\ saved \in BOOLEAN /\ up \in BOOLEAN
    /\ write \in [by : {"nobody", "timer", "flush"}, snap : [Task -> Status]]
    /\ proc \in [Task -> {"none", "nopid", "leader", "orphans", "gone"}]
    /\ spawns \in [Task -> Nat]
    /\ rejected \in [Task -> BOOLEAN] /\ used \subseteq Task
    /\ crashes \in 0..MaxCrashes /\ writeErrors \in 0..MaxWriteErrors

Init ==
    /\ status = NoTasks /\ disk = NoTasks
    /\ cancelReq = [t \in Task |-> FALSE] /\ timedOut = [t \in Task |-> FALSE]
    /\ pending = <<>> /\ running = {} /\ failures = {}
    /\ exec = [t \in Task |-> "none"] /\ cleanup = [t \in Task |-> "none"]
    /\ shut = "no"
    /\ dirty = FALSE /\ timer = FALSE /\ write = Idle /\ saved = FALSE
    /\ proc = [t \in Task |-> "none"] /\ spawns = [t \in Task |-> 0]
    /\ rejected = [t \in Task |-> FALSE] /\ used = {}
    /\ up = TRUE /\ crashes = 0 /\ writeErrors = 0

(***************************************************************************)
(* Persistence: one debounced, superseding write at a time.                *)
(***************************************************************************)
Writing == write.by # "nobody"

\* Mutant: a change made while a write is in flight is not recorded.
PersistTasksUnlessWriting ==
    IF Writing THEN UNCHANGED persist ELSE dirty' = TRUE /\ timer' = TRUE /\ UNCHANGED write

\* persistTasks, with armPersistTimer.
PersistTasks ==
    /\ dirty' = TRUE
    /\ timer' = (timer \/ ~Writing)
    /\ UNCHANGED write

\* pruneTerminalTasks: of the terminal tasks only the newest maxTerminalTasks stay,
\* and of those only the ones within the retention period.
Prunable == {dropped \in SUBSET {t \in Task : status[t] \in Terminal /\ t \notin running} :
    LET over == Cardinality({t \in Task : status[t] \in Terminal /\ t \notin running})
                    - MaxTerminal
    IN  Cardinality(dropped) >= over
        /\ (~Aging => Cardinality(dropped) = IF over > 0 THEN over ELSE 0)}

\* startPersistWrite, with writeSnapshot's prune: the snapshot is taken now, and it
\* supersedes any armed timer.
StartPersistWrite(by) ==
    \E dropped \in Prunable :
        LET kept == [t \in Task |-> IF t \in dropped THEN "absent" ELSE status[t]]
        IN  /\ status' = kept
            /\ dirty' = FALSE /\ timer' = FALSE
            /\ write' = [by |-> by, snap |-> kept]

\* Mutant: the flush does not wait for the write it needs.
FlushPersistOnce(isDirty) ==
    shut' = "drained" /\ UNCHANGED <<status, persist>>

\* flushPersist's loop from a point where no write is in flight.
FlushPersist(isDirty) ==
    \/ /\ isDirty
       /\ StartPersistWrite("flush") /\ shut' = "flushing"
    \/ /\ ~isDirty
       /\ shut' = "drained" /\ dirty' = FALSE /\ timer' = FALSE /\ write' = Idle
       /\ UNCHANGED status

\* The debounce timer fires.
PersistTimer ==
    /\ up /\ timer
    /\ IF Writing \/ ~dirty
       THEN timer' = FALSE /\ UNCHANGED <<status, dirty, write>>
       ELSE StartPersistWrite("timer")
    /\ UNCHANGED <<cancelReq, pending, running, exec, timedOut, cleanup, failures, shut,
                   file, world, env>>

\* Mutant: a background write does not re-arm the timer.
RearmedNever(ok) == timer

\* The reaction of the timer's own write: armPersistTimer unless it failed.
Rearmed(ok) == timer \/ (ok /\ dirty)

\* A write ends. The promise reactions run in order: persistWrite is cleared, a
\* timer's write re-arms the timer unless it failed, and a flush that waits for
\* the write goes round its loop, or throws when its own write failed.
WriteDone(ok) ==
    /\ up /\ Writing
    /\ IF ok THEN disk' = write.snap /\ saved' = TRUE /\ UNCHANGED writeErrors
             ELSE /\ writeErrors < MaxWriteErrors /\ writeErrors' = writeErrors + 1
                  /\ UNCHANGED file
    /\ \/ /\ shut # "flushing"
          /\ write' = Idle
          /\ dirty' = (dirty \/ ~ok)
          /\ timer' = Rearmed(ok)
          /\ UNCHANGED <<status, shut>>
       \/ /\ shut = "flushing" /\ (ok \/ write.by = "timer")
          /\ FlushPersist(dirty \/ ~ok)
       \/ /\ shut = "flushing" /\ ~ok /\ write.by = "flush"
          /\ shut' = "failed" /\ write' = Idle /\ dirty' = TRUE
          /\ UNCHANGED <<status, timer>>
    /\ UNCHANGED <<cancelReq, pending, running, exec, timedOut, cleanup, failures,
                   world, up, crashes>>

(***************************************************************************)
(* Running tasks.                                                          *)
(***************************************************************************)
\* Mutant: one slot is never used.
RoomOneShort(run, stopping) ==
    IF stopping THEN 0 ELSE MaxConcurrent - Cardinality(run) - 1

\* The free slots of processQueue; none once shutdown has begun.
Room(run, stopping) == IF stopping THEN 0 ELSE MaxConcurrent - Cardinality(run)

\* processQueue applied to the statuses st, the queue pend and the running set
\* run. Each started task is spawned at once; the spawn may yield no pid.
ProcessQueue(st, pend, run, stopping) ==
    LET room == Room(run, stopping)
        n == IF room < Len(pend) THEN room ELSE Len(pend)
        started == {t \in {pend[i] : i \in 1..n} : st[t] = "pending"}
    IN  /\ pending' = SubSeq(pend, n + 1, Len(pend))
        /\ running' = run \union started
        /\ status' = [t \in Task |-> IF t \in started THEN "running" ELSE st[t]]
        /\ exec' = [t \in Task |-> IF t \in started THEN "running"
                                   ELSE IF t \in run THEN exec[t] ELSE "none"]
        /\ spawns' = [t \in Task |-> IF t \in started THEN spawns[t] + 1 ELSE spawns[t]]
        /\ \E pid \in SUBSET started :
               proc' = [t \in Task |-> IF t \in pid THEN "leader"
                                       ELSE IF t \in started THEN "nopid" ELSE proc[t]]

EnqueueTask(t) ==
    /\ up /\ shut = "no" /\ t \notin used
    /\ used' = used \union {t}
    /\ ProcessQueue([status EXCEPT ![t] = "pending"], Append(pending, t), running, FALSE)
    /\ PersistTasks
    /\ UNCHANGED <<cancelReq, timedOut, cleanup, failures, shut, file, rejected, env>>

\* The end of executeTask and of startTask's promise: the outcome is stored, the
\* slot is freed, the change is persisted and the queue is processed.
Finish(t, outcome) ==
    /\ ProcessQueue([status EXCEPT ![t] = outcome], pending, running \ {t}, shut # "no")
    /\ PersistTasks
    /\ timedOut' = [timedOut EXCEPT ![t] = FALSE]
    /\ UNCHANGED <<cancelReq, shut, file, used, env>>

\* Mutant: the exit code decides even when the task was cancelled.
OutcomesIgnoringCancel(t) ==
    IF timedOut[t] THEN {"failed"} ELSE Terminal

\* What executeTask may report once the executor and the cleanup have settled: a
\* cancelled task is cancelled, or failed when its group did not drain; else a
\* timeout, the exit code and the result's taskStatus decide.
Outcomes(t) ==
    IF cancelReq[t] THEN IF cleanup[t] = "failed" THEN {"failed"} ELSE {"cancelled"}
    ELSE IF timedOut[t] THEN {"failed"} ELSE Terminal

\* 'close' of the child: the leader has exited and its output has ended. A
\* cancelled task first awaits the cleanup of its process group.
ExecutorResolves(t) ==
    /\ up /\ exec[t] = "running" /\ proc[t] \in {"orphans", "gone"}
    /\ \/ /\ cancelReq[t] /\ cleanup[t] \in {"term", "kill"}
          /\ exec' = [exec EXCEPT ![t] = "draining"]
          /\ UNCHANGED <<status, cancelReq, pending, running, timedOut, failures, shut,
                         persist, file, world, env>>
       \/ /\ ~(cancelReq[t] /\ cleanup[t] \in {"term", "kill"})
          /\ \E outcome \in Outcomes(t) : Finish(t, outcome)
          /\ failures' = IF cancelReq[t] /\ cleanup[t] = "failed" THEN failures \union {t}
                         ELSE failures
          /\ UNCHANGED rejected
    /\ UNCHANGED cleanup

\* 'error' of the child (it could not be spawned or signalled) or of its stdin
\* (any error but EPIPE). The cleanup of a cancelled task is not awaited here.
ExecutorRejects(t) ==
    /\ up /\ exec[t] = "running"
    /\ Finish(t, IF cancelReq[t] THEN "cancelled" ELSE "failed")
    /\ rejected' = [rejected EXCEPT ![t] = cancelReq[t] /\ proc[t] # "nopid"]
    /\ UNCHANGED <<failures, cleanup>>

\* The task's timeout: the group gets SIGKILL and the executor is still awaited.
\* (On a cancelled task timedOut is never read, so that case is left out.)
TaskTimeout(t) ==
    /\ up /\ exec[t] = "running" /\ ~cancelReq[t]
    /\ timedOut' = [timedOut EXCEPT ![t] = TRUE]
    /\ UNCHANGED <<status, cancelReq, pending, running, exec, cleanup, failures, shut,
                   persist, file, world, env>>

\* A control record on stderr changes the task's details or continuation.
OnControl(t) ==
    /\ up /\ exec[t] = "running" /\ proc[t] # "nopid"
    /\ PersistTasks
    /\ UNCHANGED <<memory, file, world, env>>

(***************************************************************************)
(* Cancellation and shutdown.                                              *)
(***************************************************************************)
\* Mutant: the group is signalled and then forgotten.
RequestCancellationUntracked(ts) == UNCHANGED cleanup

\* requestRunningTaskCancellation for the running tasks in ts: SIGTERM to the
\* group, then a cleanup that waits for its absence. Without a pid there is none.
RequestCancellation(ts) ==
    cleanup' = [t \in Task |-> IF t \in ts /\ cleanup[t] = "none" /\ proc[t] # "nopid"
                               THEN "term" ELSE cleanup[t]]

\* cancelTask's filter of the FIFO, which holds an id at most once.
Without(seq, t) ==
    LET i == CHOOSE k \in 1..Len(seq) : seq[k] = t
    IN  SubSeq(seq, 1, i - 1) \o SubSeq(seq, i + 1, Len(seq))

\* Mutant: a task that has ended can be cancelled.
CancellableAnyway(t) == status[t] # "absent"

Cancellable(t) == status[t] \in Live

CancelTask(t) ==
    /\ up /\ Cancellable(t)
    /\ cancelReq' = [cancelReq EXCEPT ![t] = TRUE]
    /\ \/ /\ status[t] = "pending"
          /\ ProcessQueue([status EXCEPT ![t] = "cancelled"], Without(pending, t), running,
                          shut # "no")
          /\ UNCHANGED cleanup
       \/ /\ status[t] # "pending"
          /\ status' = [status EXCEPT ![t] = "cancelling"]
          /\ RequestCancellation({t})
          /\ UNCHANGED <<pending, running, exec, proc, spawns>>
    /\ PersistTasks
    /\ UNCHANGED <<timedOut, failures, shut, file, rejected, used, env>>

\* The cleanup sees the group absent; an executeTask that awaits it goes on.
CleanupAbsent(t) ==
    /\ up /\ cleanup[t] \in {"term", "kill"} /\ proc[t] = "gone"
    /\ cleanup' = [cleanup EXCEPT ![t] = "done"]
    /\ \/ /\ exec[t] = "draining"
          /\ Finish(t, "cancelled") /\ UNCHANGED <<failures, rejected>>
       \/ /\ exec[t] # "draining"
          /\ UNCHANGED <<status, cancelReq, pending, running, exec, timedOut, failures, shut,
                         persist, file, world, env>>

\* The grace period ends with the group still there: SIGKILL, and a second wait.
CleanupKill(t) ==
    /\ up /\ cleanup[t] = "term" /\ proc[t] # "gone"
    /\ cleanup' = [cleanup EXCEPT ![t] = "kill"]
    /\ UNCHANGED <<status, cancelReq, pending, running, exec, timedOut, failures, shut,
                   persist, file, world, env>>

\* The group survives SIGKILL for another grace period, or cannot be signalled.
CleanupFails(t) ==
    /\ up /\ cleanup[t] \in {"term", "kill"} /\ proc[t] # "gone"
    /\ cleanup' = [cleanup EXCEPT ![t] = "failed"]
    /\ \/ /\ exec[t] = "draining"
          /\ Finish(t, "failed") /\ failures' = failures \union {t} /\ UNCHANGED rejected
       \/ /\ exec[t] # "draining"
          /\ UNCHANGED <<status, cancelReq, pending, running, exec, timedOut, failures, shut,
                         persist, file, world, env>>

\* shutdown: no more work is admitted and every unfinished task is cancelled.
Shutdown ==
    /\ up /\ shut = "no"
    /\ shut' = "draining"
    /\ LET queued == {pending[i] : i \in 1..Len(pending)}
       IN  /\ cancelReq' = [t \in Task |-> cancelReq[t] \/ t \in queued \union running]
           /\ status' = [t \in Task |-> IF t \in queued THEN "cancelled"
                                        ELSE IF t \in running THEN "cancelling"
                                        ELSE status[t]]
    /\ pending' = <<>>
    /\ RequestCancellation(running)
    /\ PersistTasks
    /\ UNCHANGED <<running, exec, timedOut, failures, file, world, env>>

\* One round of the drain loop; when the queue is empty it goes on to the flush.
ShutdownPoll ==
    /\ up /\ shut = "draining"
    /\ \/ /\ failures # {}
          /\ shut' = "failed" /\ UNCHANGED <<status, persist>>
       \/ /\ failures = {} /\ running = {} /\ Writing
          /\ shut' = "flushing" /\ timer' = FALSE /\ UNCHANGED <<status, dirty, write>>
       \/ /\ failures = {} /\ running = {} /\ ~Writing
          /\ FlushPersist(dirty)
    /\ UNCHANGED <<cancelReq, pending, running, exec, timedOut, cleanup, failures,
                   file, world, env>>

\* Mutant: the drain loop has no deadline.
ShutdownTimeoutNever == FALSE /\ UNCHANGED vars

\* The drain loop's deadline.
ShutdownTimeout ==
    /\ up /\ shut = "draining" /\ running # {}
    /\ shut' = "failed"
    /\ UNCHANGED <<status, cancelReq, pending, running, exec, timedOut, cleanup, failures,
                   persist, file, world, env>>

(***************************************************************************)
(* The world: process groups, crashes and restarts.                        *)
(***************************************************************************)
\* The leader exits, and its group may outlive it (external).
LeaderExits(t) ==
    /\ proc[t] = "leader"
    /\ \E left \in {"orphans", "gone"} : proc' = [proc EXCEPT ![t] = left]
    /\ UNCHANGED <<memory, persist, file, spawns, rejected, used, env>>

OrphansExit(t) ==
    /\ proc[t] = "orphans"
    /\ proc' = [proc EXCEPT ![t] = "gone"]
    /\ UNCHANGED <<memory, persist, file, spawns, rejected, used, env>>

\* The agent process ends. A write in flight may or may not have renamed its
\* file into place; the detached process groups live on.
Crash ==
    /\ up /\ crashes < MaxCrashes
    /\ up' = FALSE /\ crashes' = crashes + 1
    /\ \/ UNCHANGED file
       \/ Writing /\ disk' = write.snap /\ saved' = TRUE
    /\ status' = NoTasks /\ pending' = <<>> /\ running' = {} /\ failures' = {}
    /\ cancelReq' = [t \in Task |-> FALSE] /\ timedOut' = [t \in Task |-> FALSE]
    /\ exec' = [t \in Task |-> "none"] /\ cleanup' = [t \in Task |-> "none"]
    /\ shut' = "no" /\ dirty' = FALSE /\ timer' = FALSE /\ write' = Idle
    /\ UNCHANGED <<world, writeErrors>>

\* Mutant: outcomes are overwritten.
RestoredAllFailed(st) == IF st = "absent" THEN st ELSE "failed"

\* What initialize makes of a persisted status: nothing restored runs again.
Restored(st) ==
    IF st = "cancelling" THEN "cancelled"
    ELSE IF st \in {"pending", "running"} THEN "failed" ELSE st

\* Mutant: initialize queues interrupted tasks again.
InitializeRequeueing ==
    /\ ~up /\ up' = TRUE
    /\ status' = [t \in Task |-> IF disk[t] = "running" THEN "pending" ELSE disk[t]]
    /\ pending' = IF \E t \in Task : disk[t] = "running"
                  THEN <<CHOOSE t \in Task : disk[t] = "running">> ELSE <<>>
    /\ dirty' = saved /\ timer' = saved
    /\ UNCHANGED <<cancelReq, running, exec, timedOut, cleanup, failures, shut,
                   write, file, world, crashes, writeErrors>>

\* initialize, with restoreFromDisk; an existing file is rewritten.
Initialize ==
    /\ ~up /\ up' = TRUE
    /\ status' = [t \in Task |-> Restored(disk[t])]
    /\ dirty' = saved /\ timer' = saved
    /\ UNCHANGED <<cancelReq, pending, running, exec, timedOut, cleanup, failures, shut,
                   write, file, world, crashes, writeErrors>>

Next ==
    \/ \E t \in Task :
          \/ EnqueueTask(t) \/ CancelTask(t) \/ ExecutorResolves(t) \/ ExecutorRejects(t)
          \/ TaskTimeout(t) \/ OnControl(t)
          \/ CleanupAbsent(t) \/ CleanupKill(t) \/ CleanupFails(t)
          \/ LeaderExits(t) \/ OrphansExit(t)
    \/ PersistTimer \/ \E ok \in BOOLEAN : WriteDone(ok)
    \/ Shutdown \/ ShutdownPoll \/ ShutdownTimeout
    \/ Crash \/ Initialize

Spec == Init /\ [][Next]_vars

(***************************************************************************)
(* Safety.                                                                 *)
(***************************************************************************)
\* processQueue never runs more than maxConcurrent tasks, however cancellations,
\* completions and enqueues interleave.
ConcurrencyBound == Cardinality(running) <= MaxConcurrent

\* No lost wake-up: while the queue admits work, a task waits in `pending` only
\* because every slot is taken (each path that frees a slot calls processQueue).
NoStrandedTask ==
    up /\ shut = "no" /\ pending # <<>> => Cardinality(running) = MaxConcurrent

\* The map of statuses, the FIFO, the running set and executeTask tell one story:
\* a task is in the FIFO, once, exactly while it is pending, and has an executor
\* in flight exactly while it is running or cancelling.
Bookkeeping ==
    \A t \in Task :
        /\ status[t] = "pending" <=> \E i \in 1..Len(pending) : pending[i] = t
        /\ status[t] \in {"running", "cancelling"} <=> t \in running
        /\ t \in running <=> exec[t] # "none"
        /\ \A i, j \in 1..Len(pending) : pending[i] = pending[j] => i = j

\* "restored tasks never run again": over any number of crashes and restarts a
\* task's command is spawned at most once.
SpawnedAtMostOnce == \A t \in Task : spawns[t] <= 1

\* A task whose cancellation was accepted is never reported completed, even when
\* its command exits with 0 before the signal reaches it.
CancelWins == \A t \in Task : cancelReq[t] => status[t] # "completed"

\* The one in-flight write, the dirty flag and the debounce timer together lose no
\* change: a queue that is not dirty is what the file holds or is being written,
\* and a dirty one has a timer or a write ahead of it unless a write failed.
NoLostChange ==
    up => /\ ~dirty => status = IF Writing THEN write.snap ELSE disk
          /\ dirty => timer \/ Writing \/ writeErrors > 0

\* shutdown reports `drained` only when every task has ended, the file holds
\* exactly the queue, and neither a timer nor a write can touch it afterwards.
DrainedIsDurable ==
    shut = "drained" =>
        /\ running = {} /\ pending = <<>> /\ ~timer /\ ~Writing /\ ~dirty
        /\ disk = status /\ \A t \in Task : disk[t] \in Terminal \union {"absent"}

\* Unless its executor rejected, a task reported cancelled after it was started
\* has no process left in its group (executeTask awaits the group cleanup).
CancelledGroupGone ==
    \A t \in Task : cancelReq[t] /\ status[t] = "cancelled" /\ ~rejected[t]
                       => proc[t] \in {"none", "nopid", "gone"}

\* The comment of requestRunningTaskCancellation: shutdown does not acknowledge
\* before the process group of every task it cancelled is absent.
DrainedGroupsGone ==
    shut = "drained" => \A t \in Task : cancelReq[t] => proc[t] \in {"none", "nopid", "gone"}

\* A task that ended keeps its outcome for as long as the process lives; only
\* retention may remove it.
OutcomeStable ==
    [][\A t \in Task : up /\ up' /\ status[t] \in Terminal
                          => status'[t] \in {status[t], "absent"}]_vars

\* An outcome that reached the file is never replaced by another one, whatever
\* crashes, restarts and rewrites follow.
DurableOutcome ==
    [][\A t \in Task : disk[t] \in Terminal => disk'[t] \in {disk[t], "absent"}]_vars

(***************************************************************************)
(* Liveness. Timers fire, file-system calls complete and child events are  *)
(* delivered; a command may still run for ever and files may fail.         *)
(***************************************************************************)
Fairness ==
    /\ WF_vars(PersistTimer) /\ WF_vars(\E ok \in BOOLEAN : WriteDone(ok))
    /\ WF_vars(ShutdownPoll) /\ WF_vars(ShutdownTimeout) /\ WF_vars(Initialize)
    /\ \A t \in Task :
          /\ WF_vars(proc[t] = "gone" /\ ExecutorResolves(t))
          /\ WF_vars(proc[t] = "nopid" /\ ExecutorRejects(t))
          /\ WF_vars(CleanupAbsent(t) \/ CleanupKill(t) \/ CleanupFails(t))

FairSpec == Spec /\ Fairness

\* A shutdown always settles, even when a command ignores every signal.
ShutdownSettles ==
    shut \in {"draining", "flushing"} ~> shut \in {"drained", "failed"} \/ ~up

\* If every command eventually leaves no process behind, every accepted task
\* ends: it is never forgotten in the FIFO or in `running`.
EveryTaskEnds ==
    <>[](\A t \in Task : proc[t] \notin {"leader", "orphans"})
        => \A t \in Task : status[t] \in Live ~> status[t] \notin Live

\* While writes succeed, every change reaches the file.
ChangesReachFile == MaxWriteErrors = 0 => (dirty ~> ~dirty)
=============================================================================

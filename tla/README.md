# TLA+ specifications of Ploinky

Ploinky runs AI agents as containers behind a local Router. This project models
the parts of it in which several things happen at once, checks the models with
TLC and proves the invariants that matter most with TLAPS. `PROJECT.json` lists
every component, run, mutant, hazard and theorem, and maps each definition to
the lines it models. Paths below are relative to the repository.

## The system and its parts

| part | where | modelled by |
| --- | --- | --- |
| **Agent process** | | |
| asynchronous task queue and its shell executor | `Agent/server/TaskQueue.mjs`, `executeShell` of `AgentServer.mjs` | `TaskQueue` |
| warm tool workers and their runtime | `Agent/server/toolWorkerPool.mjs`, `Agent/lib/toolWorker.mjs` | `ToolWorkerPool` |
| tool code identity, schema cache | `Agent/server/toolCodeIdentity.mjs` | as a version number in `ToolWorkerPool` |
| MCP tool and resource registration, HTTP sessions | `Agent/server/AgentServer.mjs` | no |
| invocation auth, replay caches, runtime relay, clients | `Agent/lib/`, `Agent/client/` | no |
| **Router** | | |
| watchdog | `cli/server/Watchdog.js` | `Watchdog` |
| signal handling of the Router | `cli/server/utils/processLifecycle.js` | its exits, in `Watchdog` |
| upstream MCP session pool and proxy | `cli/server/mcp-proxy/upstreamSessionPool.js`, `withPool` of `index.js` | `UpstreamSessionPool` |
| container monitor | `cli/server/containerMonitor.js` | its inspection of the lease, in `MaintenanceLocks` |
| marketplace worker threads | `cli/server/marketplaceEnableWorker.js`, `marketplaceRepositorySupervisor.mjs` | how they are stopped, in `MaintenanceLocks` |
| relay manager, uploads and blobs | `cli/server/runtimeRelay/`, `cli/server/handlers/` | no |
| route plans, access policy, authentication, web terminal, web chat | `cli/server/` | no |
| **Command line** | | |
| workspace mutation lease, maintenance locks | `cli/utils/runtime/maintenanceLocks.js` | `MaintenanceLocks` |
| dependency object store, receipts, collector | `cli/utils/dependencies/store/` | `DependencyStore` |
| launch of an agent's service | `cli/sandbox/docker/agentServiceManager.js`, `cli/sandbox/bwrap/bwrapServiceManager.js` | the order of its steps, in `DependencyStore` |
| edge generations | `cli/sandbox/edgeGeneration.js` | their activation, in `UpstreamSessionPool` |
| no-wait worker, skill export, hardware limits store | `cli/commands/noWaitWorker.js`, `cli/utils/`, `cli/sandbox/hardwareLimits/` | no |
| networks, container arguments, start orchestration, repositories, secrets, checkout lock | `cli/` | no |
| **Outer container (Box)** | | |
| workspace mutation lock and `ploinky unlock` | `ploinky-box/locks.mjs`, `lockFiles.mjs`, `lockLiveness.mjs`, `unlock.mjs` | `WorkspaceLock`, `Mutex` |
| supervisor and replacement transactions, tunnel publication | `ploinky-box/lifecycle/transactions.mjs`, `ploinky-box/cloudflared/` | no |
| hardware and GPU transitions, update, diagnosis, image contract | `ploinky-box/` | no |

How they interact: a command takes the workspace lock before it changes the
workspace and starts the watchdog, which spawns the Router. Inside the Box every
operation that changes the workspace, the worker threads of the Router included,
holds the mutation lease. Under it a command builds an agent's dependencies into
the object store, starts its service and collects objects that are no longer
needed. The Router forwards MCP requests to agents over pooled sessions. An
agent runs a synchronous tool in the tool worker pool (or as a fresh process)
and an asynchronous one in the task queue; at its own shutdown it closes the
pools and then drains the queue. A workspace start holds a lock file that defers
the watchdog's health restarts.

## Modules

Each specification has an `MC` module that adds a symmetry set, one or more
`.cfg` files, and, where there are theorems, proof modules that end in a
`Proofs` module. Operators that a comment calls a mutant are wrong variants of
the definition below them; no specification uses them, and they show that a
property notices such a change.

### TaskQueue

One action is one macrotask of Node's event loop with the promise continuations
that follow it, so `startTask`, which runs synchronously up to the executor's
first await, is a part of the action that frees a slot (`ProcessQueue`).

State: `status`, `cancelReq`, `pending`, `running`, `timedOut` and `failures`
are the maps and flags of the class. `exec` says what `executeTask` awaits, and
`cleanup` is the process-group cleanup that a cancellation starts.
`dirty`, `timer` and `write` are the debounced persistence and `disk` the queue
file. `proc` is the process group of a command: its leader runs, only
descendants are left, it is gone, or it never got a pid.

Actions: `EnqueueTask`, `ExecutorResolves`, `ExecutorRejects`, `TaskTimeout`,
`OnControl` (records on the control pipe), `CancelTask`, `CleanupAbsent`,
`CleanupKill`, `CleanupFails`, `PersistTimer`, `WriteDone`, `Shutdown`,
`ShutdownPoll`, `ShutdownTimeout`, `Crash`, `Initialize`, and the steps of the
processes. Retention (`pruneTerminalTasks`) happens inside every write.
Payloads, logs and the contents of results are left out.

### WorkspaceLock and Mutex

Commands share only a directory, so each file-system call is an action and a
command may end between any two (`End`). A lock directory is named by the
command that staged it, which stands for its inode and its owner record.
Actions follow the code: stage, record, publish by `rename`, inspect (stat and
read), wait, take the reclaim guard, classify again under the guard, look for
leftovers, retire the dead lock, remove the guard; hold, verify and release; for
`ploinky unlock` take its own lock, judge the guard, check again, move it aside
and verify what was moved. Liveness of an owner is read from the process table:
a dead owner may look dead or undetermined, a live one live or undetermined.

`Mutex` is what a caller relies on: one holder at a time, and no handover
without a free moment. `WorkspaceLock` implements it with the live commands that
were told they hold the lock as the holders (`MutualExclusion`).

Left out: `--force-holder` (an operator vouches for the holder's death),
relocation or deletion of the workspace, and malformed records.

### Watchdog

One action is one callback. Time is a tick that ages the entries of the restart
history, the uptime and the back-off timer. Health requests are in flight for
the current child or for an earlier one, and answer in any order
(`HealthResult`). The Router exits with any code, hangs, recovers, and reacts to
SIGTERM as `processLifecycle.js` does, or dies of it before its handler is
installed. Counters that are only logged are left out. `starting` is the workspace
start lock: free, held, or held while its inspection fails
(`inspectHealthCheckWorkspaceStart` catches the error and reports no start).

### ToolWorkerPool

The pool's callbacks are actions, and so are the steps of each worker process;
between them are a channel of frames and the output pipes, of which only the end
markers are kept (`out`, `mark`). The two markers of a call are one, the later.
The code identity is a version that grows with every change (the stamps contain
mtime and ctime, so that no identity returns). A walk takes time and may return
any version between its start and its end. `late` holds the queued calls
whose `enqueueSeq` is above that of the walk. A killed process keeps running
until the signal takes effect (`Exits`). A worker whose exit was seen frees its
slot, which a later worker reuses.

Left out: tokens and the handshake beyond its failure, the order in which socket
directories are probed, output bytes, and a synchronous identity hook
(`AgentServer.mjs` supplies the asynchronous one). A fallback is counted as the
one start of its call.

### UpstreamSessionPool

An action is one callback of the Router up to its next await. `pool` holds the
entries, the LRU map, the construction slots, the ready keys and the fallback
keys, and the requests with their retry; the functions of the class are operators
from a pool to a pool. The agents keep sessions (`session`), answer, restart and
collect idle sessions. A promise that is settled and not yet resumed is a state
of its own, so the model has more interleavings than the event loop, never
fewer. A pool key contains the contents of an edge generation and not the number
of its activation, so a later activation may share the key of an earlier one.

Actions: `Start` (`withPool` and `acquire`), the answers to `initialize` and to
its notification, `TakeSlot`, `SlotGranted`, `WaiterTimesOut`, `WaiterRejected`,
the outcomes of a call by failure class (`Answered`, `NotDispatched`,
`BadAnswer`, `PostTimesOut`), the client per call, `SweepIdle`, `Invalidate`,
`DeleteEnds`, `CloseAll`, `CloseReturns`, `Activate`, and the steps of agents.

### MaintenanceLocks

The lock file of the mutation lease, or of one container's maintenance lock
(`kind`), and the operations that take it, each in a process of its own. An
action is one file-system call: `lstat`, `readFile`, the exclusive `open`, the
write, the second comparison of `removeSnapshot` and its `unlink`. A file is
known by its creator. `sup` is the thread that supervises a worker thread and
retains its lease when it had to stop it, by truncating and rewriting the file.
`StopBox` is the host's retirement of a lease after the Box stopped; `LoseBox`
is a Box that ends without that; `Exit` ends a process at any call.

The comparison and the `unlink` of `removeSnapshot` are two calls. If two
processes compare the file of a dead owner before either unlinks it, the second
removes the file of whoever created one in between. Exclusion alone
(`Serialized`) is therefore not an invariant; `raced` records that window and
`SerializedUnlessRaced` says that nothing else breaks it.

Assumed: a process needs less than `LOCK_STALE_GRACE_MS` (five seconds) between
creating or truncating the file and writing it. `renewWorkspaceMutationLease` has
no caller outside tests and is left out.

### DependencyStore

At most one command is active, since it holds the lease, and it may end at any
step (`Crash`) while its installer, its engine client or its service goes on.
State: the object directories (`obj`: live or tombstone, and which of their files
are there), the index, the unusable marks, the receipts of builds, readers and
attachments, the launches of one service, the installers, the registry record
(`admitted`) and the command. Actions follow `ensureGeneration` (`Begin` to
`Publish`), the launch (`WriteReader` to `Admit`), attachments, and
`collectDependencyObjects` with `recoverTombstones` and `removeObject`
(`InspectMounts` to `Collected`); `DeleteSome` is `rmSync` half way.

Two exceptions are part of the properties. A service has one reader receipt per
object, so a launch that its command left behind unrecorded is `eclipsed` once
the receipt speaks of another launch or is released. An installer whose
container comes up only after its command ended is `late`: until then the engine
reports it absent, which `defaultProveBuildQuiescent` takes as proof.

Left out: seeds, rebuild tokens, durable runtime candidates, a change of Box,
corruption from outside, unregistering a service, and the branch of
`publishIndex` for a competing writer, which the lease makes unreachable. An
attachment's sandbox is assumed to end with the process that holds its receipt.
A tombstone without manifest and receipt, and an object put back without its
completion marker and receipt, are kept for ever; this is conservative and no
property speaks of it.

## What the runs check

| run | shows |
| --- | --- |
| `task_queue` | no task waits beside a free slot; a command is spawned at most once, over crashes and restarts too; an accepted cancellation is never turned into a success; a superseding write loses no change; a drained shutdown has everything in the file; a cancelled task leaves no process group (unless its executor rejected); an outcome is never replaced, neither in memory nor in the file |
| `task_queue_liveness` | a shutdown settles even if commands ignore signals, tasks end once their processes do, changes reach the file |
| `task_queue_drain` | finding 1 |
| `workspace_lock` | four commands: there is one live reclaimer at a time, `unlock` moves only the guard it judged, the sweep spares live staging directories, leftovers keep a lock in place, and the protocol implements `Mutex` |
| `watchdog` | there is one Router; a restart pending on health was signalled to the current child; the breaker never trips at the end of a long run; no health restart is decided during a workspace start whose lock can be inspected; an exited Router is replaced or the breaker trips; a shutdown ends |
| `watchdog_breaker` | finding 2 |
| `watchdog_hung` | finding 3 |
| `tool_pool` | a call gets a worker whose code is at least as new as the call; no call is started twice; none waits beside an idle worker, or without any, unless a walk is in flight; live processes are workers, workers are at most `size`, and none is left after a clean shutdown |
| `tool_pool_settles` | once crashes stop, each accepted call settles without its queue timeout; if workers can never start, the pool degrades and its queue runs as fresh processes |
| `session_pool` | a session id is held by one entry until it is deleted, a call in progress keeps its session, a tool call runs at most once over retry and fallback, slots are counted exactly and nobody waits for nothing, the maps keep their bounds, and `closeAll` leaves nothing open |
| `maintenance_locks` | only two simultaneous comparisons of a dead owner's file break the exclusion, the children of stopped worker threads included; a stopped worker's lease asks for the host; a lease that does stays until its Box ends, unless it is hit by an unlink whose comparison was of what the file was before |
| `dependency_store` | readers and installers keep their object, the admitted object stays complete, and a half-deleted object that is put back is in no index |

### Bounds

- `TaskQueue`: two tasks and one slot make every pair of operations compete for
  the slot, the FIFO and the file; one crash, one failing write and retention of
  one terminal task make the persistence paths meet. The proofs remove these
  bounds.
- `WorkspaceLock`: four commands allow a holder, a reclaimer, an `unlock` and a
  newcomer at once. `MaxGuards = 2` lets a command retry its reclaim. The proofs
  hold for every number of commands and guards.
- `Watchdog`: three restarts in a window of four ticks reach the breaker,
  its forgiveness and the capped back-off (1, then 2); two requests in flight let
  an answer overtake another and outlive its child.
- `ToolWorkerPool`: two calls and two workers compete for slots, walks and
  output; two code versions are what staleness needs; one fault loses a call or
  a worker in every state. The proofs remove these bounds. The liveness run has
  one worker and two faults, so that a call is put back and lost a second time,
  and two deaths degrade the pool.
- `UpstreamSessionPool`: two requests (one a tool call) over two routes with one
  entry and one slot make every request evict, wait or fall back; two
  activations and one fault change the key and lose a session at any point.
  The run's two activations select different contents; the same model with a third
  that selects the first contents again, so that activations share a key, passed
  as well (2.9 million states).
- `MaintenanceLocks`: a supervised worker, a command and a monitor over two
  Boxes are a holder, a competitor and an inspector. An instance with a second
  command passed as well (12 million states). The proofs hold for every number.
- `DependencyStore`: two keys, three objects and two launches let a build fail
  and be repeated, and let a service be started again with the same object or
  another one. An instance with three launches passed as well (16 million
  states). The proofs hold for every number.

### Fairness

Only what the runtime guarantees: a timer that stays armed fires, a file-system
call completes, the exit of a process that has ended is reported, and SIGKILL
ends a process. Nothing is assumed of a tool or a command (it may hang or ignore
signals), of a Router (it may hang), of a health request (its response may never
end) or of further calls. `EveryTaskEnds` says in its premise that the processes
of commands end. In `ToolWorkerPool` the timers are the ready, call and grace
timers, the bound of an identity walk and the shutdown deadline; the timeout of
a queued call is not assumed, as the property says that it is not needed. It is
needed if workers crash forever: a worker that ends between its ready frame and
its first call, and whose closed channel is noticed first, is retired by the
pool and so does not count as an unproductive death. `MaxFaults` bounds crashes
in all runs of this module.

CHECK_DEADLOCK is FALSE in all runs: each system may stop for good (all commands
done, an agent shut down, the watchdog exited).

## Findings

1. `task_queue_drain`: `shutdown` can return `drained` while the process group
   of a cancelled task is alive. `executeTask` awaits the cleanup only after the
   executor resolved; if it rejects, the cleanup is dropped. The comment of
   `requestRunningTaskCancellation` says that shutdown cannot acknowledge before
   the group is absent.
2. `watchdog_breaker`: when the circuit breaker trips in `handleProcessExit` the
   watchdog does not exit with code 100 as the comment there says. It stays
   alive without a Router, or ends with code 0 when its event loop is empty.
3. `watchdog_hung`: a health restart sends SIGTERM once and then waits for the
   exit forever. A Router whose event loop hangs is never restarted, contrary to
   `docs/code-derived-agent-lifecycle.md`.

Two properties name an exception that a text of the repository does not make; without
it TLC finds a counterexample.

- `StartNotDisturbed` speaks of starts whose lock can be inspected.
  `docs/architecture.html` says that the watchdog defers a restart while the lock
  is active; if `lockSnapshot` fails with anything but ENOENT, the health check
  goes on and may end the Router during the start.
- `RecoveryKept` excepts an unlink whose comparison was overtaken (`Overtaken`).
  The comment of `retainWorkspaceMutationLeaseForRecovery` says that the lease is
  retained until the host retires it; a release of the worker that compared the
  lease just before it was rewritten unlinks it all the same.

## What is proved

For all values of the constants that satisfy the named assumptions: every safety
property of the runs `task_queue`, `workspace_lock`, `maintenance_locks`,
`dependency_store` and `tool_pool`, and three of the four of `watchdog`.

| Module | Contents |
| --- | --- |
| `TaskQueueInvariant` | the inductive invariant `IInv` (definitions only) |
| `TaskQueueLemmas` | what `processQueue`, an append, a removal and a freed slot leave behind; the initial state; the end of a task, whichever event brings it about; `enqueueTask`, `cancelTask`, `shutdown` |
| `TaskQueueProofs` | pruning, persisting, writing; crash and restart, the whole next-state relation, the theorems |
| `ToolWorkerPoolLemmas` | the invariant `PInv`; what `pump`, settling, retiring and killing leave behind; every step but the end of a walk keeps `PInv` |
| `ToolWorkerPoolProofs` | the end of a walk, which retires workers, hands out the queue and spawns; the theorems |
| `WorkspaceLockProofs` | the invariant `LInv`; acquiring, holding, unlocking, reclaiming; the theorems and the refinement |
| `MaintenanceLocksProofs` | the invariant `LockInv`, one lemma per group of calls, the theorems |
| `DependencyStoreProofs` | the invariant `StoreInv`, one lemma per group of steps, the theorems |
| `WatchdogProofs` | the invariant `WatchInv`, one lemma per group of callbacks, the theorems |

**Task queue.** Assumptions: `MaxConcurrent` and `MaxTerminal` are positive, the
bounds are numbers; `Task` is any set. The inductive invariant `IInv` consists of

- `Consistent`: a task is pending iff it is in the FIFO, once, and running or
  cancelling iff it is in `running`; `running` is finite and within the limit;
- `RunOnce`: a pending task was never spawned and has no process, and an id that
  was not generated has left no trace in memory, in the snapshot in flight or in
  the file;
- `CancelOK`, `CancelledGroupGone`: which cleanup belongs to which cancellation;
- `ShutOK`, `DownOK`: what a shutdown and a crash leave;
- `NoLostChange`, `DrainedIsDurable`, `DurableOK`: file, snapshot and memory
  agree on outcomes, in this order of age, unless retention dropped the task.

The invariants are not inductive one by one: `SpawnedAtMostOnce` needs that a
pending task is fresh, `DurableOutcome` needs what the snapshot in flight holds.
`ProcessQueueStep` is the central lemma: starting tasks from the FIFO keeps
`Consistent` and leaves nobody stranded. `RestartOK` (no queue file, nothing
written; a dead process holds no cancellation) is inductive by itself. The action
properties `OutcomeStable` and `DurableOutcome` follow from `IInv` per action.

**Workspace lock.** Assumption: `None` is neither a command nor a guard. `LInv`
is `TypeOK` with `ReclaimOK` (who is between taking and removing the guard owns
it, and what it saw under the guard cannot change but by the end of a holder),
`UnlockOK` (one unlocker; the guard it judged belongs to a dead command, so its
path cannot change between judgement and move), `StageOK` and `HoldOK` (a live
holder's directory is at the lock's path). `Refinement` shows that every step
maps to a step of `Mutex` or a stutter.

**Maintenance locks.** Assumption: `None` is not a file. An operation creates at
most one file in its life, so a file that left the path never returns, and a
dead process stays dead. `SnapInv` turns this into what a process may conclude
from a snapshot at each call: at the `unlink` the owner of the compared file is
dead, or releases it without having seen a recovery mark (which gives
`RecoveryKept`), and that file is still at the path unless `raced`. `HoldInv` says
that whoever may be changing the workspace, orphaned children included, has its
file at the path, from which the exclusion follows; `SupInv` follows the
supervisor through its two attempts to retain a lease.

**Dependency store.** Assumptions: launches are positive numbers and `None` is
neither a key nor an object. Two things must be related: what somebody counts on
(`Kept`: admitted, attached, or a launch that its receipt covers) and what the
collector has chosen and not yet removed (`Doomed`). `KeptInv` says that the
former is finished, in place and not among the latter; `WriteInv` says the same
of what an installer writes into. They are inductive only with `ReceiptInv` (a
covered launch has a receipt that names it or nobody, so the collector cannot
have proof of its end), `LaunchInv` (the newest launch is the command's own),
`CmdInv` (what a command may rely on at each step: nobody knows of an object
under construction, an object to launch with is finished) and `IndexInv`.

**Watchdog.** `WatchInv` adds to `PendingSignalled` and `OneRouter` that a
watchdog without a child has no Router, that one that is stopping waits for its
child, and that it has killed it before it goes without it.

**Tool worker pool.** Assumptions: `Size`, the limit of deaths and the number of
code versions are positive, `Worker` is finite and `None` is not a call. The
inductive invariant `PInv` consists of

- `WorkersOK`: what the pool may think of a worker whose process is gone or not
  there yet, and what is left once it shuts down; the workers are at most `Size`
  (`Counted` adds that sets of workers are finite, from the assumption);
- `QueueOK`: the FIFO holds queued calls, each once, and the calls that came after
  the walk started are at its end, so the ones a walk may serve are a prefix;
- `CodeOK`: the walk started after every call it may serve was enqueued, and a
  process loaded the code its worker was spawned for, or later code;
- `RunsOK`, `InboxOK`, `SentOK`, `FramesOK`: a call that a process may still start
  (`MayRun`) was not started and is in no second inbox, a call the pool believes
  to be with a worker was started there or nowhere, and the call that an exiting
  worker names is really the last one it started.

`StartedOnce` needs all of the last group: `onWorkerExiting` puts a call back only
because the exit frame does not name it, which is right only if the worker starts
nothing after it sent that frame and no other process has the call. `FreshCode` is
kept by `CompleteWalk` through `CodeOK`, since an eligible worker has the identity
that the walk found. Most steps change one worker, its process and its call;
`SlotStep` and `CallStep` say what such a change may be, and `CallsKept` that it
keeps the last group. `HandedOut` is the lemma about the walk: the calls it sends
and the eligible workers it takes correspond one to one.

**Domains.** The SMT backend of tlapm 1.4.5 evaluates `[f EXCEPT ![a] = e][b]`
without asking whether `f` is a function with `b` in its domain. The proofs do not
lean on this: each inductive invariant contains a type invariant, and a leaf that
reads a function or a record after an update cites it, or a step that states the
domain.

Only model-checked: the liveness properties (fairness is out of the prover's
reach), `LongRunForgives` (it counts what `SelectSeq` keeps, which needs
induction over sequences) and the invariants of `UpstreamSessionPool` (its
operations are compositions of functions from a pool to a pool, one of which
evicts until the map fits). The violations are counterexamples.

## What is not modelled, and why

Cryptography (tokens, signatures, encrypted secrets), argument construction for
container engines, user interfaces, request translation, validation of manifests
and vendored code have no state that several actors share. Start orchestration,
networks, updates and the preparation of edge generations are long sequences of
calls to external programs; what they do to shared state is under the lease and
the workspace lock, which are modelled. The checkout and hardware-limits locks are
of the same family as those two. `PROJECT.json` gives the reason for each
component.

These have such state and no module yet: upload admission (reservations under a
lock of the storage root), the runtime relay manager, web terminal sessions, the no-wait
worker's settlement, and the journalled transactions with their recovery (skill
export, edge generations, replacement of the outer container, tunnel
publication). Compositions that would add to the parts: an agent's shutdown over
`ToolWorkerPool` and `TaskQueue`, and the watchdog with the workspace start lock.

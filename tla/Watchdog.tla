------------------------------- MODULE Watchdog -------------------------------
(***************************************************************************)
(* The watchdog of the Router (cli/server/Watchdog.js): it spawns the      *)
(* Router, checks its health, restarts it with a back-off, gives up after  *)
(* too many restarts in a window, and stops it on a signal.                *)
(*                                                                         *)
(* One action is one callback of the watchdog's event loop. Time is a tick *)
(* that ages what the code compares with Date.now(); an age stops at the   *)
(* first value that no comparison tells from the next. Counters that are   *)
(* only logged (totalRestarts, consecutiveFailures) are left out.          *)
(***************************************************************************)
EXTENDS Integers, Sequences

CONSTANTS
    MaxRestarts,     \* MAX_RESTARTS_IN_WINDOW
    Window,          \* RESTART_WINDOW_MS, which is also the 60 s of a long run
    InitialBackoff,  \* INITIAL_BACKOFF_MS
    MaxBackoff,      \* MAX_BACKOFF_MS
    Threshold,       \* HEALTH_CHECK_FAILURES_THRESHOLD
    MaxChecks        \* bound: health requests in flight

ASSUME RestartAssumption == MaxRestarts \in Nat /\ MaxRestarts > 1 /\ Window \in Nat \ {0}
ASSUME BackoffAssumption ==
    InitialBackoff \in Nat \ {0} /\ MaxBackoff \in Nat /\ InitialBackoff <= MaxBackoff
ASSUME CheckAssumption == Threshold \in Nat \ {0} /\ MaxChecks \in Nat

VARIABLES
    router,    \* the process of the current child, or none
    termed,    \* it was sent SIGTERM
    child,     \* state.childProcess is set
    armed,     \* the start-delay timer of the current child
    checking,  \* state.healthCheckTimer
    checks,    \* health requests in flight: of this child, of earlier ones
    failures,  \* state.healthCheckFailures
    pending,   \* state.pendingHealthCheckRestart
    history,   \* the ages of the entries of state.restartHistory
    uptime,    \* the age of state.lastStartTime
    backoff,   \* state.currentBackoff
    restart,   \* the restart timer: what is left of it, or -1
    tripped,   \* state.circuitBreakerTripped
    stopping,  \* state.isShuttingDown, and how far the forced kill has come
    monitor,   \* the container monitor's interval timer
    starting,  \* a workspace start holds its lock, and whether that can be inspected
    exited     \* the exit code of the watchdog, or "no"

health == <<armed, checking, checks, failures, pending>>
restarts == <<history, uptime, backoff, restart, tripped>>
vars == <<router, termed, child, health, restarts, stopping, monitor, starting, exited>>

\* How a Router exits: code 0, 2, >= 100, another code, by SIGTERM or SIGINT, by
\* another signal.
Exit == {"zero", "config", "fatal", "error", "term", "killed"}

\* The workspace start lock: not held, held, or held while lockSnapshot fails on it
\* with another error than ENOENT.
Inspection == {"no", "active", "unreadable"}

TypeOK ==
    /\ router \in {"none", "failed", "up", "hung", "closing", "killed"}
    /\ termed \in BOOLEAN /\ child \in BOOLEAN
    /\ armed \in BOOLEAN /\ checking \in BOOLEAN /\ pending \in BOOLEAN
    /\ checks \in [now : 0..MaxChecks, old : 0..MaxChecks]
    /\ failures \in 0..Threshold
    /\ history \in Seq(0..Window) /\ uptime \in 0..(Window + 1)
    /\ backoff \in InitialBackoff..MaxBackoff /\ restart \in -1..MaxBackoff
    /\ tripped \in BOOLEAN /\ stopping \in {"no", "asked", "forced"}
    /\ monitor \in BOOLEAN /\ starting \in Inspection
    /\ exited \in {"no", "0", "1", "2", "100"}

\* main: the Router is spawned (or cannot be), then the container monitor starts.
Init ==
    /\ router \in {"up", "failed"} /\ termed = FALSE /\ child = TRUE
    /\ armed = TRUE /\ checking = FALSE /\ checks = [now |-> 0, old |-> 0]
    /\ failures = 0 /\ pending = FALSE
    /\ history = <<>> /\ uptime = 0 /\ backoff = InitialBackoff /\ restart = -1
    /\ tripped = FALSE /\ stopping = "no" /\ monitor = TRUE
    /\ starting = "no" /\ exited = "no"

Running == exited = "no"

(***************************************************************************)
(* Health checks.                                                          *)
(***************************************************************************)
\* The start-delay timer of spawnServer, if its child is still the current one.
StartDelay ==
    /\ Running /\ armed
    /\ armed' = FALSE
    /\ IF stopping = "no" /\ child THEN checking' = TRUE /\ monitor' = TRUE
                                   ELSE UNCHANGED <<checking, monitor>>
    /\ UNCHANGED <<router, termed, child, checks, failures, pending, restarts, stopping,
                   starting, exited>>

\* inspectHealthCheckWorkspaceStart: an inspection that fails reports no start.
StartSeen == starting = "active"

\* runHealthCheckTick up to its await.
HealthTick ==
    /\ Running /\ checking /\ child /\ ~pending
    /\ \/ StartSeen /\ failures' = 0 /\ UNCHANGED checks
       \/ ~StartSeen /\ checks.now < MaxChecks
          /\ checks' = [checks EXCEPT !.now = @ + 1] /\ UNCHANGED failures
    /\ UNCHANGED <<router, termed, child, armed, checking, pending, restarts, stopping,
                   monitor, starting, exited>>

\* Mutant: the answer is used whatever happened while it was awaited.
UsableAlways(which) == TRUE

\* What runHealthCheckTick tests after its await: not shutting down, the child it
\* checked is the current one, no restart pending.
Usable(which) == stopping = "no" /\ child /\ which = "now" /\ ~pending

\* Mutant: the start lock is not inspected again.
DeferredNever == FALSE

\* The second inspection, after the await.
Deferred == StartSeen

\* kill(SIGTERM): a Router that runs its event loop begins to close. The signal
\* that shutdownManager forwards is handled the same way.
Terminated(proc) == IF proc = "up" THEN "closing" ELSE proc

\* runHealthCheckTick after its await. Values of the counter above the threshold
\* are the threshold: nothing tells them apart.
HealthResult(which, healthy) ==
    /\ Running /\ checks[which] > 0
    /\ healthy => router # "failed"
    /\ checks' = [checks EXCEPT ![which] = @ - 1]
    /\ LET failed == IF failures < Threshold THEN failures + 1 ELSE failures
       IN  \/ /\ ~Usable(which)
              /\ UNCHANGED <<router, termed, failures, pending>>
           \/ /\ Usable(which) /\ (Deferred \/ healthy)
              /\ failures' = 0 /\ UNCHANGED <<router, termed, pending>>
           \/ /\ Usable(which) /\ ~Deferred /\ ~healthy /\ failed < Threshold
              /\ failures' = failed /\ UNCHANGED <<router, termed, pending>>
           \/ /\ Usable(which) /\ ~Deferred /\ ~healthy /\ failed = Threshold
              /\ failures' = failed /\ pending' = TRUE
              /\ termed' = child /\ router' = Terminated(router)
    /\ UNCHANGED <<child, armed, checking, restarts, stopping, monitor, starting, exited>>

(***************************************************************************)
(* Exits and restarts.                                                     *)
(***************************************************************************)
\* determineShouldRestart.
ShouldRestart(code) == pending \/ code \in {"error", "killed"}

\* process.exit(code || 0).
ExitCode(code) ==
    CASE code = "error" -> "1" [] code = "config" -> "2" [] code = "fatal" -> "100" [] OTHER -> "0"

\* Mutant: entries never leave the history.
RecentAll(ages) == ages

\* cleanRestartHistory.
Recent(ages) == SelectSeq(ages, LAMBDA age : age < Window)

\* checkCircuitBreaker, on the cleaned history.
Trips(ages) == Len(ages) >= MaxRestarts

\* A run longer than the window.
LongRun == uptime > Window

\* resetBackoff, after a long run only.
CurrentBackoff == IF LongRun THEN InitialBackoff ELSE backoff

\* calculateBackoff.
NextBackoff(now) == IF now * 2 < MaxBackoff THEN now * 2 ELSE MaxBackoff

\* Exits after isShuttingDown never lead to a restart.
WantsRestart(code) == stopping = "no" /\ ShouldRestart(code)

\* handleProcessExit. The watchdog ends, trips the breaker, or waits to restart. The
\* start-delay timer of an earlier child does nothing and is dropped with the child.
HandleProcessExit(code) ==
    /\ child' = FALSE /\ termed' = FALSE /\ checking' = FALSE /\ armed' = FALSE
    /\ checks' = [now |-> 0, old |-> IF checks.now + checks.old < MaxChecks
                                     THEN checks.now + checks.old ELSE MaxChecks]
    /\ LET kept == Recent(Append(history, 0))
       IN  \/ /\ ~WantsRestart(code)
              /\ exited' = ExitCode(code)
              /\ UNCHANGED <<failures, pending, history, backoff, restart, tripped, monitor>>
           \/ /\ WantsRestart(code)
              /\ pending' = FALSE
              /\ failures' = IF LongRun THEN 0 ELSE failures
              /\ history' = kept
              /\ \/ /\ Trips(kept)
                    /\ tripped' = TRUE /\ backoff' = CurrentBackoff
                    /\ UNCHANGED <<restart, monitor>>
                 \/ /\ ~Trips(kept)
                    /\ restart' = CurrentBackoff /\ backoff' = NextBackoff(CurrentBackoff)
                    /\ monitor' = FALSE
                    /\ UNCHANGED tripped
              /\ UNCHANGED exited
    /\ UNCHANGED <<uptime, stopping, starting>>

\* Mutant: stopContainerMonitor clears the restart timer, too.
SpawnServerCleared == FALSE /\ UNCHANGED vars

\* spawnServer, from the restart timer.
SpawnServer ==
    /\ Running /\ restart = 0
    /\ restart' = -1
    /\ IF tripped
       THEN exited' = "100" /\ UNCHANGED <<router, termed, child, armed, uptime>>
       ELSE /\ router' \in {"up", "failed"} /\ termed' = FALSE /\ child' = TRUE
            /\ armed' = TRUE /\ uptime' = 0 /\ UNCHANGED exited
    /\ UNCHANGED <<checking, checks, failures, pending, history, backoff, tripped, stopping,
                   monitor, starting>>

(***************************************************************************)
(* Shutdown.                                                               *)
(***************************************************************************)
\* shutdownManager, on SIGINT, SIGTERM, SIGQUIT or an uncaught exception.
ShutdownManager ==
    /\ Running /\ stopping = "no"
    /\ stopping' = "asked" /\ checking' = FALSE /\ monitor' = FALSE
    /\ IF child
       THEN /\ termed' = TRUE /\ router' = Terminated(router)
            /\ UNCHANGED exited
       ELSE exited' = "0" /\ UNCHANGED <<router, termed>>
    /\ UNCHANGED <<child, armed, checks, failures, pending, restarts, starting>>

\* Mutant: the forced kill is SIGTERM again.
KilledGently(proc) == proc

\* kill(SIGKILL).
Killed(proc) == IF proc \in {"up", "hung", "closing"} THEN "killed" ELSE proc

\* Mutant: no forced kill.
ForceKillNever == FALSE /\ UNCHANGED vars

\* The timer that shutdownManager sets for a Router that does not stop.
ForceKill ==
    /\ Running /\ stopping = "asked" /\ child
    /\ stopping' = "forced"
    /\ router' = Killed(router)
    /\ UNCHANGED <<termed, child, health, restarts, monitor, starting, exited>>

\* Its second timer ends the watchdog.
ForceExit ==
    /\ Running /\ stopping = "forced"
    /\ exited' = "0"
    /\ UNCHANGED <<router, termed, child, health, restarts, stopping, monitor, starting>>

\* Node ends a process whose event loop has nothing left to wait for.
LoopEmpty ==
    /\ Running /\ ~child /\ restart = -1 /\ ~monitor /\ checks.now + checks.old = 0
    /\ exited' = "0"
    /\ UNCHANGED <<router, termed, child, health, restarts, stopping, monitor, starting>>

(***************************************************************************)
(* The Router, the workspace and time.                                     *)
(***************************************************************************)
\* A Router exits for any reason; one that was sent SIGTERM exits with 0, with
\* 1 when closing fails or takes too long, or by the signal when it has no handler
\* yet; a hung one can only be killed.
Exits(proc) ==
    CASE proc = "up" -> Exit [] proc = "closing" -> {"zero", "error", "term", "killed"}
      [] proc \in {"hung", "killed"} -> {"killed"} [] OTHER -> {}

RouterExit(code) ==
    /\ code \in Exits(router)
    /\ router' = "none"
    /\ IF Running THEN HandleProcessExit(code)
       ELSE UNCHANGED <<termed, child, health, restarts, stopping, monitor, starting, exited>>

\* Its event loop stops for a while, or for ever.
RouterHangs ==
    /\ router = "up" /\ router' = "hung"
    /\ UNCHANGED <<termed, child, health, restarts, stopping, monitor, starting, exited>>

RouterRecovers ==
    /\ router = "hung" /\ router' = IF termed THEN "closing" ELSE "up"
    /\ UNCHANGED <<termed, child, health, restarts, stopping, monitor, starting, exited>>

\* Another command takes or gives up the workspace start lock, or the file becomes
\* readable or unreadable under it.
WorkspaceStart ==
    /\ Running /\ starting' \in Inspection \ {starting}
    /\ UNCHANGED <<router, termed, child, health, restarts, stopping, monitor, exited>>

Tick ==
    /\ Running
    /\ uptime' = IF uptime <= Window THEN uptime + 1 ELSE uptime
    /\ history' = [i \in 1..Len(history) |-> IF history[i] < Window THEN history[i] + 1
                                             ELSE Window]
    /\ restart' = IF restart > 0 THEN restart - 1 ELSE restart
    /\ UNCHANGED <<router, termed, child, health, backoff, tripped, stopping, monitor,
                   starting, exited>>

Next ==
    \/ StartDelay \/ HealthTick
    \/ \E which \in {"now", "old"}, healthy \in BOOLEAN : HealthResult(which, healthy)
    \/ SpawnServer \/ ShutdownManager \/ ForceKill \/ ForceExit \/ LoopEmpty
    \/ \E code \in Exit : RouterExit(code)
    \/ RouterHangs \/ RouterRecovers \/ WorkspaceStart \/ Tick

Spec == Init /\ [][Next]_vars

(***************************************************************************)
(* Properties.                                                             *)
(***************************************************************************)
\* A pending health restart always has its cause ahead of it: there is a current
\* child and it was sent SIGTERM. (A flag left behind by an answer about an earlier
\* Router would stop all health checks of the next one.)
PendingSignalled == pending /\ Running => child /\ termed

\* There is never a second Router: a restart is scheduled, or the breaker tripped,
\* only when the Router is gone, and a stopped watchdog leaves none behind.
OneRouter ==
    /\ restart # -1 \/ tripped => ~child /\ router = "none"
    /\ exited # "no" => router \in {"none", "failed", "killed"}

\* The breaker never trips at the end of a long run: its restart window and the
\* uptime that resets the counters agree.
LongRunForgives == [][tripped' /\ ~tripped => ~LongRun]_vars

\* A Router is never killed for its health while a workspace start is under way
\* whose lock the watchdog can inspect, also when the start began, or its lock
\* became readable, while the answer was awaited. (A failed inspection counts as no
\* start: inspectHealthCheckWorkspaceStart.)
StartNotDisturbed == [][pending' /\ ~pending => starting # "active"]_vars

(***************************************************************************)
(* Liveness. Timers fire and time passes; a Router that closes exits.      *)
(***************************************************************************)
Fairness ==
    /\ WF_vars(Tick) /\ WF_vars(SpawnServer) /\ WF_vars(StartDelay)
    /\ WF_vars(HealthTick)
    /\ WF_vars(ForceKill) /\ WF_vars(ForceExit) /\ WF_vars(LoopEmpty)
    /\ WF_vars(router \in {"closing", "killed"} /\ \E code \in Exit : RouterExit(code))

FairSpec == Spec /\ Fairness

\* An exit of the Router leads to a new Router, a tripped breaker or the end of
\* the watchdog.
RouterReturns == ~child ~> child \/ tripped \/ exited # "no"

\* A watchdog that was asked to stop does stop, even when its Router hangs or
\* never started.
ShutdownEnds == stopping # "no" ~> exited # "no"

\* "return; // Will exit with code 100": a tripped breaker ends the watchdog with
\* that code.
BreakerExits == tripped ~> exited = "100"

\* "The watchdog probes that socket, restarts Router after repeated failures": a
\* health restart that was decided on takes place.
HealthRestartHappens == pending ~> ~pending \/ exited # "no"
=============================================================================

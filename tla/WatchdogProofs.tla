----------------------------- MODULE WatchdogProofs -----------------------------
(***************************************************************************)
(* Theorems about Watchdog, for every restart limit, window, back-off,     *)
(* threshold and number of health requests in flight.                      *)
(***************************************************************************)
EXTENDS Watchdog, TLAPS

Processes == {"none", "failed", "up", "hung", "closing", "killed"}
Stopped == {"none", "failed", "killed"}

\* The parts of the type invariant that the argument needs.
Types ==
    /\ router \in Processes /\ termed \in BOOLEAN /\ child \in BOOLEAN /\ pending \in BOOLEAN
    /\ tripped \in BOOLEAN /\ stopping \in {"no", "asked", "forced"}
    /\ exited \in {"no", "0", "1", "2", "100"}

\* A watchdog without a child has no Router.
ChildInv == ~child => router = "none"

\* A watchdog that is stopping waits for its child, and has killed it before it
\* goes without it.
StopInv ==
    /\ stopping # "no" /\ Running => child
    /\ stopping = "forced" => router \in Stopped

WatchInv == Types /\ ChildInv /\ StopInv /\ PendingSignalled /\ OneRouter

\* A spawned Router satisfies the invariant.
LEMMA InitWatch == ASSUME Init PROVE WatchInv
  BY Zenon DEF Init, WatchInv, Types, ChildInv, StopInv, PendingSignalled, OneRouter,
     Processes, Stopped, Running

\* runHealthCheckTick: an answer about an earlier child, or after a shutdown began,
\* changes nothing but the number of requests in flight.
LEMMA HealthKeeps ==
    ASSUME WatchInv
    PROVE  \/ StartDelay \/ HealthTick
           \/ \E which \in {"now", "old"}, healthy \in BOOLEAN : HealthResult(which, healthy)
           => WatchInv'
<1>1. CASE StartDelay \/ HealthTick
  BY <1>1 DEF StartDelay, HealthTick, restarts, WatchInv, Types, ChildInv, StopInv,
              PendingSignalled, OneRouter, Running
<1>2. ASSUME NEW which \in {"now", "old"}, NEW healthy \in BOOLEAN, HealthResult(which, healthy)
      PROVE  WatchInv'
  <2>1. UNCHANGED <<child, restart, tripped, stopping, exited>> /\ Running
    BY <1>2 DEF HealthResult, restarts
  <2>2. CASE UNCHANGED <<router, termed, pending>>
    BY <2>1, <2>2 DEF WatchInv, Types, ChildInv, StopInv, PendingSignalled, OneRouter, Running
  <2>3. CASE Usable(which) /\ pending' = TRUE /\ termed' = child /\ router' = Terminated(router)
    <3>1. child /\ stopping = "no"
      BY <2>3 DEF Usable
    <3>2. router' \in Processes /\ (router = "none" => router' = "none")
      BY <2>3 DEF WatchInv, Types, Processes, Terminated
    <3> QED
      BY <2>1, <2>3, <3>1, <3>2 DEF WatchInv, Types, ChildInv, StopInv, PendingSignalled,
                                    OneRouter, Running
  <2> QED
    BY <1>2, <2>2, <2>3, Zenon DEF HealthResult
<1> QED
  BY <1>1, <1>2

\* handleProcessExit: the child is gone before a restart is scheduled, the breaker
\* trips or the watchdog ends, and with it what was pending for it.
LEMMA ExitKeeps ==
    ASSUME WatchInv, NEW code \in Exit, RouterExit(code)
    PROVE  WatchInv'
<1>1. router' = "none" /\ router # "none"
  BY DEF RouterExit, Exits
<1>2. CASE ~Running
  BY <1>1, <1>2 DEF RouterExit, restarts, health, WatchInv, Types, ChildInv, StopInv,
                    PendingSignalled, OneRouter, Running, Processes, Stopped
<1>3. CASE Running
  <2>1. child' = FALSE /\ termed' = FALSE /\ stopping' = stopping
    BY <1>3 DEF RouterExit, HandleProcessExit
  <2>2. CASE ~WantsRestart(code)
    <3>1. exited' = ExitCode(code) /\ UNCHANGED <<pending, restart, tripped>>
      BY <1>3, <2>2 DEF RouterExit, HandleProcessExit
    <3>2. ExitCode(code) \in {"0", "1", "2", "100"}
      BY DEF ExitCode, Exit
    <3> QED
      BY <1>1, <2>1, <3>1, <3>2, Zenon DEF WatchInv, Types, ChildInv, StopInv,
         PendingSignalled, OneRouter, Running, Processes, Stopped
  <2>3. CASE WantsRestart(code)
    <3>1. pending' = FALSE /\ exited' = exited /\ tripped' \in BOOLEAN /\ stopping = "no"
      BY <1>3, <2>3, Zenon DEF RouterExit, HandleProcessExit, WantsRestart, WatchInv, Types
    <3> QED
      BY <1>1, <1>3, <2>1, <3>1, Zenon DEF WatchInv, Types, ChildInv, StopInv,
         PendingSignalled, OneRouter, Running, Processes, Stopped
  <2> QED
    BY <2>2, <2>3
<1> QED
  BY <1>2, <1>3

\* spawnServer, shutdownManager and its timers, and an empty event loop: a Router
\* is spawned only in place of one that is gone, and the watchdog ends without one.
LEMMA StopKeeps ==
    ASSUME WatchInv
    PROVE  SpawnServer \/ ShutdownManager \/ ForceKill \/ ForceExit \/ LoopEmpty => WatchInv'
<1>1. CASE SpawnServer
  <2>1. ~child /\ router = "none" /\ ~pending /\ stopping = "no" /\ Running
    BY <1>1 DEF SpawnServer, WatchInv, Types, StopInv, PendingSignalled, OneRouter
  <2> QED
    BY <1>1, <2>1, Zenon DEF SpawnServer, WatchInv, Types, ChildInv, StopInv, PendingSignalled,
       OneRouter, Running, Processes, Stopped
<1>2. CASE ShutdownManager
  <2>1. UNCHANGED <<child, pending, restart, tripped>> /\ stopping' = "asked" /\ Running
    BY <1>2 DEF ShutdownManager, restarts
  <2>2. CASE child
    <3>1. termed' = TRUE /\ router' = Terminated(router) /\ exited' = exited
      BY <1>2, <2>2 DEF ShutdownManager
    <3>2. router' \in Processes
      BY <3>1 DEF WatchInv, Types, Processes, Terminated
    <3> QED
      BY <2>1, <2>2, <3>1, <3>2 DEF WatchInv, Types, ChildInv, StopInv, PendingSignalled,
                                    OneRouter, Running
  <2>3. CASE ~child
    BY <1>2, <2>1, <2>3 DEF ShutdownManager, WatchInv, Types, ChildInv, StopInv, PendingSignalled,
                            OneRouter, Running, Stopped
  <2> QED
    BY <2>2, <2>3
<1>3. CASE ForceKill
  <2>1. router' \in Stopped
    BY <1>3 DEF ForceKill, Killed, WatchInv, Types, Processes, Stopped
  <2> QED
    BY <1>3, <2>1 DEF ForceKill, health, restarts, WatchInv, Types, ChildInv, StopInv,
                      PendingSignalled, OneRouter, Running, Processes, Stopped
<1>4. CASE ForceExit \/ LoopEmpty
  BY <1>4 DEF ForceExit, LoopEmpty, health, restarts, WatchInv, Types, ChildInv, StopInv,
              PendingSignalled, OneRouter, Running, Stopped
<1> QED
  BY <1>1, <1>2, <1>3, <1>4

\* The Router's event loop, the workspace start lock and time.
LEMMA OutsideKeeps ==
    ASSUME WatchInv
    PROVE  RouterHangs \/ RouterRecovers \/ WorkspaceStart \/ Tick \/ UNCHANGED vars => WatchInv'
<1>1. CASE RouterHangs \/ RouterRecovers
  BY <1>1 DEF RouterHangs, RouterRecovers, health, restarts, WatchInv, Types, ChildInv, StopInv,
              PendingSignalled, OneRouter, Running, Processes, Stopped
<1>2. CASE WorkspaceStart \/ UNCHANGED vars
  BY <1>2 DEF WorkspaceStart, vars, health, restarts, WatchInv, Types, ChildInv, StopInv,
              PendingSignalled, OneRouter, Running
<1>3. CASE Tick
  <2>1. restart' # -1 => restart # -1
    BY <1>3 DEF Tick
  <2> QED
    BY <1>3, <2>1 DEF Tick, health, WatchInv, Types, ChildInv, StopInv, PendingSignalled,
                      OneRouter, Running
<1> QED
  BY <1>1, <1>2, <1>3

\* The invariant holds in every state of the watchdog.
THEOREM WatchdogInvariant == Spec => []WatchInv
<1>1. Init => WatchInv
  BY InitWatch
<1>2. WatchInv /\ [Next]_vars => WatchInv'
  BY HealthKeeps, ExitKeeps, StopKeeps, OutsideKeeps DEF Next
<1> QED
  BY <1>1, <1>2, PTL DEF Spec

\* A health restart that is pending was signalled to the current child: no late
\* answer about an earlier one leaves the flag behind (runHealthCheckTick).
THEOREM RestartSignalled == Spec => []PendingSignalled
<1>1. WatchInv => PendingSignalled
  BY DEF WatchInv
<1> QED
  BY <1>1, WatchdogInvariant, PTL

\* There is never a second Router, and a stopped watchdog leaves none behind
\* (spawnServer, shutdownManager).
THEOREM SingleRouter == Spec => []OneRouter
<1>1. WatchInv => OneRouter
  BY DEF WatchInv
<1> QED
  BY <1>1, WatchdogInvariant, PTL

\* No health restart is decided while a workspace start is under way whose lock can
\* be inspected, also when the start began while the answer was awaited
\* (runHealthCheckTick, inspectHealthCheckWorkspaceStart).
THEOREM StartUndisturbed == Spec => StartNotDisturbed
<1>1. ASSUME WatchInv, [Next]_vars, pending', ~pending PROVE starting # "active"
  <2>1. \E which \in {"now", "old"}, healthy \in BOOLEAN : HealthResult(which, healthy)
    BY <1>1, Zenon DEF Next, StartDelay, HealthTick, SpawnServer, ShutdownManager, ForceKill,
                ForceExit, LoopEmpty, RouterExit, HandleProcessExit, RouterHangs, RouterRecovers,
                WorkspaceStart, Tick, health, vars
  <2> QED
    BY <1>1, <2>1, Zenon DEF HealthResult, Deferred, StartSeen
<1> QED
  BY <1>1, WatchdogInvariant, PTL DEF Spec, StartNotDisturbed
=============================================================================

--------------------------- MODULE TaskQueueProofs ----------------------------
(***************************************************************************)
(* Theorems about TaskQueue, for every set of task ids and all bounds. The *)
(* steps that end a task, and the calls of enqueueTask, cancelTask and     *)
(* shutdown, preserve the inductive invariant; so do those of              *)
(* TaskQueueLemmas, and the theorems follow from it.                       *)
(***************************************************************************)
EXTENDS TaskQueueLemmas

\* The end of a task, whichever event brings it about.
LEMMA FinishStep ==
    ASSUME IInv, up, NEW t \in running, NEW outcome \in Terminal,
           cancelReq[t] => outcome # "completed",
           Finish(t, outcome),
           cleanup' \in [Task -> {"none", "term", "kill", "done", "failed"}],
           failures' \subseteq Task, rejected' \in [Task -> BOOLEAN],
           \A u \in Task : u # t => cleanup'[u] = cleanup[u] /\ rejected'[u] = rejected[u],
           cleanup'[t] = "done" => proc[t] = "gone",
           cancelReq[t] /\ outcome = "cancelled" /\ ~rejected'[t]
               => proc[t] \in {"none", "nopid", "gone"}
    PROVE  IInv'
<1> DEFINE st == [status EXCEPT ![t] = outcome]
           stopping == shut # "no"
<1>0. t \in Task /\ status[t] \in {"running", "cancelling"} /\ t \in used /\ proc[t] # "none"
  BY DEF IInv, Consistent, RunOnce
<1>1. Consistent(st, pending, running \ {t}, exec)
  BY Freed, Zenon DEF IInv
<1>2. ProcessQueue(st, pending, running \ {t}, stopping) /\ stopping \in BOOLEAN
  BY DEF Finish
<1>3. /\ exec \in [Task -> {"none", "running", "draining"}] /\ spawns \in [Task -> Nat]
      /\ proc \in [Task -> {"none", "nopid", "leader", "orphans", "gone"}]
      /\ status \in [Task -> Status]
  BY Zenon DEF IInv, TypeOK
<1>4. \A u \in Task : st[u] = IF u = t THEN outcome ELSE status[u]
  BY <1>3, Zenon
<1> HIDE DEF st, stopping
<1>5. /\ Consistent(status', pending', running', exec')
      /\ exec' \in [Task -> {"none", "running", "draining"}]
      /\ \A u \in Task : u \in running' <=> exec'[u] # "none"
      /\ spawns' \in [Task -> Nat]
      /\ proc' \in [Task -> {"none", "nopid", "leader", "orphans", "gone"}]
      /\ ~stopping /\ pending' # <<>> => Cardinality(running') = MaxConcurrent
      /\ stopping => pending' = pending /\ running' = running \ {t}
      /\ \A u \in Task : exec'[u] = "draining" => u \in running \ {t} /\ exec[u] = "draining"
  BY <1>1, <1>2, <1>3, ProcessQueueStep, SMTT(30)
<1>6. \A u \in Task :
          \/ status'[u] = st[u] /\ spawns'[u] = spawns[u] /\ proc'[u] = proc[u]
          \/ /\ st[u] = "pending" /\ status'[u] = "running"
             /\ spawns'[u] = spawns[u] + 1 /\ proc'[u] \in {"leader", "nopid"}
  BY <1>1, <1>2, <1>3, ProcessQueueStep, SMTT(30)
<1>7. /\ dirty' = TRUE /\ timer' = (timer \/ ~Writing) /\ write' = write
      /\ timedOut' = [timedOut EXCEPT ![t] = FALSE]
      /\ UNCHANGED <<cancelReq, shut, disk, saved, used, up, crashes, writeErrors>>
  BY DEF Finish, PersistTasks, file, env
<1>8. TypeOK'
  BY Zenon, <1>5, <1>7 DEF IInv, TypeOK, Consistent
<1>9. NoStrandedTask'
  BY <1>5, <1>7 DEF NoStrandedTask, stopping
<1>10. RunOnce'
  <2> SUFFICES ASSUME NEW u \in Task
               PROVE  /\ spawns'[u] <= 1
                      /\ status'[u] = "pending" => spawns'[u] = 0 /\ proc'[u] = "none"
                      /\ u \in running' => proc'[u] # "none"
                      /\ u \notin used' =>
                            /\ spawns'[u] = 0 /\ proc'[u] = "none" /\ cleanup'[u] = "none"
                            /\ ~cancelReq'[u]
                            /\ status'[u] = "absent" /\ disk'[u] = "absent"
                            /\ write'.snap[u] = "absent"
    BY DEF RunOnce
  <2>1. /\ spawns[u] <= 1 /\ spawns[u] \in Nat
        /\ status[u] = "pending" => spawns[u] = 0 /\ proc[u] = "none"
        /\ u \in running => proc[u] # "none"
        /\ u \notin used => /\ spawns[u] = 0 /\ proc[u] = "none" /\ cleanup[u] = "none"
                            /\ ~cancelReq[u]
                            /\ status[u] = "absent" /\ disk[u] = "absent"
                            /\ write.snap[u] = "absent"
    BY <1>3, Zenon DEF IInv, RunOnce
  <2>2. u \in running' => u \in running \/ status'[u] # st[u]
    BY ZenonT(30), <1>0, <1>4, <1>5 DEF IInv, Consistent
  <2>3. outcome # "pending"
    BY DEF Terminal
  <2> QED
    BY <2>1, <2>2, <2>3, <1>0, <1>4, <1>6, <1>7, SMTT(30)
<1>11. CancelOK'
  <2> SUFFICES ASSUME NEW u \in Task
               PROVE  /\ cancelReq'[u] => status'[u] \notin {"pending", "running", "completed"}
                      /\ status'[u] = "cancelling" /\ up' =>
                             cancelReq'[u] /\ (proc'[u] = "nopid" \/ cleanup'[u] # "none")
                      /\ exec'[u] = "draining" =>
                             cancelReq'[u] /\ cleanup'[u] \in {"term", "kill"}
                      /\ cleanup'[u] = "done" => proc'[u] = "gone"
                      /\ cleanup'[u] # "none" => status'[u] # "pending"
    BY DEF CancelOK
  <2>1. /\ cancelReq[u] => status[u] \notin {"pending", "running", "completed"}
        /\ status[u] = "cancelling" =>
               cancelReq[u] /\ (proc[u] = "nopid" \/ cleanup[u] # "none")
        /\ exec[u] = "draining" => cancelReq[u] /\ cleanup[u] \in {"term", "kill"}
        /\ cleanup[u] = "done" => proc[u] = "gone"
        /\ cleanup[u] # "none" => status[u] # "pending"
    BY Zenon DEF IInv, CancelOK
  <2>2. outcome \notin {"pending", "running", "cancelling"}
    BY DEF Terminal
  <2>3. status[u] = "pending" => proc[u] = "none"
    BY Zenon DEF IInv, RunOnce
  <2>4. cancelReq'[u] = cancelReq[u] /\ up'
    BY <1>7
  <2>5. CASE u = t
    <3>1. status'[u] = outcome /\ proc'[u] = proc[u] /\ exec'[u] # "draining"
      BY <2>2, <2>5, <1>4, <1>5, <1>6, ZenonT(30)
    <3> QED
      BY <3>1, <2>2, <2>4, <2>5
  <2>6. CASE u # t
    <3>1. st[u] = status[u] /\ cleanup'[u] = cleanup[u]
      BY <2>6, <1>4, Zenon
    <3>2. exec'[u] = "draining" => exec[u] = "draining"
      BY <1>5, Zenon
    <3>3. \/ status'[u] = status[u] /\ proc'[u] = proc[u]
          \/ /\ status[u] = "pending" /\ status'[u] = "running"
      BY <3>1, <1>6
    <3> QED
      BY <3>1, <3>2, <3>3, <2>1, <2>3, <2>4, Zenon
  <2> QED
    BY <2>5, <2>6, Zenon
<1>12. CancelledGroupGone'
  BY <1>4, <1>6, <1>7, SMTT(30) DEF IInv, CancelledGroupGone
<1>13. ShutOK'
  BY <1>5, <1>7, Zenon DEF IInv, ShutOK, stopping
<1>14. DownOK'
  BY <1>7, Zenon DEF DownOK
<1>15. NoLostChange'
  BY Zenon, <1>7 DEF NoLostChange, Writing
<1>16. DrainedIsDurable'
  BY <1>7, Zenon DEF IInv, DrainedIsDurable
<1>17. DurableOK'
  <2>1. \A u \in Task : status[u] \in Terminal \union {"absent"} => status'[u] = status[u]
    BY <1>0, <1>4, <1>6, Zenon DEF Terminal
  <2> QED
    BY <2>1, <1>7, Zenon DEF IInv, DurableOK, Writing
<1> QED
  BY <1>5, <1>8, <1>9, <1>10, <1>11, <1>12, <1>13, <1>14, <1>15, <1>16, <1>17, Zenon DEF IInv

\* The executor or the cleanup of a task settles.
LEMMA SettleStep ==
    ASSUME IInv, NEW t \in Task,
           ExecutorResolves(t) \/ ExecutorRejects(t) \/ CleanupAbsent(t) \/ CleanupFails(t)
    PROVE  IInv'
<1>0. up
  BY Zenon DEF ExecutorResolves, ExecutorRejects, CleanupAbsent, CleanupFails
<1>1. /\ t \in running <=> exec[t] # "none"
      /\ cancelReq[t] => status[t] \notin {"pending", "running", "completed"}
      /\ t \in running => status[t] \in {"running", "cancelling"}
      /\ status[t] = "cancelling" => cancelReq[t] /\ (proc[t] = "nopid" \/ cleanup[t] # "none")
      /\ exec[t] = "draining" => cancelReq[t] /\ cleanup[t] \in {"term", "kill"}
      /\ cleanup[t] = "done" => proc[t] = "gone"
      /\ cleanup \in [Task -> {"none", "term", "kill", "done", "failed"}]
      /\ exec \in [Task -> {"none", "running", "draining"}]
      /\ rejected \in [Task -> BOOLEAN] /\ failures \subseteq Task
      /\ cancelReq[t] \in BOOLEAN
  BY <1>0, ZenonT(30) DEF IInv, CancelOK, Consistent, TypeOK
<1>2. CASE ExecutorResolves(t)
  <2>1. CASE cancelReq[t] /\ cleanup[t] \in {"term", "kill"}
    <3>1. /\ exec[t] = "running" /\ exec' = [exec EXCEPT ![t] = "draining"]
          /\ UNCHANGED <<status, cancelReq, pending, running, timedOut, cleanup, failures, shut,
                         persist, file, world, env>>
      BY <1>2, <2>1, Zenon DEF ExecutorResolves
    <3>2. \A u \in Task : exec'[u] = IF u = t THEN "draining" ELSE exec[u]
      BY <3>1, <1>1, Zenon
    <3>3. TypeOK'
      BY <3>1, Zenon DEF IInv, TypeOK, persist, file, world, env
    <3>4. Consistent(status', pending', running', exec')
      BY <3>1, <3>2, SMTT(30) DEF IInv, Consistent
    <3>5. \A u \in Task : u \in running' <=> exec'[u] # "none"
      BY <3>1, <3>2 DEF IInv
    <3>6. CancelOK'
      BY <2>1, <3>1, <3>2, ZenonT(30) DEF IInv, CancelOK, world, env
    <3>7. NoStrandedTask' /\ RunOnce' /\ CancelledGroupGone' /\ ShutOK'
      BY <3>1, Zenon DEF IInv, NoStrandedTask, RunOnce, CancelledGroupGone, ShutOK, persist, file,
         world, env
    <3>8. DownOK' /\ NoLostChange' /\ DrainedIsDurable' /\ DurableOK'
      BY <3>1, Zenon DEF IInv, DownOK, NoLostChange, DrainedIsDurable, DurableOK, Writing, persist,
         file, env
    <3> QED
      BY <3>3, <3>4, <3>5, <3>6, <3>7, <3>8 DEF IInv
  <2>2. CASE ~(cancelReq[t] /\ cleanup[t] \in {"term", "kill"})
    <3>1. PICK outcome \in Outcomes(t) : Finish(t, outcome)
      BY <1>2, <2>2, Zenon DEF ExecutorResolves
    <3>2. /\ exec[t] = "running" /\ proc[t] \in {"orphans", "gone"}
          /\ cleanup' = cleanup /\ rejected' = rejected
          /\ failures' = IF cancelReq[t] /\ cleanup[t] = "failed" THEN failures \union {t}
                         ELSE failures
      BY <1>2, <2>2, Zenon DEF ExecutorResolves
    <3>3. t \in running /\ outcome \in Terminal /\ failures' \subseteq Task
      BY <1>1, <3>2, Zenon DEF Outcomes, Terminal
    <3>4. /\ cancelReq[t] => outcome # "completed"
          /\ cancelReq[t] /\ outcome = "cancelled" => proc[t] \in {"none", "nopid", "gone"}
      BY <1>1, <2>2, <3>1, <3>2, <3>3, Zenon DEF Outcomes
    <3> QED
      BY <1>0, <1>1, <3>1, <3>2, <3>3, <3>4, FinishStep, Zenon
  <2> QED
    BY <2>1, <2>2
<1>3. CASE ExecutorRejects(t)
  <2> DEFINE outcome == IF cancelReq[t] THEN "cancelled" ELSE "failed"
  <2>1. /\ exec[t] = "running" /\ Finish(t, outcome)
        /\ rejected' = [rejected EXCEPT ![t] = cancelReq[t] /\ proc[t] # "nopid"]
        /\ cleanup' = cleanup /\ failures' = failures
    BY <1>3, Zenon DEF ExecutorRejects
  <2>2. /\ t \in running /\ outcome \in Terminal
        /\ cancelReq[t] => outcome # "completed"
        /\ cancelReq[t] \/ outcome # "cancelled"
    BY <1>1, <2>1, Zenon DEF Terminal
  <2>3. /\ rejected' \in [Task -> BOOLEAN]
        /\ \A u \in Task : u # t => rejected'[u] = rejected[u]
        /\ rejected'[t] <=> cancelReq[t] /\ proc[t] # "nopid"
    BY Zenon, <1>1, <2>1
  <2> HIDE DEF outcome
  <2> QED
    BY <1>0, <1>1, <2>1, <2>2, <2>3, FinishStep, Zenon
<1>4. CASE CleanupAbsent(t)
  <2>1. /\ proc[t] = "gone" /\ cleanup' = [cleanup EXCEPT ![t] = "done"]
        /\ cleanup[t] \in {"term", "kill"}
    BY <1>4, Zenon DEF CleanupAbsent
  <2>2. /\ cleanup' \in [Task -> {"none", "term", "kill", "done", "failed"}]
        /\ \A u \in Task : cleanup'[u] = IF u = t THEN "done" ELSE cleanup[u]
    BY <1>1, <2>1, Zenon
  <2>3. CASE exec[t] = "draining"
    <3>1. Finish(t, "cancelled") /\ failures' = failures /\ rejected' = rejected
      BY <1>4, <2>3, Zenon DEF CleanupAbsent
    <3> QED
      BY <1>0, <1>1, <2>1, <2>2, <2>3, <3>1, FinishStep, Zenon DEF Terminal
  <2>4. CASE exec[t] # "draining"
    <3>1. UNCHANGED <<status, cancelReq, pending, running, exec, timedOut, failures, shut,
                         persist, file, world, env>>
      BY <1>4, <2>4, Zenon DEF CleanupAbsent
    <3>2. TypeOK' /\ Consistent(status', pending', running', exec')
      <4>1. TypeOK'
        BY <2>2, <3>1, Zenon DEF IInv, TypeOK, persist, file, world, env
      <4>2. Consistent(status', pending', running', exec')
        BY <3>1 DEF IInv
      <4> QED
        BY <4>1, <4>2
    <3>3. RunOnce' /\ CancelOK'
      <4>1. RunOnce'
        BY <2>1, <2>2, <3>1, Zenon DEF IInv, RunOnce, persist, file, world
      <4>2. CancelOK'
        BY <2>1, <2>2, <2>4, <3>1, Zenon DEF IInv, CancelOK, world, env
      <4> QED
        BY <4>1, <4>2
    <3>4. NoStrandedTask' /\ CancelledGroupGone' /\ ShutOK'
      BY <3>1, Zenon DEF IInv, NoStrandedTask, CancelledGroupGone, ShutOK, Writing, persist, world,
         env
    <3>5. DownOK' /\ NoLostChange' /\ DrainedIsDurable' /\ DurableOK'
      BY <3>1, Zenon DEF IInv, DownOK, NoLostChange, DrainedIsDurable, DurableOK, Writing, persist,
         file, env
    <3> QED
      BY <3>1, <3>2, <3>3, <3>4, <3>5, Zenon DEF IInv
  <2> QED
    BY <2>3, <2>4
<1>5. CASE CleanupFails(t)
  <2>1. /\ cleanup' = [cleanup EXCEPT ![t] = "failed"]
        /\ cleanup[t] \in {"term", "kill"}
    BY <1>5, Zenon DEF CleanupFails
  <2>2. /\ cleanup' \in [Task -> {"none", "term", "kill", "done", "failed"}]
        /\ \A u \in Task : cleanup'[u] = IF u = t THEN "failed" ELSE cleanup[u]
    BY <1>1, <2>1, Zenon
  <2>3. CASE exec[t] = "draining"
    <3>1. Finish(t, "failed") /\ failures' = failures \union {t} /\ rejected' = rejected
      BY <1>5, <2>3, Zenon DEF CleanupFails
    <3> QED
      BY <1>0, <1>1, <2>1, <2>2, <2>3, <3>1, FinishStep, ZenonT(30) DEF Terminal
  <2>4. CASE exec[t] # "draining"
    <3>1. UNCHANGED <<status, cancelReq, pending, running, exec, timedOut, failures, shut,
                         persist, file, world, env>>
      BY <1>5, <2>4, Zenon DEF CleanupFails
    <3>2. TypeOK' /\ Consistent(status', pending', running', exec')
      <4>1. TypeOK'
        BY <2>2, <3>1, Zenon DEF IInv, TypeOK, persist, file, world, env
      <4>2. Consistent(status', pending', running', exec')
        BY <3>1 DEF IInv
      <4> QED
        BY <4>1, <4>2
    <3>3. RunOnce' /\ CancelOK'
      <4>1. RunOnce'
        BY <2>1, <2>2, <3>1, Zenon DEF IInv, RunOnce, persist, file, world
      <4>2. CancelOK'
        BY <2>1, <2>2, <2>4, <3>1, Zenon DEF IInv, CancelOK, world, env
      <4> QED
        BY <4>1, <4>2
    <3>4. NoStrandedTask' /\ CancelledGroupGone' /\ ShutOK'
      BY <3>1 DEF IInv, NoStrandedTask, CancelledGroupGone, ShutOK, Writing, persist, world, env
    <3>5. DownOK' /\ NoLostChange' /\ DrainedIsDurable' /\ DurableOK'
      BY <3>1, Zenon DEF IInv, DownOK, NoLostChange, DrainedIsDurable, DurableOK, Writing, persist,
         file, env
    <3> QED
      BY <3>1, <3>2, <3>3, <3>4, <3>5 DEF IInv
  <2> QED
    BY <2>3, <2>4
<1> QED
  BY <1>2, <1>3, <1>4, <1>5

-----------------------------------------------------------------------------
(* enqueueTask, cancelTask and shutdown *)

\* enqueueTask.
LEMMA EnqueueStep ==
    ASSUME IInv, NEW t \in Task, EnqueueTask(t)
    PROVE  IInv'
<1> DEFINE st == [status EXCEPT ![t] = "pending"]
           q == Append(pending, t)
<1>0. /\ t \notin used /\ status[t] = "absent" /\ up /\ shut = "no"
      /\ spawns[t] = 0 /\ proc[t] = "none" /\ cleanup[t] = "none" /\ ~cancelReq[t]
      /\ disk[t] = "absent" /\ write.snap[t] = "absent"
  BY Zenon DEF EnqueueTask, IInv, RunOnce
<1>1. Consistent(st, q, running, exec)
  BY <1>0, Appended, Zenon DEF IInv
<1>2. ProcessQueue(st, q, running, FALSE)
  BY Zenon DEF EnqueueTask
<1>3. /\ exec \in [Task -> {"none", "running", "draining"}] /\ spawns \in [Task -> Nat]
      /\ proc \in [Task -> {"none", "nopid", "leader", "orphans", "gone"}]
      /\ status \in [Task -> Status]
  BY Zenon DEF IInv, TypeOK
<1>4. \A u \in Task : st[u] = IF u = t THEN "pending" ELSE status[u]
  BY <1>3
<1> HIDE DEF st, q
<1>5. /\ Consistent(status', pending', running', exec')
      /\ exec' \in [Task -> {"none", "running", "draining"}]
      /\ \A u \in Task : u \in running' <=> exec'[u] # "none"
      /\ spawns' \in [Task -> Nat]
      /\ proc' \in [Task -> {"none", "nopid", "leader", "orphans", "gone"}]
      /\ pending' # <<>> => Cardinality(running') = MaxConcurrent
      /\ \A u \in Task : exec'[u] = "draining" => u \in running /\ exec[u] = "draining"
  BY Zenon, <1>1, <1>2, <1>3, ProcessQueueStep
<1>6. \A u \in Task :
          \/ status'[u] = st[u] /\ spawns'[u] = spawns[u] /\ proc'[u] = proc[u]
          \/ /\ st[u] = "pending" /\ status'[u] = "running"
             /\ spawns'[u] = spawns[u] + 1 /\ proc'[u] \in {"leader", "nopid"}
  BY Zenon, <1>1, <1>2, <1>3, ProcessQueueStep
<1>7. /\ dirty' = TRUE /\ timer' = (timer \/ ~Writing) /\ write' = write
      /\ used' = used \union {t}
      /\ UNCHANGED <<cancelReq, timedOut, cleanup, failures, shut, disk, saved, rejected,
                     up, crashes, writeErrors>>
  BY DEF EnqueueTask, PersistTasks, file, env
<1>8. TypeOK'
  BY <1>5, <1>7, SMTT(30) DEF IInv, TypeOK, Consistent
<1>9. NoStrandedTask'
  BY <1>5 DEF NoStrandedTask
<1>10. RunOnce'
  <2> SUFFICES ASSUME NEW u \in Task
               PROVE  /\ spawns'[u] <= 1
                      /\ status'[u] = "pending" => spawns'[u] = 0 /\ proc'[u] = "none"
                      /\ u \in running' => proc'[u] # "none"
                      /\ u \notin used' =>
                            /\ spawns'[u] = 0 /\ proc'[u] = "none" /\ cleanup'[u] = "none"
                            /\ ~cancelReq'[u]
                            /\ status'[u] = "absent" /\ disk'[u] = "absent"
                            /\ write'.snap[u] = "absent"
    BY Zenon DEF RunOnce
  <2>1. /\ spawns[u] <= 1 /\ spawns[u] \in Nat
        /\ status[u] = "pending" => spawns[u] = 0 /\ proc[u] = "none"
        /\ u \in running => proc[u] # "none"
        /\ u \notin used => /\ spawns[u] = 0 /\ proc[u] = "none" /\ cleanup[u] = "none"
                            /\ ~cancelReq[u]
                            /\ status[u] = "absent" /\ disk[u] = "absent"
                            /\ write.snap[u] = "absent"
    BY <1>3, Zenon DEF IInv, RunOnce
  <2>2. u \in running' => u \in running \/ status'[u] # st[u]
    BY <1>4, <1>5, Zenon DEF IInv, Consistent
  <2> QED
    BY <2>1, <2>2, <1>0, <1>4, <1>6, <1>7, SMTT(30)
<1>11. CancelOK'
  <2> SUFFICES ASSUME NEW u \in Task
               PROVE  /\ cancelReq'[u] => status'[u] \notin {"pending", "running", "completed"}
                      /\ status'[u] = "cancelling" /\ up' =>
                             cancelReq'[u] /\ (proc'[u] = "nopid" \/ cleanup'[u] # "none")
                      /\ exec'[u] = "draining" =>
                             cancelReq'[u] /\ cleanup'[u] \in {"term", "kill"}
                      /\ cleanup'[u] = "done" => proc'[u] = "gone"
                      /\ cleanup'[u] # "none" => status'[u] # "pending"
    BY Zenon DEF CancelOK
  <2>1. /\ cancelReq[u] => status[u] \notin {"pending", "running", "completed"}
        /\ status[u] = "cancelling" =>
               cancelReq[u] /\ (proc[u] = "nopid" \/ cleanup[u] # "none")
        /\ exec[u] = "draining" => cancelReq[u] /\ cleanup[u] \in {"term", "kill"}
        /\ cleanup[u] = "done" => proc[u] = "gone"
        /\ cleanup[u] # "none" => status[u] # "pending"
    BY <1>0, Zenon DEF IInv, CancelOK
  <2>2. cancelReq'[u] = cancelReq[u] /\ cleanup'[u] = cleanup[u]
    BY <1>7, Zenon
  <2>3. exec'[u] = "draining" => exec[u] = "draining"
    BY <1>5
  <2>4. CASE u = t
    BY <2>1, <2>2, <2>3, <2>4, <1>0, <1>4, <1>6, Zenon
  <2>5. CASE u # t
    BY <2>1, <2>2, <2>3, <2>5, <1>4, <1>6, Zenon
  <2> QED
    BY <2>4, <2>5, Zenon
<1>12. CancelledGroupGone'
  BY <1>4, <1>6, <1>7, Zenon DEF IInv, CancelledGroupGone
<1>13. ShutOK' /\ DownOK' /\ NoLostChange' /\ DrainedIsDurable'
  BY Zenon, <1>0, <1>7 DEF ShutOK, DownOK, NoLostChange, DrainedIsDurable, Writing
<1>14. DurableOK'
  <2>1. \A u \in Task : u # t /\ status[u] \in Terminal \union {"absent"}
                            => status'[u] = status[u]
    BY <1>4, <1>6, Zenon DEF Terminal
  <2> QED
    BY <2>1, <1>0, <1>7, Zenon DEF IInv, DurableOK, Writing, Terminal
<1> QED
  BY <1>5, <1>8, <1>9, <1>10, <1>11, <1>12, <1>13, <1>14, Zenon DEF IInv

\* cancelTask.
LEMMA CancelStep ==
    ASSUME IInv, NEW t \in Task, CancelTask(t)
    PROVE  IInv'
<1>0. up /\ t \in used /\ status[t] \in Live
  BY Zenon DEF CancelTask, Cancellable, IInv, RunOnce, Live
<1>1. /\ dirty' = TRUE /\ timer' = (timer \/ ~Writing) /\ write' = write
      /\ cancelReq' = [cancelReq EXCEPT ![t] = TRUE]
      /\ UNCHANGED <<timedOut, failures, shut, disk, saved, rejected, used,
                     up, crashes, writeErrors>>
  BY Zenon DEF CancelTask, PersistTasks, file, env
<1>2. /\ exec \in [Task -> {"none", "running", "draining"}] /\ spawns \in [Task -> Nat]
      /\ proc \in [Task -> {"none", "nopid", "leader", "orphans", "gone"}]
      /\ cleanup \in [Task -> {"none", "term", "kill", "done", "failed"}]
      /\ cancelReq \in [Task -> BOOLEAN]
      /\ status \in [Task -> Status]
  BY Zenon DEF IInv, TypeOK
<1>3. shut \notin {"flushing", "drained"}
  <2>1. shut \in {"flushing", "drained"} => pending = <<>> /\ running = {}
    BY DEF IInv, ShutOK
  <2>2. pending # <<>> \/ running # {}
    BY <1>0, SMTT(30) DEF Live, IInv, Consistent
  <2> QED
    BY <2>1, <2>2
<1>4. CASE status[t] = "pending"
  <2> DEFINE st == [status EXCEPT ![t] = "cancelled"]
             q == Without(pending, t)
             stopping == shut # "no"
  <2>1. Consistent(st, q, running, exec)
    BY <1>4, Removed, Zenon DEF IInv
  <2>2. ProcessQueue(st, q, running, stopping) /\ stopping \in BOOLEAN /\ cleanup' = cleanup
    BY <1>4, Zenon DEF CancelTask
  <2>3. \A u \in Task : st[u] = IF u = t THEN "cancelled" ELSE status[u]
    BY <1>2
  <2>4. shut = "no"
    BY <1>4, SMTT(30) DEF IInv, ShutOK, Consistent
  <2>5. ~stopping
    BY <2>4
  <2> HIDE DEF st, q, stopping
  <2>6. /\ Consistent(status', pending', running', exec')
        /\ exec' \in [Task -> {"none", "running", "draining"}]
        /\ \A u \in Task : u \in running' <=> exec'[u] # "none"
        /\ spawns' \in [Task -> Nat]
        /\ proc' \in [Task -> {"none", "nopid", "leader", "orphans", "gone"}]
        /\ pending' # <<>> => Cardinality(running') = MaxConcurrent
        /\ \A u \in Task : exec'[u] = "draining" => u \in running /\ exec[u] = "draining"
    BY <2>1, <2>2, <2>5, <1>2, ProcessQueueStep, SMTT(30)
  <2>7. \A u \in Task :
          \/ status'[u] = st[u] /\ spawns'[u] = spawns[u] /\ proc'[u] = proc[u]
          \/ /\ st[u] = "pending" /\ status'[u] = "running"
             /\ spawns'[u] = spawns[u] + 1 /\ proc'[u] \in {"leader", "nopid"}
    BY <2>1, <2>2, <2>5, <1>2, ProcessQueueStep, ZenonT(30)
  <2>8. TypeOK'
    BY Zenon, <1>1, <2>2, <2>6 DEF IInv, TypeOK, Consistent
  <2>9. NoStrandedTask'
    BY <2>6 DEF NoStrandedTask
  <2>10. RunOnce'
    <3> SUFFICES ASSUME NEW u \in Task
                 PROVE  /\ spawns'[u] <= 1
                        /\ status'[u] = "pending" => spawns'[u] = 0 /\ proc'[u] = "none"
                        /\ u \in running' => proc'[u] # "none"
                        /\ u \notin used' =>
                              /\ spawns'[u] = 0 /\ proc'[u] = "none" /\ cleanup'[u] = "none"
                              /\ ~cancelReq'[u]
                              /\ status'[u] = "absent" /\ disk'[u] = "absent"
                              /\ write'.snap[u] = "absent"
      BY DEF RunOnce
    <3>1. /\ spawns[u] <= 1 /\ spawns[u] \in Nat
          /\ status[u] = "pending" => spawns[u] = 0 /\ proc[u] = "none"
          /\ u \in running => proc[u] # "none"
          /\ u \notin used => /\ spawns[u] = 0 /\ proc[u] = "none" /\ cleanup[u] = "none"
                              /\ ~cancelReq[u]
                              /\ status[u] = "absent" /\ disk[u] = "absent"
                              /\ write.snap[u] = "absent"
      BY <1>2, Zenon DEF IInv, RunOnce
    <3>2. u \in running' => u \in running \/ status'[u] # st[u]
      BY ZenonT(30), <2>3, <2>6 DEF IInv, Consistent
    <3> QED
      BY <3>1, <3>2, <1>0, <1>1, <1>2, <2>2, <2>3, <2>7, SMTT(30)
  <2>11. CancelOK'
    <3> SUFFICES ASSUME NEW u \in Task
                 PROVE  /\ cancelReq'[u] => status'[u] \notin {"pending", "running", "completed"}
                        /\ status'[u] = "cancelling" /\ up' =>
                               cancelReq'[u] /\ (proc'[u] = "nopid" \/ cleanup'[u] # "none")
                        /\ exec'[u] = "draining" =>
                               cancelReq'[u] /\ cleanup'[u] \in {"term", "kill"}
                        /\ cleanup'[u] = "done" => proc'[u] = "gone"
                        /\ cleanup'[u] # "none" => status'[u] # "pending"
      BY DEF CancelOK
    <3>1. /\ cancelReq[u] => status[u] \notin {"pending", "running", "completed"}
          /\ status[u] = "cancelling" =>
                 cancelReq[u] /\ (proc[u] = "nopid" \/ cleanup[u] # "none")
          /\ exec[u] = "draining" => cancelReq[u] /\ cleanup[u] \in {"term", "kill"}
          /\ cleanup[u] = "done" => proc[u] = "gone"
          /\ cleanup[u] # "none" => status[u] # "pending"
      BY <1>0, Zenon DEF IInv, CancelOK
    <3>2. /\ cancelReq'[u] = (cancelReq[u] \/ u = t) /\ cleanup'[u] = cleanup[u]
      BY Zenon, <1>1, <1>2, <2>2
    <3>3. exec'[u] = "draining" => exec[u] = "draining"
      BY <2>6
    <3>4. CASE u = t
      BY <3>1, <3>2, <3>3, <3>4, <1>4, <2>3, <2>7, Zenon
    <3>5. CASE u # t
      BY Zenon, <3>1, <3>2, <3>3, <3>5, <2>3, <2>7
    <3> QED
      BY <3>4, <3>5
  <2>12. CancelledGroupGone'
    <3>1. proc[t] = "none"
      BY <1>4, Zenon DEF IInv, RunOnce
    <3> QED
      BY <3>1, <1>1, <1>2, <2>3, <2>7, ZenonT(30) DEF IInv, CancelledGroupGone
  <2>13. ShutOK' /\ DownOK' /\ NoLostChange' /\ DrainedIsDurable'
    BY Zenon, <1>0, <1>1, <2>4 DEF ShutOK, DownOK, NoLostChange, DrainedIsDurable, Writing
  <2>14. DurableOK'
    <3>1. \A u \in Task : status[u] \in Terminal \union {"absent"} => status'[u] = status[u]
      BY <1>4, <2>3, <2>7, Zenon DEF Terminal
    <3> QED
      BY <3>1, <1>1, Zenon DEF IInv, DurableOK, Writing
  <2> QED
    BY <2>6, <2>8, <2>9, <2>10, <2>11, <2>12, <2>13, <2>14 DEF IInv
<1>5. CASE status[t] # "pending"
  <2>1. /\ status' = [status EXCEPT ![t] = "cancelling"]
        /\ cleanup' = [u \in Task |-> IF u \in {t} /\ cleanup[u] = "none" /\ proc[u] # "nopid"
                                      THEN "term" ELSE cleanup[u]]
        /\ UNCHANGED <<pending, running, exec, proc, spawns>>
    BY <1>5, Zenon DEF CancelTask, RequestCancellation
  <2>2. t \in running
    BY <1>0, <1>5, Zenon DEF Live, IInv, Consistent
  <2>3. TypeOK'
    BY <1>1, <2>1, Zenon DEF IInv, TypeOK, Status, Live
  <2>4. Consistent(status', pending', running', exec')
    BY <2>1, <2>2, SMTT(30) DEF IInv, Consistent, Status, Live
  <2>5. NoStrandedTask' /\ \A u \in Task : u \in running' <=> exec'[u] # "none"
    BY <1>1, <2>1, Zenon DEF IInv, NoStrandedTask
  <2>6. RunOnce'
    BY <1>0, <1>1, <1>2, <2>1, Zenon DEF IInv, RunOnce
  <2>7. CancelOK'
    <3> SUFFICES ASSUME NEW u \in Task
                 PROVE  /\ cancelReq'[u] => status'[u] \notin {"pending", "running", "completed"}
                        /\ status'[u] = "cancelling" /\ up' =>
                               cancelReq'[u] /\ (proc'[u] = "nopid" \/ cleanup'[u] # "none")
                        /\ exec'[u] = "draining" =>
                               cancelReq'[u] /\ cleanup'[u] \in {"term", "kill"}
                        /\ cleanup'[u] = "done" => proc'[u] = "gone"
                        /\ cleanup'[u] # "none" => status'[u] # "pending"
      BY DEF CancelOK
    <3>1. /\ cancelReq[u] => status[u] \notin {"pending", "running", "completed"}
          /\ status[u] = "cancelling" =>
                 cancelReq[u] /\ (proc[u] = "nopid" \/ cleanup[u] # "none")
          /\ exec[u] = "draining" => cancelReq[u] /\ cleanup[u] \in {"term", "kill"}
          /\ cleanup[u] = "done" => proc[u] = "gone"
          /\ cleanup[u] # "none" => status[u] # "pending"
      BY <1>0 DEF IInv, CancelOK
    <3> QED
      BY <3>1, <1>1, <1>2, <2>1, Zenon
  <2>8. CancelledGroupGone'
    BY <1>1, <1>2, <2>1, Zenon DEF IInv, CancelledGroupGone
  <2>9. ShutOK' /\ DownOK' /\ NoLostChange' /\ DrainedIsDurable'
    BY Zenon, <1>0, <1>1, <1>3, <2>1 DEF IInv, ShutOK, DownOK, NoLostChange, DrainedIsDurable,
           Writing
  <2>10. DurableOK'
    BY <1>0, <1>1, <1>2, <2>1, Zenon DEF IInv, DurableOK, Writing, Terminal, Live
  <2> QED
    BY <2>3, <2>4, <2>5, <2>6, <2>7, <2>8, <2>9, <2>10, Zenon DEF IInv
<1> QED
  BY <1>4, <1>5

\* shutdown itself.
LEMMA ShutdownStep ==
    ASSUME IInv, Shutdown
    PROVE  IInv'
<1> DEFINE queued == {pending[i] : i \in 1..Len(pending)}
<1>1. /\ up /\ shut = "no" /\ shut' = "draining" /\ pending' = <<>>
      /\ cancelReq' = [t \in Task |-> cancelReq[t] \/ t \in queued \union running]
      /\ status' = [t \in Task |-> IF t \in queued THEN "cancelled"
                                   ELSE IF t \in running THEN "cancelling" ELSE status[t]]
      /\ cleanup' = [t \in Task |-> IF t \in running /\ cleanup[t] = "none" /\ proc[t] # "nopid"
                                    THEN "term" ELSE cleanup[t]]
      /\ dirty' = TRUE /\ timer' = (timer \/ ~Writing) /\ write' = write
      /\ UNCHANGED <<running, exec, timedOut, failures, file, world, env>>
  BY Zenon DEF Shutdown, RequestCancellation, PersistTasks
<1>2. /\ \A t \in Task : status[t] = "pending" <=> t \in queued
      /\ \A t \in Task : status[t] \in {"running", "cancelling"} <=> t \in running
      /\ status \in [Task -> Status] /\ cancelReq \in [Task -> BOOLEAN]
      /\ cleanup \in [Task -> {"none", "term", "kill", "done", "failed"}]
      /\ timer \in BOOLEAN
  BY SMTT(30) DEF IInv, TypeOK, Consistent
<1> HIDE DEF queued
<1>3. /\ status' \in [Task -> Status] /\ cancelReq' \in [Task -> BOOLEAN]
      /\ cleanup' \in [Task -> {"none", "term", "kill", "done", "failed"}]
  BY <1>1, <1>2, Zenon DEF Status, Live, Terminal
<1>4. \A t \in Task :
          /\ status'[t] = IF status[t] = "pending" THEN "cancelled"
                          ELSE IF t \in running THEN "cancelling" ELSE status[t]
          /\ cancelReq'[t] <=> cancelReq[t] \/ status[t] = "pending" \/ t \in running
          /\ cleanup'[t] = IF t \in running /\ cleanup[t] = "none" /\ proc[t] # "nopid"
                           THEN "term" ELSE cleanup[t]
  BY Zenon, <1>1, <1>2
<1>5. TypeOK'
  <2>1. pending' \in Seq(Task) /\ timer' \in BOOLEAN
    BY <1>1, <1>2, SMTT(30)
  <2> QED
    BY <1>1, <1>3, <2>1, Zenon DEF IInv, TypeOK, file, world, env
<1>6. Consistent(status', pending', running', exec')
  <2>1. pending' \in Seq(Task) /\ Len(pending') = 0
    BY <1>1, SMTT(30)
  <2>2. \A t \in Task : /\ status'[t] # "pending"
                        /\ status'[t] \in {"running", "cancelling"} <=> t \in running
    BY <1>2, <1>4, Zenon
  <2> QED
    BY <1>1, <1>3, <2>2, SMTT(30) DEF IInv, Consistent
<1>7. NoStrandedTask' /\ \A t \in Task : t \in running' <=> exec'[t] # "none"
  BY <1>1, Zenon DEF IInv, NoStrandedTask
<1>8. RunOnce'
  BY <1>1, <1>4, Zenon DEF IInv, RunOnce, file, world
<1>9. CancelOK'
  <2> SUFFICES ASSUME NEW t \in Task
               PROVE  /\ cancelReq'[t] => status'[t] \notin {"pending", "running", "completed"}
                      /\ status'[t] = "cancelling" /\ up' =>
                             cancelReq'[t] /\ (proc'[t] = "nopid" \/ cleanup'[t] # "none")
                      /\ exec'[t] = "draining" =>
                             cancelReq'[t] /\ cleanup'[t] \in {"term", "kill"}
                      /\ cleanup'[t] = "done" => proc'[t] = "gone"
                      /\ cleanup'[t] # "none" => status'[t] # "pending"
    BY Zenon DEF CancelOK
  <2>1. /\ cancelReq[t] => status[t] \notin {"pending", "running", "completed"}
        /\ exec[t] = "draining" => cancelReq[t] /\ cleanup[t] \in {"term", "kill"}
        /\ cleanup[t] = "done" => proc[t] = "gone"
        /\ t \in running <=> status[t] \in {"running", "cancelling"}
    BY <1>2, Zenon DEF IInv, CancelOK
  <2>2. exec'[t] = exec[t] /\ proc'[t] = proc[t]
    BY <1>1, Zenon DEF world
  <2> QED
    BY <2>1, <2>2, <1>4, Zenon
<1>10. CancelledGroupGone'
  <2>1. \A t \in Task : status[t] = "pending" => proc[t] = "none"
    BY Zenon DEF IInv, RunOnce
  <2> QED
    BY <1>1, <1>4, <2>1, Zenon DEF IInv, CancelledGroupGone, world
<1>11. ShutOK' /\ DownOK' /\ NoLostChange' /\ DrainedIsDurable'
  BY Zenon, <1>1 DEF ShutOK, DownOK, NoLostChange, DrainedIsDurable, Writing, env
<1>12. DurableOK'
  <2>1. \A t \in Task : status[t] \in Terminal \union {"absent"} => status'[t] = status[t]
    BY <1>2, <1>4, Zenon DEF Terminal
  <2> QED
    BY <1>1, <2>1, Zenon DEF IInv, DurableOK, Writing, file
<1> QED
  BY <1>5, <1>6, <1>7, <1>8, <1>9, <1>10, <1>11, <1>12, Zenon DEF IInv

\* Every step.
LEMMA NextIInv ==
    ASSUME IInv, RestartOK, [Next]_vars
    PROVE  IInv'
<1>1. CASE UNCHANGED vars
  BY <1>1, ZenonT(30) DEF IInv, TypeOK, NoStrandedTask, RunOnce, CancelOK, CancelledGroupGone,
     ShutOK, DownOK, NoLostChange, DrainedIsDurable, DurableOK, Writing, vars, memory, persist,
     file, world, env
<1>2. ASSUME NEW t \in Task, EnqueueTask(t) PROVE IInv'
  BY <1>2, EnqueueStep
<1>3. ASSUME NEW t \in Task, CancelTask(t) PROVE IInv'
  BY <1>3, CancelStep
<1>4. ASSUME NEW t \in Task,
             ExecutorResolves(t) \/ ExecutorRejects(t) \/ CleanupAbsent(t) \/ CleanupFails(t)
      PROVE  IInv'
  BY <1>4, SettleStep
<1>5. ASSUME NEW t \in Task,
             \/ TaskTimeout(t) \/ OnControl(t) \/ CleanupKill(t)
             \/ LeaderExits(t) \/ OrphansExit(t)
      PROVE  IInv'
  BY <1>5, QuietStep
<1>6. CASE PersistTimer \/ ShutdownPoll \/ \E ok \in BOOLEAN : WriteDone(ok)
  BY <1>6, WriteStep
<1>7. CASE Shutdown
  BY <1>7, ShutdownStep
<1>8. CASE ShutdownTimeout
  <2>1. PICK t \in Task : t \in running
    BY <1>8, Zenon DEF ShutdownTimeout, IInv, TypeOK
  <2> QED
    BY <1>8, <2>1, QuietStep
<1>9. CASE Crash
  BY <1>9, CrashStep
<1>10. CASE Initialize
  BY <1>10, InitializeStep
<1> QED
  BY <1>1, <1>2, <1>3, <1>4, <1>5, <1>6, <1>7, <1>8, <1>9, <1>10, ZenonT(30) DEF Next

(***************************************************************************)
(* The theorems.                                                           *)
(***************************************************************************)
\* The inductive invariant holds in every reachable state, for any number of
\* tasks, slots, crashes and failed writes.
THEOREM QueueInvariant == Spec => [](IInv /\ RestartOK)
<1>1. Init => IInv /\ RestartOK
  BY InitIInv, Zenon DEF Init, RestartOK
<1>2. IInv /\ RestartOK /\ [Next]_vars => IInv' /\ RestartOK'
  BY NextIInv, RestartOKHolds
<1> QED
  BY <1>1, <1>2, PTL DEF Spec

\* Every variable keeps its type: no status outside the documented ones is ever
\* stored in memory or in the queue file.
THEOREM TypeCorrect == Spec => []TypeOK
<1>1. IInv => TypeOK
  BY DEF IInv
<1> QED
  BY <1>1, QueueInvariant, PTL

\* processQueue never runs more than maxConcurrent tasks.
THEOREM Concurrency == Spec => []ConcurrencyBound
<1>1. IInv => ConcurrencyBound
  BY Zenon DEF IInv, Consistent, ConcurrencyBound
<1> QED
  BY <1>1, QueueInvariant, PTL

\* A task waits only while every slot is taken.
THEOREM NoTaskStranded == Spec => []NoStrandedTask
<1>1. IInv => NoStrandedTask
  BY DEF IInv
<1> QED
  BY <1>1, QueueInvariant, PTL

\* Statuses, FIFO, running set and executors agree.
THEOREM BookkeepingHolds == Spec => []Bookkeeping
<1>1. IInv => Bookkeeping
  BY Zenon DEF IInv, Consistent, Bookkeeping
<1> QED
  BY <1>1, QueueInvariant, PTL

\* Over crashes and restarts no command is spawned twice.
THEOREM AtMostOnce == Spec => []SpawnedAtMostOnce
<1>1. IInv => SpawnedAtMostOnce
  BY Zenon DEF IInv, RunOnce, SpawnedAtMostOnce
<1> QED
  BY <1>1, QueueInvariant, PTL

\* An accepted cancellation is never reported as a completion.
THEOREM CancellationWins == Spec => []CancelWins
<1>1. IInv => CancelWins
  BY Zenon DEF IInv, CancelOK, CancelWins
<1> QED
  BY <1>1, QueueInvariant, PTL

\* The debounced, superseding writes lose no change.
THEOREM NothingLost == Spec => []NoLostChange
<1>1. IInv => NoLostChange
  BY DEF IInv
<1> QED
  BY <1>1, QueueInvariant, PTL

\* A drained queue is exactly what its file holds.
THEOREM DrainDurable == Spec => []DrainedIsDurable
<1>1. IInv => DrainedIsDurable
  BY DEF IInv
<1> QED
  BY <1>1, QueueInvariant, PTL

\* A task reported cancelled left no process behind, unless its executor rejected.
THEOREM CancelledGroups == Spec => []CancelledGroupGone
<1>1. IInv => CancelledGroupGone
  BY DEF IInv
<1> QED
  BY <1>1, QueueInvariant, PTL

\* The queue file never replaces an outcome it holds by another one.
THEOREM OutcomesDurable == Spec => DurableOutcome
<1>1. ASSUME IInv, [Next]_vars, NEW t \in Task, disk[t] \in Terminal
      PROVE  disk'[t] \in {disk[t], "absent"}
  <2>1. disk' = disk \/ (up /\ Writing /\ disk' = write.snap)
    <3>1. CASE UNCHANGED vars
      BY <3>1 DEF vars, file
    <3>2. ASSUME NEW u \in Task,
                 \/ EnqueueTask(u) \/ CancelTask(u) \/ TaskTimeout(u) \/ OnControl(u)
                 \/ CleanupKill(u) \/ LeaderExits(u) \/ OrphansExit(u)
          PROVE  disk' = disk
      BY Zenon, <3>2 DEF EnqueueTask, CancelTask, TaskTimeout, OnControl, CleanupKill,
             LeaderExits, OrphansExit, file
    <3>3. ASSUME NEW u \in Task,
                 \/ ExecutorResolves(u) \/ ExecutorRejects(u)
                 \/ CleanupAbsent(u) \/ CleanupFails(u)
          PROVE  disk' = disk
      BY Zenon, <3>3 DEF ExecutorResolves, ExecutorRejects, CleanupAbsent, CleanupFails, Finish,
             file
    <3>4. CASE PersistTimer \/ ShutdownPoll \/ Shutdown \/ ShutdownTimeout \/ Initialize
      BY <3>4, Zenon DEF PersistTimer, ShutdownPoll, Shutdown, ShutdownTimeout, Initialize, file
    <3>5. CASE Crash \/ \E ok \in BOOLEAN : WriteDone(ok)
      BY <3>5, Zenon DEF Crash, WriteDone, file
    <3> QED
      BY <1>1, <3>1, <3>2, <3>3, <3>4, <3>5, Zenon DEF Next
  <2> QED
    BY <1>1, <2>1, Zenon DEF IInv, DurableOK
<1>2. IInv /\ [Next]_vars =>
          [\A t \in Task : disk[t] \in Terminal => disk'[t] \in {disk[t], "absent"}]_vars
  BY <1>1, Zenon
<1> QED
  BY <1>2, QueueInvariant, PTL DEF Spec, DurableOutcome

\* A task that ended keeps its outcome while the process lives: a step changes
\* only the statuses of unfinished tasks, apart from what retention drops.
THEOREM OutcomesStable == Spec => OutcomeStable
<1>1. ASSUME IInv, [Next]_vars, up, up', NEW t \in Task, status[t] \in Terminal
      PROVE  status'[t] \in {status[t], "absent"}
  <2>0. /\ status \in [Task -> Status] /\ exec \in [Task -> {"none", "running", "draining"}]
        /\ \A u \in Task : u \in running <=> exec[u] # "none"
        /\ \A u \in Task : status[u] \in {"running", "cancelling"} <=> u \in running
        /\ \A u \in Task : u \notin used => status[u] = "absent"
        /\ status[t] \notin Live /\ status[t] # "absent"
    BY <1>1, Zenon DEF IInv, TypeOK, Consistent, RunOnce, Terminal, Live
  <2>1. ASSUME NEW u \in Task, u # t, NEW new, NEW pend, NEW run, NEW stopping,
               ProcessQueue([status EXCEPT ![u] = new], pend, run, stopping)
        PROVE  status'[t] = status[t]
    <3> DEFINE st == [status EXCEPT ![u] = new]
    <3>1. st[t] = status[t] /\ st[t] # "pending"
      BY <2>0, <2>1, Zenon DEF Live
    <3> HIDE DEF st
    <3>2. \E started : /\ \A x \in started : st[x] = "pending"
                       /\ status' = [x \in Task |-> IF x \in started THEN "running" ELSE st[x]]
      <4>1. ProcessQueue(st, pend, run, stopping)
        BY <2>1 DEF st
      <4> QED
        BY <4>1, Zenon DEF ProcessQueue
    <3> QED
      BY <3>1, <3>2, Zenon
  <2>2. CASE UNCHANGED vars
    BY <2>2, Zenon DEF vars, memory
  <2>3. ASSUME NEW u \in Task, EnqueueTask(u) PROVE status'[t] = status[t]
    BY Zenon, <2>0, <2>1, <2>3 DEF EnqueueTask
  <2>4. ASSUME NEW u \in Task, CancelTask(u) PROVE status'[t] = status[t]
    <3>1. u # t
      BY <2>0, <2>4, Zenon DEF CancelTask, Cancellable
    <3> QED
      BY Zenon, <2>0, <2>1, <2>4, <3>1 DEF CancelTask
  <2>5. ASSUME NEW u \in Task,
               \/ ExecutorResolves(u) \/ ExecutorRejects(u)
               \/ CleanupAbsent(u) \/ CleanupFails(u)
        PROVE  status'[t] = status[t]
    <3>1. \/ status' = status
          \/ exec[u] # "none" /\ \E outcome : Finish(u, outcome)
      BY <2>5, Zenon DEF ExecutorResolves, ExecutorRejects, CleanupAbsent, CleanupFails
    <3>2. ASSUME NEW outcome, exec[u] # "none", Finish(u, outcome)
          PROVE  status'[t] = status[t]
      <4>1. u # t
        BY <2>0, <3>2, Zenon DEF Live
      <4> QED
        BY <2>1, <3>2, <4>1, Zenon DEF Finish
    <3> QED
      BY <3>1, <3>2, Zenon
  <2>6. ASSUME NEW u \in Task,
               \/ TaskTimeout(u) \/ OnControl(u) \/ CleanupKill(u)
               \/ LeaderExits(u) \/ OrphansExit(u) \/ ShutdownTimeout
        PROVE  status'[t] = status[t]
    BY <2>6, Zenon DEF TaskTimeout, OnControl, CleanupKill, LeaderExits, OrphansExit,
       ShutdownTimeout, memory
  <2>7. ASSUME NEW by, StartPersistWrite(by) PROVE status'[t] \in {status[t], "absent"}
    BY <2>7, Zenon DEF StartPersistWrite
  <2>8. CASE PersistTimer \/ ShutdownPoll \/ \E ok \in BOOLEAN : WriteDone(ok)
    BY <2>7, <2>8, Zenon DEF PersistTimer, ShutdownPoll, WriteDone, FlushPersist
  <2>9. CASE Shutdown
    <3>1. t \notin running /\ t \notin {pending[i] : i \in 1..Len(pending)}
      BY <1>1, <2>0, SMTT(30) DEF IInv, Consistent, Live
    <3> QED
      BY <2>9, <3>1, Zenon DEF Shutdown
  <2>10. CASE Crash \/ Initialize
    BY <1>1, <2>10, Zenon DEF Crash, Initialize
  <2> QED
    BY <1>1, <2>2, <2>3, <2>4, <2>5, <2>6, <2>8, <2>9, <2>10, ZenonT(30) DEF Next
<1>2. IInv /\ [Next]_vars =>
          [\A t \in Task : up /\ up' /\ status[t] \in Terminal
                              => status'[t] \in {status[t], "absent"}]_vars
  BY <1>1, Zenon
<1> QED
  BY <1>2, QueueInvariant, PTL DEF Spec, OutcomeStable
===============================================================================

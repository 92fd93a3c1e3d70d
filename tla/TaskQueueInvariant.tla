-------------------------- MODULE TaskQueueInvariant --------------------------
(***************************************************************************)
(* The inductive invariant of TaskQueue.                                   *)
(***************************************************************************)
EXTENDS TaskQueue

\* The agreement of statuses, FIFO and running set that processQueue needs and
\* leaves behind.
Consistent(st, pend, run, ex) ==
    /\ st \in [Task -> Status] /\ pend \in Seq(Task) /\ run \in SUBSET Task
    /\ IsFiniteSet(run) /\ Cardinality(run) <= MaxConcurrent
    /\ \A i, j \in 1..Len(pend) : pend[i] = pend[j] => i = j
    /\ \A t \in Task : st[t] = "pending" <=> \E i \in 1..Len(pend) : pend[i] = t
    /\ \A t \in Task : st[t] \in {"running", "cancelling"} <=> t \in run
    /\ \A t \in run : ex[t] \in {"running", "draining"}

\* An id that was not generated left no trace; a pending task has no process;
\* no command is spawned twice.
RunOnce ==
    \A t \in Task :
        /\ spawns[t] <= 1
        /\ status[t] = "pending" => spawns[t] = 0 /\ proc[t] = "none"
        /\ t \in running => proc[t] # "none"
        /\ t \notin used => /\ spawns[t] = 0 /\ proc[t] = "none" /\ cleanup[t] = "none"
                            /\ ~cancelReq[t]
                            /\ status[t] = "absent" /\ disk[t] = "absent"
                            /\ write.snap[t] = "absent"

\* What a cancellation leaves behind until the task has ended: a cleanup for every
\* process group, which is awaited before the task is reported cancelled.
CancelOK ==
    \A t \in Task :
        /\ cancelReq[t] => status[t] \notin {"pending", "running", "completed"}
        /\ status[t] = "cancelling" /\ up =>
               cancelReq[t] /\ (proc[t] = "nopid" \/ cleanup[t] # "none")
        /\ exec[t] = "draining" => cancelReq[t] /\ cleanup[t] \in {"term", "kill"}
        /\ cleanup[t] = "done" => proc[t] = "gone"
        /\ cleanup[t] # "none" => status[t] # "pending"

\* The stages of shutdown.
ShutOK ==
    /\ shut # "no" => pending = <<>>
    /\ shut \in {"flushing", "drained"} => running = {}
    /\ shut = "flushing" => Writing

\* A dead process holds no state.
DownOK ==
    ~up => /\ status = NoTasks /\ pending = <<>> /\ running = {} /\ shut = "no"
           /\ exec = [t \in Task |-> "none"] /\ write = Idle /\ ~dirty /\ ~timer

\* An outcome in the file, in the snapshot in flight and in memory agree, in this
\* order of age, unless retention has dropped the task from the newer one.
DurableOK ==
    up => \A t \in Task :
        /\ disk[t] \in Terminal => status[t] \in {disk[t], "absent"}
        /\ Writing /\ disk[t] \in Terminal => write.snap[t] \in {disk[t], "absent"}
        /\ Writing /\ write.snap[t] \in Terminal => status[t] \in {write.snap[t], "absent"}

IInv ==
    /\ TypeOK
    /\ Consistent(status, pending, running, exec)
    /\ \A t \in Task : t \in running <=> exec[t] # "none"
    /\ NoStrandedTask /\ RunOnce /\ CancelOK /\ CancelledGroupGone
    /\ ShutOK /\ DownOK /\ NoLostChange /\ DrainedIsDurable /\ DurableOK
===============================================================================

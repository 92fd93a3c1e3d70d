---------------------------- MODULE ToolWorkerPool ----------------------------
(***************************************************************************)
(* A pool of warm tool workers (Agent/server/toolWorkerPool.mjs) and the   *)
(* runtime of a worker (Agent/lib/toolWorker.mjs).                         *)
(*                                                                         *)
(* An action of the pool is one callback of its event loop; a worker is a  *)
(* process that takes steps of its own, connected by a channel of frames   *)
(* and by its output pipes, and may die at any moment. The code identity   *)
(* is a number that grows with every change of the tool code (its stamps   *)
(* hold mtime and ctime, so an identity never comes back), and the hook    *)
(* that reads it is the asynchronous one of AgentServer.mjs.               *)
(*                                                                         *)
(* Left out: tokens, frame contents, and output other than the end markers.*)
(* The markers of stdout and stderr are one mark, the later of the two.    *)
(***************************************************************************)
EXTENDS Integers, Sequences, FiniteSets

CONSTANTS
    Call, Worker,  \* calls; slots for workers, reused once a worker is gone
    None,
    Size,          \* pool option size
    MaxQueue,      \* pool option maxQueue
    DeathLimit,    \* UNPRODUCTIVE_DEATH_LIMIT
    MaxCode,       \* bound: versions of the tool code
    MaxFaults      \* bound: crashes, fatal errors, stray outputs, protocol errors and
                   \* idle timeouts

ASSUME SizeAssumption == Size \in Nat \ {0} /\ MaxQueue \in Nat /\ DeathLimit \in Nat \ {0}
ASSUME NoneAssumption == None \notin Call
ASSUME WorkerAssumption == IsFiniteSet(Worker)
ASSUME BoundAssumption == MaxCode \in Nat \ {0} /\ MaxFaults \in Nat

VARIABLES
    worker,    \* the pool's view of a worker
    process,   \* its process and what is in flight between the two
    call,      \* the calls
    queue,     \* this.queue
    walk,      \* the identity walk in flight, with the code it started from
    late,      \* the queued calls with an enqueueSeq above the walk's seq
    failing,   \* identityFailing
    deaths,    \* unproductiveDeaths
    degraded,  \* isDegraded()
    shut,      \* shutdown: "no", waiting, or what it returned
    code,      \* the version of the tool code on disk
    faults

pool == <<queue, walk, late, failing, deaths, degraded, shut>>
env == <<code, faults>>
vars == <<worker, process, call, pool, env>>

Version == 0..MaxCode
Outcome == {"done", "failed", "fallback"}
Frame == [type : {"ready"}] \union [type : {"result"}, id : Call]
             \union [type : {"exiting"}, last : Call \union {None}]
NoWorker == [st |-> "none", call |-> None, ident |-> 0, ann |-> FALSE, byPool |-> FALSE,
             used |-> FALSE]
NoProcess == [st |-> "none", killed |-> FALSE, loaded |-> 0, inbox |-> None, run |-> None,
              last |-> None, out |-> <<>>, mark |-> None]
NoWalk == [on |-> FALSE, from |-> 0]

WorkerRecord ==
    [st : {"none", "starting", "idle", "busy", "retiring", "starting-retiring"},
     call : Call \union {None}, ident : Version, ann : BOOLEAN, byPool : BOOLEAN,
     used : BOOLEAN]
ProcessRecord ==
    [st : {"none", "boot", "serving", "exiting", "dead"}, killed : BOOLEAN,
     loaded : Version, inbox : Call \union {None}, run : Call \union {None},
     last : Call \union {None}, out : Seq(Frame), mark : Call \union {None}]
CallRecord ==
    [st : {"new", "queued", "sent"} \union Outcome, runs : Nat, asked : Version,
     requeued : BOOLEAN, frame : BOOLEAN, mark : BOOLEAN]

TypeOK ==
    /\ worker \in [Worker -> WorkerRecord] /\ process \in [Worker -> ProcessRecord]
    /\ call \in [Call -> CallRecord]
    /\ queue \in Seq(Call) /\ late \subseteq Call
    /\ walk \in [on : BOOLEAN, from : Version]
    /\ failing \in BOOLEAN /\ deaths \in 0..(DeathLimit - 1) /\ degraded \in BOOLEAN
    /\ shut \in {"no", "waiting", "clean", "unclean"}
    /\ code \in Version /\ faults \in 0..MaxFaults

Init ==
    /\ worker = [w \in Worker |-> NoWorker] /\ process = [w \in Worker |-> NoProcess]
    /\ call = [c \in Call |-> [st |-> "new", runs |-> 0, asked |-> 0, requeued |-> FALSE,
                               frame |-> FALSE, mark |-> FALSE]]
    /\ queue = <<>> /\ walk = NoWalk /\ late = {} /\ failing = FALSE /\ deaths = 0
    /\ degraded = FALSE /\ shut = "no" /\ code = 1 /\ faults = 0

In(ws, state) == {w \in Worker : ws[w].st = state}
Workers(ws) == {w \in Worker : ws[w].st # "none"}
Alive(ps) == {w \in Worker : ps[w].st \in {"boot", "serving", "exiting"}}
Least(m, n) == IF m < n THEN m ELSE n

(***************************************************************************)
(* Calls, workers and processes after one of the pool's helpers.           *)
(***************************************************************************)
\* settle, for the calls in cs.
Settled(cs, outcome) ==
    [c \in Call |-> IF c \in cs THEN [call[c] EXCEPT !.st = outcome] ELSE call[c]]

\* runQueuedOnFallback: a fresh process runs the call.
Fallback(calls, cs) ==
    [c \in Call |-> IF c \in cs THEN [calls[c] EXCEPT !.st = "fallback", !.runs = @ + 1]
                    ELSE calls[c]]

\* retire: out of service, and still a worker until its exit is seen.
Retired(ws, gone) ==
    [w \in Worker |->
        IF w \in gone
        THEN [ws[w] EXCEPT !.byPool = TRUE,
                           !.st = IF @ = "starting" THEN "starting-retiring" ELSE "retiring"]
        ELSE ws[w]]

\* killWorkerGroup: SIGKILL, which takes effect some time later.
Killed(ps, gone) ==
    [w \in Worker |-> IF w \in gone THEN [ps[w] EXCEPT !.killed = TRUE] ELSE ps[w]]

\* failBusyCall and retire.
FailAndRetire(w) ==
    /\ call' = Settled({worker[w].call} \ {None}, "failed")
    /\ worker' = Retired([worker EXCEPT ![w].call = None], {w})
    /\ process' = Killed(process, {w})

(***************************************************************************)
(* The queue and the identity walks.                                       *)
(***************************************************************************)
\* walkNeeded: a queued call could use the result of a walk.
WalkNeeded(q, ws, fails) ==
    /\ q # <<>>
    /\ \/ fails \/ In(ws, "idle") # {}
       \/ Len(q) > Cardinality(In(ws, "starting")) /\ Cardinality(Workers(ws)) < Size

\* Mutant: nothing starts a walk but a new call.
PumpNever(q, ws, fails, busy) == walk' = (IF busy THEN walk ELSE NoWalk) /\ UNCHANGED late

\* pump, with startWalk; busy says that a walk is in flight.
Pump(q, ws, fails, busy) ==
    IF ~busy /\ shut = "no" /\ WalkNeeded(q, ws, fails)
    THEN walk' = [on |-> TRUE, from |-> code] /\ late' = {}
    ELSE walk' = (IF busy THEN walk ELSE NoWalk) /\ late' = (IF busy THEN late ELSE {})

\* The bound of call(): starting workers and workers that may still be spawned take
\* calls from the queue, idle ones only the calls a walk in flight may hand out.
Saturated ==
    LET spawnable == Size - Cardinality(Workers(worker))
        eligible == Len(queue) - Cardinality(late)
        taken == IF walk.on THEN Least(Cardinality(In(worker, "idle")), eligible) ELSE 0
        waiting == Len(queue) - Cardinality(In(worker, "starting")) - spawnable - taken
    IN  waiting >= MaxQueue /\ (walk.on \/ In(worker, "idle") = {})

\* call(): refused while shutting down, handed to the fallback while degraded,
\* refused when its frame is too large or the queue is full, or queued.
Enter(c) ==
    /\ call[c].st = "new"
    /\ \/ /\ shut = "no" /\ ~degraded /\ ~Saturated
          /\ call' = [call EXCEPT ![c].st = "queued", ![c].asked = code]
          /\ queue' = Append(queue, c)
          /\ IF walk.on THEN late' = late \union {c} /\ UNCHANGED walk
                        ELSE Pump(queue', worker, failing, FALSE)
       \/ /\ shut # "no" \/ ~degraded
          /\ call' = Settled({c}, "failed") /\ UNCHANGED <<queue, walk, late>>
       \/ /\ shut = "no" /\ degraded
          /\ call' = Fallback(call, {c}) /\ UNCHANGED <<queue, walk, late>>
    /\ UNCHANGED <<worker, process, failing, deaths, degraded, shut, env>>

\* Mutant: a call that came after the start of the walk is handed out, too.
EligibleAll == {queue[i] : i \in 1..Len(queue)}

\* The idle workers that were spawned under another identity.
Outdated(version) == {w \in In(worker, "idle") : worker[w].ident # version}

\* The queued calls that are older than the walk. They come first in the queue: a new
\* call is appended, and one that is put back at the head is older than any walk.
Eligible == {queue[i] : i \in 1..Len(queue)} \ late

\* completeWalk with a result: outdated idle workers are retired, the others get
\* calls, and workers are spawned for what is left. Then pump.
CompleteWalk(version) ==
    LET kept == Retired(worker, Outdated(version))
        n == Least(Cardinality(Eligible), Cardinality(In(kept, "idle")))
        sent == {queue[i] : i \in 1..n}
        rest == SubSeq(queue, n + 1, Len(queue))
    IN  \E takes \in [sent -> In(kept, "idle")] :
          LET takers == {takes[c] : c \in sent}
              Taken(w) == CHOOSE c \in sent : takes[c] = w
              busy == [w \in Worker |-> IF w \in takers
                                        THEN [kept[w] EXCEPT !.st = "busy", !.call = Taken(w)]
                                        ELSE kept[w]]
              wanted == Least(Len(rest) - Cardinality(In(busy, "starting")),
                              Size - Cardinality(Workers(busy)))
          IN  /\ Cardinality(takers) = n
              /\ \E spawned \in SUBSET {w \in Worker : worker[w] = NoWorker /\ process[w] = NoProcess} :
                    /\ Cardinality(spawned) = IF wanted > 0 THEN wanted ELSE 0
                    /\ worker' = [w \in Worker |->
                          IF w \in spawned
                          THEN [NoWorker EXCEPT !.st = "starting", !.ident = version]
                          ELSE busy[w]]
              /\ process' = [w \in Worker |->
                    IF w \in takers THEN [process[w] EXCEPT !.inbox = Taken(w)]
                    ELSE Killed(process, Outdated(version))[w]]
              /\ call' = [c \in Call |-> IF c \in sent THEN [call[c] EXCEPT !.st = "sent"]
                                         ELSE call[c]]
              /\ queue' = rest /\ failing' = FALSE
              /\ Pump(rest, worker', FALSE, FALSE)

\* finishWalk: a version between the start of the walk and now.
WalkDone ==
    /\ walk.on
    /\ \E version \in walk.from..code : CompleteWalk(version)
    /\ UNCHANGED <<deaths, degraded, shut, env>>

\* The walk fails or takes too long: every queued call runs as a fresh process.
WalkFails ==
    /\ walk.on
    /\ walk' = NoWalk /\ late' = {}
    /\ call' = Fallback(call, {queue[i] : i \in 1..Len(queue)})
    /\ queue' = <<>> /\ failing' = TRUE
    /\ UNCHANGED <<worker, process, deaths, degraded, shut, env>>

(***************************************************************************)
(* Starting and losing workers.                                            *)
(***************************************************************************)
\* Mutant: a worker that never served a call is forgiven.
UnproductiveNever(w) == FALSE

\* A worker whose end counts towards the limit that degrades the pool.
Unproductive(w) ==
    \/ worker[w].st \in {"starting", "starting-retiring"}
    \/ ~worker[w].used /\ ~worker[w].byPool

\* recordUnproductiveDeath: the count of such ends without a completed call.
RecordDeath(counts, degrades) ==
    IF degrades THEN 0 ELSE IF counts THEN deaths + 1 ELSE deaths

\* onWorkerGone, with recordUnproductiveDeath, drainQueueToFallback and the part of
\* onNoSocketDirectory that degrades the pool at once.
OnWorkerGone(w, socketless) ==
    LET counts == shut = "no" /\ ~socketless /\ Unproductive(w)
        limit == counts /\ deaths + 1 >= DeathLimit
        probed == socketless /\ shut = "no" /\ ~degraded
        failed == Settled({worker[w].call} \ {None}, "failed")
    IN  /\ worker' = [worker EXCEPT ![w] = NoWorker]
        /\ process' = IF w \in Alive(process) THEN Killed(process, {w})
                      ELSE [process EXCEPT ![w] = NoProcess]
        /\ deaths' = RecordDeath(counts, limit \/ probed)
        /\ degraded' = (degraded \/ limit \/ probed)
        /\ \/ /\ degraded' /\ queue' = <<>> /\ late' = {}
              /\ call' = Fallback(failed, {queue[i] : i \in 1..Len(queue)})
              /\ UNCHANGED walk
           \/ /\ ~degraded' /\ call' = failed
              /\ Pump(queue, worker', failing, walk.on)
              /\ UNCHANGED queue
        /\ UNCHANGED <<failing, shut, env>>

\* spawnWorker, openWorkerSocket and launchWorker: the process starts, or the worker
\* is abandoned because its socket or its process fails or it was retired meanwhile.
LaunchWorker(w) ==
    /\ worker[w].st # "none" /\ process[w].st = "none"
    /\ \/ /\ worker[w].st = "starting" /\ shut = "no"
          /\ process' = [process EXCEPT ![w].st = "boot", ![w].loaded = code]
          /\ UNCHANGED <<worker, call, pool, env>>
       \/ OnWorkerGone(w, FALSE)

\* onNoSocketDirectory: no directory can carry a socket.
NoSocketDirectory(w) ==
    /\ worker[w].st # "none" /\ process[w].st = "none"
    /\ OnWorkerGone(w, TRUE)

\* retire, without a pump.
RetireOnly(w) ==
    /\ worker' = Retired(worker, {w}) /\ process' = Killed(process, {w})
    /\ UNCHANGED <<call, pool, code>>

\* The ready timer (a worker without a process is abandoned by LaunchWorker's second
\* case), or an error of the socket's server.
ReadyTimeout(w) ==
    /\ worker[w].st = "starting" /\ process[w].st # "none"
    /\ RetireOnly(w) /\ UNCHANGED faults

\* Mutant: a worker that is being killed no longer counts.
WorkerGoneAtOnce(w) ==
    /\ worker[w].st # "none" /\ process[w].killed
    /\ OnWorkerGone(w, FALSE)

\* onWorkerExit and maybeGone: the process has ended; frames and output that were
\* not read by now are lost.
WorkerGone(w) ==
    /\ worker[w].st # "none" /\ process[w].st = "dead"
    /\ OnWorkerGone(w, FALSE)

\* The idle timer.
IdleTimeout(w) ==
    /\ worker[w].st = "idle" /\ faults < MaxFaults /\ faults' = faults + 1
    /\ RetireOnly(w)

\* The grace timer after the worker closed its channel.
ChannelEnd(w) ==
    /\ worker[w].st \in {"idle", "busy"} /\ ~worker[w].ann
    /\ process[w].st \in {"exiting", "dead"} /\ process[w].out = <<>>
    /\ RetireOnly(w) /\ UNCHANGED faults

\* scheduleExitKill's timer.
ExitKill(w) ==
    /\ worker[w].ann /\ ~process[w].killed
    /\ process' = Killed(process, {w})
    /\ UNCHANGED <<worker, call, pool, env>>

\* onStrayOutput of an idle worker: it is replaced.
StrayOutput(w) ==
    /\ worker[w].st = "idle" /\ faults < MaxFaults /\ faults' = faults + 1
    /\ worker' = Retired(worker, {w}) /\ process' = Killed(process, {w})
    /\ Pump(queue, worker', failing, walk.on)
    /\ UNCHANGED <<call, queue, failing, deaths, degraded, shut, code>>

\* onProtocolError, and commitOutput when a call writes too much.
OnProtocolError(w) ==
    /\ worker[w].st \in {"starting", "idle", "busy"} /\ process[w].st # "none"
    /\ faults < MaxFaults /\ faults' = faults + 1
    /\ FailAndRetire(w)
    /\ Pump(queue, worker', failing, walk.on)
    /\ UNCHANGED <<queue, failing, deaths, degraded, shut, code>>

(***************************************************************************)
(* Frames, markers and timeouts.                                           *)
(***************************************************************************)
\* maybeCompleteCall for the call c of worker w, once its frame and mark are known;
\* ps are the processes without what was read.
\* A worker is recycled for what its frame says, for stray output, its number of
\* calls or its size.
MaybeCompleteCall(w, c, frame, mark, ps) ==
    \/ /\ ~(frame /\ mark)
       /\ call' = [call EXCEPT ![c].frame = frame, ![c].mark = mark]
       /\ process' = ps /\ UNCHANGED <<worker, pool>>
    \/ /\ frame /\ mark
       /\ call' = [call EXCEPT ![c].st = "done", ![c].frame = TRUE, ![c].mark = TRUE]
       /\ deaths' = 0
       /\ LET free == [worker EXCEPT ![w].call = None, ![w].used = TRUE]
          IN  \/ worker[w].ann /\ worker' = free /\ process' = ps
              \/ ~worker[w].ann /\ worker' = Retired(free, {w}) /\ process' = Killed(ps, {w})
              \/ ~worker[w].ann /\ worker' = [free EXCEPT ![w].st = "idle"] /\ process' = ps
       /\ Pump(queue, worker', failing, walk.on)
       /\ UNCHANGED <<queue, failing, degraded, shut>>

\* A sent call that the exiting worker does not name and has not answered.
NotStarted(w, last) ==
    worker[w].call \notin {None, last} /\ ~call[worker[w].call].frame

\* onWorkerExiting: a call that was never started goes back to the head of the
\* queue, once.
OnWorkerExiting(w, last) ==
    LET c == worker[w].call
        away == [worker EXCEPT ![w].st = "retiring", ![w].ann = TRUE]
    IN  /\ \/ /\ ~NotStarted(w, last)
              /\ worker' = away /\ UNCHANGED <<call, queue>>
           \/ /\ NotStarted(w, last) /\ call[c].requeued
              /\ worker' = [away EXCEPT ![w].call = None]
              /\ call' = Settled({c}, "failed") /\ UNCHANGED queue
           \/ /\ NotStarted(w, last) /\ ~call[c].requeued
              /\ worker' = [away EXCEPT ![w].call = None]
              /\ call' = [call EXCEPT ![c].st = "queued", ![c].requeued = TRUE,
                                      ![c].mark = FALSE]
              /\ queue' = <<c>> \o queue
        /\ Pump(queue', worker', failing, walk.on)
        /\ UNCHANGED <<failing, deaths, degraded, shut>>

\* onFrame. Frames of a worker that is being retired are dropped.
OnFrame(w) ==
    LET frame == Head(process[w].out)
        read == [process EXCEPT ![w].out = Tail(@)]
    IN  /\ worker[w].st # "none" /\ process[w].out # <<>>
        /\ \/ /\ worker[w].st \in {"retiring", "starting-retiring"}
              /\ process' = read /\ UNCHANGED <<worker, call, pool>>
           \/ /\ worker[w].st = "starting" /\ frame.type = "ready"
              /\ worker' = [worker EXCEPT ![w].st = "idle"] /\ process' = read
              /\ Pump(queue, worker', failing, walk.on)
              /\ UNCHANGED <<call, queue, failing, deaths, degraded, shut>>
           \/ /\ worker[w].st = "busy" /\ frame.type = "result" /\ frame.id = worker[w].call
              /\ MaybeCompleteCall(w, frame.id, TRUE, call[frame.id].mark, read)
           \/ /\ worker[w].st \in {"starting", "idle", "busy"} /\ frame.type = "exiting"
              /\ process' = read /\ OnWorkerExiting(w, frame.last)
        /\ UNCHANGED env

\* onPipeData: the end markers of a call arrive.
OnMark(w) ==
    LET c == process[w].mark
        read == [process EXCEPT ![w].mark = None]
    IN  /\ worker[w].st # "none" /\ c # None
        /\ \/ worker[w].call = c /\ MaybeCompleteCall(w, c, call[c].frame, TRUE, read)
           \/ worker[w].call # c /\ process' = read /\ UNCHANGED <<worker, call, pool>>
        /\ UNCHANGED env

\* onCallTimeout, in the queue or in a worker.
QueueTimeout(c) ==
    /\ call[c].st = "queued"
    /\ call' = Settled({c}, "failed")
    /\ \E i \in 1..Len(queue) :
          queue[i] = c /\ queue' = SubSeq(queue, 1, i - 1) \o SubSeq(queue, i + 1, Len(queue))
    /\ late' = late \ {c}
    /\ UNCHANGED <<worker, process, walk, failing, deaths, degraded, shut, env>>

CallTimeout(c) ==
    /\ call[c].st = "sent"
    /\ \E w \in Worker : worker[w].call = c /\ FailAndRetire(w)
    /\ UNCHANGED <<pool, env>>

\* The degraded period ends.
DegradedOver ==
    /\ degraded /\ degraded' = FALSE
    /\ UNCHANGED <<worker, process, call, queue, walk, late, failing, deaths, shut, env>>

(***************************************************************************)
(* Shutdown.                                                               *)
(***************************************************************************)
\* shutdown: queued and running calls fail, every worker is killed.
Shutdown ==
    /\ shut = "no" /\ shut' = "waiting"
    /\ walk' = NoWalk /\ late' = {} /\ queue' = <<>>
    /\ call' = Settled({c \in Call : call[c].st \in {"queued", "sent"}}, "failed")
    /\ worker' = Retired([w \in Worker |-> [worker[w] EXCEPT !.call = None]], Workers(worker))
    /\ process' = Killed(process, Workers(worker))
    /\ UNCHANGED <<failing, deaths, degraded, env>>

\* It returns when the last worker is gone, or at its deadline.
ShutdownReturns ==
    /\ shut = "waiting"
    /\ shut' = IF Workers(worker) = {} THEN "clean" ELSE "unclean"
    /\ UNCHANGED <<worker, process, call, queue, walk, late, failing, deaths, degraded, env>>

(***************************************************************************)
(* The process of a worker: serveToolWorker.                               *)
(***************************************************************************)
\* The steps of a process change nothing but itself and the calls it runs.
Step(w, new) ==
    /\ process' = [process EXCEPT ![w] = new]
    /\ UNCHANGED <<worker, pool, code>>

\* Bootstrap token, connection, hello and ready.
Ready(w) ==
    /\ process[w].st = "boot"
    /\ Step(w, [process[w] EXCEPT !.st = "serving", !.out = Append(@, [type |-> "ready"])])
    /\ UNCHANGED <<call, faults>>

\* Mutant: a worker that has announced its exit still starts a call.
MayStartExiting(w) == process[w].st \in {"serving", "exiting"}

\* The data handler starts no call once exiting is set.
MayStart(w) == process[w].st = "serving"

\* startCall.
StartCall(w) ==
    LET c == process[w].inbox
    IN  /\ MayStart(w) /\ c # None /\ process[w].run = None
        /\ Step(w, [process[w] EXCEPT !.inbox = None, !.run = c, !.last = c])
        /\ call' = [call EXCEPT ![c].runs = @ + 1] /\ UNCHANGED faults

\* finishCall: the end markers and the result frame.
FinishCall(w) ==
    LET c == process[w].run
    IN  /\ process[w].st = "serving" /\ c # None
        /\ Step(w, [process[w] EXCEPT !.run = None, !.mark = c,
                                      !.out = Append(@, [type |-> "result", id |-> c])])
        /\ UNCHANGED <<call, faults>>

\* failFromProcessEvent outside a call, with exitAfterFlush.
ExitAfterFlush(w) ==
    /\ process[w].st = "serving" /\ process[w].run = None
    /\ faults < MaxFaults /\ faults' = faults + 1
    /\ Step(w, [process[w] EXCEPT !.st = "exiting",
                                  !.out = Append(@, [type |-> "exiting", last |-> process[w].last])])
    /\ UNCHANGED call

\* The process ends. What it wrote can still be read.
Ended(w) ==
    /\ Step(w, [process[w] EXCEPT !.st = "dead", !.inbox = None, !.run = None])
    /\ UNCHANGED call

\* It was killed, which also closed its channel, or it has announced its exit.
Exits(w) ==
    /\ w \in Alive(process) /\ (process[w].killed \/ process[w].st = "exiting")
    /\ Ended(w) /\ UNCHANGED faults

\* It crashes.
Crashes(w) ==
    /\ w \in Alive(process) /\ faults < MaxFaults /\ faults' = faults + 1
    /\ Ended(w)

\* The tool code changes on disk.
CodeChanges ==
    /\ code < MaxCode /\ code' = code + 1
    /\ UNCHANGED <<worker, process, call, pool, faults>>

Next ==
    \/ \E c \in Call : Enter(c) \/ QueueTimeout(c) \/ CallTimeout(c)
    \/ WalkDone \/ WalkFails
    \/ \E w \in Worker :
          \/ LaunchWorker(w) \/ NoSocketDirectory(w) \/ ReadyTimeout(w) \/ WorkerGone(w)
          \/ IdleTimeout(w) \/ ChannelEnd(w) \/ ExitKill(w) \/ StrayOutput(w)
          \/ OnProtocolError(w) \/ OnFrame(w) \/ OnMark(w)
          \/ Ready(w) \/ StartCall(w) \/ FinishCall(w) \/ ExitAfterFlush(w) \/ Exits(w) \/ Crashes(w)
    \/ DegradedOver \/ Shutdown \/ ShutdownReturns \/ CodeChanges

Spec == Init /\ [][Next]_vars

(***************************************************************************)
(* Safety.                                                                 *)
(***************************************************************************)
\* "so every dispatch sees every change made before its call was enqueued": the
\* worker of a call loaded no code older than what was there when it was enqueued.
FreshCode ==
    \A w \in Worker : worker[w].call # None =>
        process[w].loaded >= call[worker[w].call].asked

\* "Pools never retry a call": however workers exit and calls are put back, a call
\* is started at most once, in a worker or as a fresh process, and one that is
\* reported done or was handed to the fallback was started.
StartedOnce ==
    \A c \in Call : /\ call[c].runs <= 1
                    /\ call[c].st \in {"done", "fallback"} => call[c].runs = 1

\* No call waits beside an idle worker, or without any worker, unless a walk is in
\* flight whose result will be used (each path that frees a worker calls pump).
NoStrandedCall ==
    shut = "no" /\ queue # <<>> /\ ~walk.on => In(worker, "idle") = {} /\ Workers(worker) # {}

\* "never leave a worker process group behind", for the process the pool spawned, which
\* leads its group: every live one belongs to a worker that still counts toward size,
\* and none is left or spawned after a clean shutdown.
ProcessesCounted ==
    /\ Alive(process) \subseteq Workers(worker) /\ Cardinality(Workers(worker)) <= Size
    /\ shut = "clean" => Alive(process) = {}

(***************************************************************************)
(* Liveness. Timers fire and events are delivered; a worker may never get  *)
(* ready and a call may hang in its worker until the timeouts. The timeout *)
(* of a queued call, a new call and the end of a degraded period may never *)
(* come.                                                                   *)
(***************************************************************************)
Fairness ==
    /\ WF_vars(WalkDone \/ WalkFails) /\ WF_vars(ShutdownReturns)
    /\ \A c \in Call : WF_vars(CallTimeout(c))
    /\ \A w \in Worker :
          /\ WF_vars(LaunchWorker(w)) /\ WF_vars(ReadyTimeout(w)) /\ WF_vars(WorkerGone(w))
          /\ WF_vars(ChannelEnd(w)) /\ WF_vars(ExitKill(w)) /\ WF_vars(OnFrame(w))
          /\ WF_vars(Exits(w))

FairSpec == Spec /\ Fairness

\* Once workers stop crashing, every accepted call settles without the help of the
\* timeout of queued calls: it is never forgotten in the queue, in a worker or
\* between the two, and workers that can never start degrade the pool, whose queue
\* then runs as fresh processes.
EveryCallSettles ==
    \A c \in Call : call[c].st \in {"queued", "sent"} ~> call[c].st \in Outcome

=============================================================================

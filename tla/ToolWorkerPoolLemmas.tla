------------------------- MODULE ToolWorkerPoolLemmas -------------------------
(***************************************************************************)
(* The inductive invariant of ToolWorkerPool, for every set of calls,      *)
(* every finite set of worker slots and all options, and that every step   *)
(* other than the end of a walk keeps it. ToolWorkerPoolProofs has the end *)
(* of a walk, which hands out calls and spawns, and the theorems.          *)
(***************************************************************************)
EXTENDS ToolWorkerPool, TLAPS

(***************************************************************************)
(* The inductive invariant.                                                *)
(***************************************************************************)
\* A worker that is gone has no process; one without a process is still to be
\* launched, unless the pool is shut down; only a worker that is or was busy has a
\* call; a pool that is shut down has no worker in service, and finally none.
WorkerOK(w) ==
    /\ worker[w].st = "none" => worker[w] = NoWorker /\ process[w] = NoProcess
    /\ process[w].st = "none" =>
          /\ process[w].out = <<>> /\ process[w].mark = None /\ process[w].inbox = None
          /\ worker[w].st \in {"none", "starting", "starting-retiring"}
          /\ worker[w].st = "starting-retiring" => shut # "no"
    /\ worker[w].call # None => worker[w].st \in {"busy", "retiring"} /\ shut = "no"
    /\ shut # "no" => worker[w].st \notin {"starting", "idle", "busy"}
    /\ shut = "clean" => worker[w].st = "none"

\* What counting workers needs: they are finitely many.  The lemmas take it from the
\* invariant, so that the theory of finite sets is needed only where it is proved.
Counted ==
    /\ \A S \in SUBSET Worker : /\ Cardinality(S) \in Nat
                                /\ \A T \in SUBSET S : Cardinality(T) <= Cardinality(S)
    /\ Cardinality({}) = 0

WorkersOK ==
    /\ Counted
    /\ \A w \in Worker : WorkerOK(w)
    /\ Cardinality(Workers(worker)) <= Size
    /\ shut # "no" => queue = <<>> /\ ~walk.on

\* The queue holds queued calls, each once; those that came after the walk in flight
\* started come last.
QueueOK ==
    /\ \A i, j \in 1..Len(queue) : queue[i] = queue[j] => i = j
    /\ \A i \in 1..Len(queue) : call[queue[i]].st = "queued"
    /\ \A c \in late : \E i \in 1..Len(queue) : queue[i] = c
    /\ \A i, j \in 1..Len(queue) : i < j /\ queue[i] \in late => queue[j] \in late
    /\ ~walk.on => late = {}

\* The walk in flight started after every call it may hand out was enqueued, and a
\* process loaded the code that its worker was spawned for, or later code.
CodeOK ==
    /\ walk.from <= code
    /\ \A c \in Call :
          /\ call[c].asked <= code
          /\ walk.on /\ call[c].st \in {"queued", "sent"} /\ c \notin late
                => call[c].asked <= walk.from
    /\ \A w \in Worker :
          /\ worker[w].ident <= code
          /\ process[w].st # "none" => worker[w].ident <= process[w].loaded

\* How often a call was started, by its state.
RunsOK ==
    \A c \in Call :
        /\ call[c].runs <= 1
        /\ call[c].st \in {"new", "queued"} => call[c].runs = 0
        /\ call[c].st \in {"done", "fallback"} => call[c].runs = 1
        /\ call[c].frame => call[c].runs = 1

\* The process of w may still start call c.
MayRun(w, c) == process[w].st \in {"boot", "serving"} /\ process[w].inbox = c

\* A call that a process may still start was not started yet, is not in the queue,
\* and no other process may start it.
InboxOK ==
    \A w \in Worker, c \in Call : MayRun(w, c) =>
        /\ call[c].runs = 0 /\ call[c].st \in {"sent", "failed"}
        /\ worker[w].call \in {None, c}
        /\ \A v \in Worker : MayRun(v, c) => v = w

\* The call of a worker was sent to no other, and if it was started, the process
\* names it as the last one it started.
SentOK ==
    \A w \in Worker, c \in Call : worker[w].call = c =>
        /\ call[c].st = "sent"
        /\ call[c].runs = 0 \/ process[w].last = c
        /\ \A v \in Worker : worker[v].call = c \/ MayRun(v, c) => v = w

\* A call that runs, or whose result is on its way, was started; a process that
\* announced its exit starts none, so the call it named stays the last one.
FrameOK(w, frame) ==
    /\ frame.type = "result" => call[frame.id].runs = 1
    /\ frame.type = "exiting" =>
          process[w].st \in {"exiting", "dead"} /\ frame.last = process[w].last

FramesOK ==
    \A w \in Worker :
        /\ process[w].run # None => call[process[w].run].runs = 1
        /\ \A i \in 1..Len(process[w].out) : FrameOK(w, process[w].out[i])

CallsOK == RunsOK /\ InboxOK /\ SentOK /\ FramesOK /\ FreshCode

PInv == TypeOK /\ WorkersOK /\ QueueOK /\ CodeOK /\ CallsOK /\ NoStrandedCall

(***************************************************************************)
(* Sequences.                                                              *)
(***************************************************************************)
\* An element of a sequence over S is in S.
LEMMA SeqElement ==
    ASSUME NEW S, NEW q \in Seq(S), NEW i \in 1..Len(q)
    PROVE  q[i] \in S
OBVIOUS

\* A sequence is a function on an interval.
LEMMA SeqLen ==
    ASSUME NEW S, NEW q \in Seq(S)
    PROVE  Len(q) \in Nat /\ DOMAIN q = 1..Len(q) /\ q \in [1..Len(q) -> S]
OBVIOUS

\* Only the empty sequence has no elements.
LEMMA SeqEmpty ==
    ASSUME NEW S
    PROVE  /\ <<>> \in Seq(S) /\ Len(<<>>) = 0
           /\ \A q \in Seq(S) : q # <<>> => Len(q) \in Nat \ {0}
OBVIOUS

\* A part of a sequence.
LEMMA SeqSub ==
    ASSUME NEW S, NEW q \in Seq(S), NEW m \in 1..(Len(q) + 1), NEW n \in 0..Len(q)
    PROVE  /\ SubSeq(q, m, n) \in Seq(S)
           /\ Len(SubSeq(q, m, n)) = IF m <= n THEN n - m + 1 ELSE 0
           /\ \A i \in 1..(n - m + 1) : SubSeq(q, m, n)[i] = q[m + i - 1]
OBVIOUS

\* An element is appended.
LEMMA SeqAppend ==
    ASSUME NEW S, NEW q \in Seq(S), NEW x \in S
    PROVE  /\ Append(q, x) \in Seq(S) /\ Append(q, x) # <<>>
           /\ Len(Append(q, x)) = Len(q) + 1 /\ Append(q, x)[Len(q) + 1] = x
           /\ \A i \in 1..Len(q) : Append(q, x)[i] = q[i]
OBVIOUS

\* Two sequences are joined.
LEMMA SeqConcat ==
    ASSUME NEW S, NEW q \in Seq(S), NEW r \in Seq(S)
    PROVE  /\ q \o r \in Seq(S) /\ Len(q \o r) = Len(q) + Len(r)
           /\ \A i \in 1..(Len(q) + Len(r)) :
                 (q \o r)[i] = IF i <= Len(q) THEN q[i] ELSE r[i - Len(q)]
OBVIOUS

\* The first element of a sequence, and the others.
LEMMA SeqHeadTail ==
    ASSUME NEW S, NEW q \in Seq(S), q # <<>>
    PROVE  /\ Head(q) \in S /\ Tail(q) \in Seq(S) /\ Len(Tail(q)) = Len(q) - 1
           /\ \A i \in 1..Len(Tail(q)) : Tail(q)[i] = q[i + 1]
OBVIOUS

(***************************************************************************)
(* What the helpers of the pool return.                                    *)
(***************************************************************************)
\* retire changes the state of the workers it is given, and nothing else of them
\* but retiredByPool.
LEMMA RetiredIs ==
    ASSUME NEW ws \in [Worker -> WorkerRecord], NEW gone \in SUBSET Worker
    PROVE  /\ Retired(ws, gone) \in [Worker -> WorkerRecord]
           /\ \A w \in Worker \ gone : Retired(ws, gone)[w] = ws[w]
           /\ \A w \in gone :
                 /\ Retired(ws, gone)[w].call = ws[w].call
                 /\ Retired(ws, gone)[w].ident = ws[w].ident
                 /\ Retired(ws, gone)[w].st
                       = IF ws[w].st = "starting" THEN "starting-retiring" ELSE "retiring"
BY Zenon DEF Retired, WorkerRecord

\* killWorkerGroup marks the processes it is given as killed, and changes nothing else.
LEMMA KilledIs ==
    ASSUME NEW ps \in [Worker -> ProcessRecord], NEW gone \in SUBSET Worker
    PROVE  /\ Killed(ps, gone) \in [Worker -> ProcessRecord]
           /\ \A w \in Worker \ gone : Killed(ps, gone)[w] = ps[w]
           /\ \A w \in Worker :
                 /\ Killed(ps, gone)[w].st = ps[w].st
                 /\ Killed(ps, gone)[w].loaded = ps[w].loaded
                 /\ Killed(ps, gone)[w].inbox = ps[w].inbox
                 /\ Killed(ps, gone)[w].run = ps[w].run
                 /\ Killed(ps, gone)[w].last = ps[w].last
                 /\ Killed(ps, gone)[w].out = ps[w].out
                 /\ Killed(ps, gone)[w].mark = ps[w].mark
BY ZenonT(30) DEF Killed, ProcessRecord

\* settle gives the calls it is given their outcome, and changes nothing else of them.
LEMMA SettledIs ==
    ASSUME call \in [Call -> CallRecord], NEW cs, NEW outcome \in Outcome
    PROVE  /\ Settled(cs, outcome) \in [Call -> CallRecord]
           /\ \A c \in Call :
                 /\ c \notin cs => Settled(cs, outcome)[c] = call[c]
                 /\ c \in cs => Settled(cs, outcome)[c].st = outcome
                 /\ Settled(cs, outcome)[c].runs = call[c].runs
                 /\ Settled(cs, outcome)[c].asked = call[c].asked
                 /\ Settled(cs, outcome)[c].frame = call[c].frame
BY DEF Settled, CallRecord, Outcome

\* runQueuedOnFallback starts the calls it is given once more, in fresh processes.
LEMMA FallbackIs ==
    ASSUME NEW calls \in [Call -> CallRecord], NEW cs
    PROVE  /\ Fallback(calls, cs) \in [Call -> CallRecord]
           /\ \A c \in Call :
                 /\ c \notin cs => Fallback(calls, cs)[c] = calls[c]
                 /\ c \in cs => /\ Fallback(calls, cs)[c].st = "fallback"
                                /\ Fallback(calls, cs)[c].runs = calls[c].runs + 1
                 /\ Fallback(calls, cs)[c].asked = calls[c].asked
                 /\ Fallback(calls, cs)[c].frame = calls[c].frame
<1>1. ASSUME NEW r \in CallRecord, NEW n \in Nat
      PROVE  [r EXCEPT !.st = "fallback", !.runs = n] \in CallRecord
  BY Zenon DEF CallRecord, Outcome
<1>2. ASSUME NEW c \in Call PROVE calls[c] \in CallRecord /\ calls[c].runs + 1 \in Nat
  BY DEF CallRecord
<1>3. Fallback(calls, cs) \in [Call -> CallRecord]
  BY <1>1, <1>2, Zenon DEF Fallback
<1> QED BY <1>2, <1>3, Zenon DEF Fallback, CallRecord

\* Counted speaks of constants only.
LEMMA CountedStays == ASSUME Counted PROVE Counted'
BY DEF Counted

\* pump keeps a walk in flight; otherwise it starts one at the code of now, or leaves
\* none, and then no queued call waits beside an idle worker or without any worker.
LEMMA PumpStep ==
    ASSUME TypeOK, WorkersOK, NEW q \in Seq(Call), NEW ws \in [Worker -> WorkerRecord],
           NEW fails \in BOOLEAN, NEW busy \in BOOLEAN, Pump(q, ws, fails, busy)
    PROVE  /\ walk' \in [on : BOOLEAN, from : Version] /\ late' \subseteq Call
           /\ busy => walk' = walk /\ late' = late
           /\ ~busy => /\ late' = {}
                       /\ \/ walk' = NoWalk
                          \/ shut = "no" /\ walk' = [on |-> TRUE, from |-> code]
           /\ ~busy /\ shut = "no" /\ q # <<>> /\ ~walk'.on
                 => In(ws, "idle") = {} /\ Workers(ws) # {}
<1>1. NoWalk \in [on : BOOLEAN, from : Version] /\ NoWalk.on = FALSE
  BY BoundAssumption DEF NoWalk, Version
<1>2. /\ [on |-> TRUE, from |-> code] \in [on : BOOLEAN, from : Version]
      /\ [on |-> TRUE, from |-> code].on = TRUE
  BY DEF TypeOK
<1>3. CASE ~busy /\ shut = "no" /\ WalkNeeded(q, ws, fails)
  BY <1>2, <1>3, Zenon DEF Pump
<1>4. CASE ~(~busy /\ shut = "no" /\ WalkNeeded(q, ws, fails))
  <2>1. walk' = (IF busy THEN walk ELSE NoWalk) /\ late' = (IF busy THEN late ELSE {})
    BY <1>4, Zenon DEF Pump
  <2>2. ASSUME ~busy, shut = "no", q # <<>>
        PROVE  In(ws, "idle") = {} /\ Workers(ws) # {}
    <3>1. /\ In(ws, "idle") = {}
          /\ Len(q) <= Cardinality(In(ws, "starting")) \/ Cardinality(Workers(ws)) >= Size
      <4>1. In(ws, "starting") \in SUBSET Worker /\ Workers(ws) \in SUBSET Worker
        BY DEF In, Workers
      <4>2. Cardinality(In(ws, "starting")) \in Nat /\ Cardinality(Workers(ws)) \in Nat
        BY <4>1, Zenon DEF WorkersOK, Counted
      <4> QED BY <4>2, <1>4, <2>2, SizeAssumption, SeqLen DEF WalkNeeded
    <3>2. Len(q) >= 1
      BY <2>2, SeqLen, SeqEmpty
    <3>3. ASSUME Workers(ws) = {} PROVE FALSE
      <4>1. In(ws, "starting") = {}
        BY <3>3 DEF In, Workers
      <4>2. Cardinality({}) = 0
        BY Zenon DEF WorkersOK, Counted
      <4>3. Cardinality(In(ws, "starting")) = 0 /\ Cardinality(Workers(ws)) = 0
        BY <4>1, <4>2, <3>3, Zenon
      <4>4. Len(q) \in Nat
        BY SeqLen
      <4> QED BY <4>3, <4>4, <3>1, <3>2, SizeAssumption
    <3> QED BY <3>1, <3>3, Zenon
  <2>3. walk \in [on : BOOLEAN, from : Version] /\ late \subseteq Call
    BY Zenon DEF TypeOK
  <2> QED BY <1>1, <2>1, <2>2, <2>3, Zenon
<1> QED BY <1>3, <1>4, Zenon

(***************************************************************************)
(* Steps that hand no call to a worker and start none there.               *)
(***************************************************************************)
\* The worker and the process of slot w: the worker may lose its call, the process
\* may read, write, end or be launched, and a frame that it writes says what is true.
SlotStep(w) ==
    /\ \A c \in Call : MayRun(w, c)' => MayRun(w, c)
    /\ process'[w].run \in {process[w].run, None}
    /\ worker'[w].call \in {worker[w].call, None}
    /\ worker'[w].call # None =>
          process'[w].last = process[w].last /\ process'[w].loaded = process[w].loaded
    /\ \A i \in 1..Len(process'[w].out) :
          \/ process'[w].out[i].type = "ready"
          \/ /\ process'[w].out[i].type = "result"
             /\ process'[w].out[i].id = process[w].run /\ process[w].run # None
          \/ /\ process'[w].out[i].type = "exiting"
             /\ process'[w].out[i].last = process'[w].last
             /\ process'[w].st \in {"exiting", "dead"}
          \/ /\ \E j \in 1..Len(process[w].out) : process'[w].out[i] = process[w].out[j]
             /\ process[w].st \in {"exiting", "dead"} =>
                   process'[w].st \in {"exiting", "dead"} /\ process'[w].last = process[w].last

\* The calls: a call is enqueued, is given up, is done once it was started, runs as a
\* fresh process, or is put back before any process started it.
CallStep(c) ==
    /\ call[c].st = "sent" => call'[c].asked = call[c].asked
    /\ call'[c].frame => call[c].frame \/ call[c].runs = 1
    /\ \/ call'[c].runs = call[c].runs /\ call'[c].st = call[c].st
       \/ call'[c].runs = call[c].runs /\ call[c].st = "new" /\ call'[c].st = "queued"
       \/ call[c].st \in {"new", "queued"} /\ call'[c].st = "fallback" /\ call'[c].runs = 1
       \/ /\ call'[c].runs = call[c].runs
          /\ \A w \in Worker : worker'[w].call # c
          /\ \/ call[c].st \in {"new", "queued", "sent"} /\ call'[c].st = "failed"
             \/ call[c].st = "sent" /\ call'[c].st = "done" /\ call[c].runs = 1
             \/ /\ call[c].st = "sent" /\ call'[c].st = "queued" /\ call[c].runs = 0
                /\ \A w \in Worker : ~MayRun(w, c)

\* Such a step starts no call a second time, and keeps what is known of the calls
\* that processes hold.
LEMMA CallsKept ==
    ASSUME TypeOK, TypeOK', CallsOK,
           \A w \in Worker : SlotStep(w), \A c \in Call : CallStep(c)
    PROVE  CallsOK'
<1>1. RunsOK /\ InboxOK /\ SentOK /\ FramesOK /\ FreshCode
  BY Zenon DEF CallsOK
<1>2. \A c \in Call : /\ call[c] \in CallRecord /\ call'[c] \in CallRecord
                      /\ call[c].runs \in Nat /\ call'[c].runs \in Nat
  BY Zenon DEF TypeOK, CallRecord
<1>3. RunsOK'
  <2> SUFFICES ASSUME NEW c \in Call
               PROVE  /\ call'[c].runs <= 1
                      /\ call'[c].st \in {"new", "queued"} => call'[c].runs = 0
                      /\ call'[c].st \in {"done", "fallback"} => call'[c].runs = 1
                      /\ call'[c].frame => call'[c].runs = 1
    BY Zenon DEF RunsOK
  <2>1. CallStep(c) /\ call[c].runs \in Nat
    BY <1>2, Zenon
  <2> QED BY <2>1, <1>1, SMTT(30) DEF CallStep, RunsOK
<1>4. ASSUME NEW c \in Call, call[c].runs = 1 PROVE call'[c].runs = 1
  <2>1. CallStep(c)
    OBVIOUS
  <2> QED BY <2>1, <1>1, <1>4, Zenon DEF CallStep, RunsOK
<1>5. ASSUME NEW w \in Worker, NEW c \in Call PROVE MayRun(w, c)' => MayRun(w, c)
  BY Zenon DEF SlotStep
<1>6. InboxOK'
  <2> SUFFICES ASSUME NEW w \in Worker, NEW c \in Call, MayRun(w, c)'
               PROVE  /\ call'[c].runs = 0 /\ call'[c].st \in {"sent", "failed"}
                      /\ worker'[w].call \in {None, c}
                      /\ \A v \in Worker : MayRun(v, c)' => v = w
    BY Zenon DEF InboxOK
  <2>1. /\ call[c].runs = 0 /\ call[c].st \in {"sent", "failed"} /\ MayRun(w, c)
        /\ worker[w].call \in {None, c} /\ \A v \in Worker : MayRun(v, c) => v = w
    BY <1>1, <1>5, Zenon DEF InboxOK
  <2>2. CallStep(c) /\ SlotStep(w)
    OBVIOUS
  <2>3. call'[c].runs = 0 /\ call'[c].st \in {"sent", "failed"}
    BY <2>1, <2>2, SMTT(30) DEF CallStep
  <2>4. worker'[w].call \in {None, c}
    BY <2>1, <2>2, Zenon DEF SlotStep
  <2> QED BY <2>1, <2>3, <2>4, <1>5, Zenon
<1>7. SentOK'
  <2> SUFFICES ASSUME NEW w \in Worker, NEW c \in Call, worker'[w].call = c
               PROVE  /\ call'[c].st = "sent"
                      /\ call'[c].runs = 0 \/ process'[w].last = c
                      /\ \A v \in Worker : worker'[v].call = c \/ MayRun(v, c)' => v = w
    BY Zenon DEF SentOK
  <2>1. c # None
    BY NoneAssumption
  <2>2. worker[w].call = c /\ process'[w].last = process[w].last
    BY <2>1, Zenon DEF SlotStep
  <2>3. /\ call[c].st = "sent" /\ (call[c].runs = 0 \/ process[w].last = c)
        /\ \A v \in Worker : worker[v].call = c \/ MayRun(v, c) => v = w
    BY <1>1, <2>2, Zenon DEF SentOK
  <2>4. CallStep(c)
    OBVIOUS
  <2>5. call'[c].st = "sent" /\ call'[c].runs = call[c].runs
    BY <2>3, <2>4, Zenon DEF CallStep
  <2>6. ASSUME NEW v \in Worker, worker'[v].call = c \/ MayRun(v, c)' PROVE v = w
    <3>1. worker[v].call = c \/ MayRun(v, c)
      BY <2>6, <2>1, <1>5, Zenon DEF SlotStep
    <3> QED BY <3>1, <2>3, Zenon
  <2> QED BY <2>2, <2>3, <2>5, <2>6, Zenon
<1>8. FramesOK'
  <2> SUFFICES ASSUME NEW w \in Worker
               PROVE  /\ process'[w].run # None => call'[process'[w].run].runs = 1
                      /\ \A i \in 1..Len(process'[w].out) : FrameOK(w, process[w].out[i])'
    BY Zenon DEF FramesOK
  <2>1. /\ SlotStep(w) /\ process[w].run \in Call \union {None}
        /\ process[w].out \in Seq(Frame) /\ process'[w].out \in Seq(Frame)
    BY DEF TypeOK, ProcessRecord
  <2>2. process[w].run # None => call'[process[w].run].runs = 1
    BY <1>1, <1>4, <2>1, Zenon DEF FramesOK
  <2>3. process'[w].run # None => call'[process'[w].run].runs = 1
    BY <2>1, <2>2, Zenon DEF SlotStep
  <2>4. ASSUME NEW i \in 1..Len(process'[w].out) PROVE FrameOK(w, process[w].out[i])'
    <3> DEFINE f == process'[w].out[i]
    <3> SUFFICES /\ f.type = "result" => call'[f.id].runs = 1
                 /\ f.type = "exiting" =>
                       process'[w].st \in {"exiting", "dead"} /\ f.last = process'[w].last
      BY Zenon DEF FrameOK
    <3>1. CASE f.type = "ready"
      BY <3>1
    <3>2. CASE f.type = "result" /\ f.id = process[w].run /\ process[w].run # None
      BY <3>2, <2>2, Zenon
    <3>3. CASE /\ f.type = "exiting" /\ f.last = process'[w].last
               /\ process'[w].st \in {"exiting", "dead"}
      BY <3>3
    <3>4. CASE /\ \E j \in 1..Len(process[w].out) : f = process[w].out[j]
               /\ process[w].st \in {"exiting", "dead"} =>
                     process'[w].st \in {"exiting", "dead"} /\ process'[w].last = process[w].last
      <4>1. PICK j \in 1..Len(process[w].out) : f = process[w].out[j]
        BY <3>4, Zenon
      <4>2. FrameOK(w, process[w].out[j]) /\ f \in Frame
        BY <1>1, <2>1, <4>1, SeqElement, Zenon DEF FramesOK
      <4>3. /\ f.type = "result" => call[f.id].runs = 1
            /\ f.type = "exiting" =>
                  process[w].st \in {"exiting", "dead"} /\ f.last = process[w].last
        BY <4>1, <4>2, Zenon DEF FrameOK
      <4>4. f.type = "result" => f.id \in Call
        BY <4>2, Zenon DEF Frame
      <4> QED BY <4>3, <4>4, <3>4, <1>4, Zenon
    <3> QED BY <3>1, <3>2, <3>3, <3>4, <2>1, Zenon DEF SlotStep
  <2> QED BY <2>3, <2>4, Zenon
<1>9. FreshCode'
  <2> SUFFICES ASSUME NEW w \in Worker, worker'[w].call # None
               PROVE  process'[w].loaded >= call'[worker'[w].call].asked
    BY Zenon DEF FreshCode
  <2>1. /\ worker'[w].call = worker[w].call /\ process'[w].loaded = process[w].loaded
    BY Zenon DEF SlotStep
  <2>2. worker[w].call \in Call
    BY <2>1 DEF TypeOK, WorkerRecord
  <2>3. call[worker[w].call].st = "sent"
    BY <2>2, <1>1, Zenon DEF SentOK
  <2>4. call'[worker[w].call].asked = call[worker[w].call].asked
    BY <2>2, <2>3, Zenon DEF CallStep
  <2> QED BY <2>1, <2>4, <1>1, Zenon DEF FreshCode
<1> QED BY <1>3, <1>6, <1>7, <1>8, <1>9, Zenon DEF CallsOK

\* Any number of processes may be launched, retired or lost: the code that a worker
\* stands for stays loaded, and a walk started at the code of now serves every call.
LEMMA CodeKept ==
    ASSUME TypeOK, TypeOK', CodeOK, code' = code,
           \A w \in Worker : /\ worker'[w].ident <= code
                             /\ process'[w].st # "none" => worker'[w].ident <= process'[w].loaded,
           \A c \in Call : call'[c].asked <= code,
           \/ walk' = NoWalk
           \/ walk' = [on |-> TRUE, from |-> code]
           \/ /\ walk' = walk
              /\ \A c \in Call : call'[c].st \in {"queued", "sent"} /\ c \notin late' =>
                    /\ call[c].st \in {"queued", "sent"} /\ c \notin late
                    /\ call'[c].asked = call[c].asked
    PROVE  CodeOK'
<1>1. code \in Nat /\ \A c \in Call : call'[c].asked \in Nat
  BY BoundAssumption, SMTT(30) DEF TypeOK, Version, CallRecord
<1>2. CASE walk' = NoWalk
  <2>1. walk'.from = 0 /\ walk'.on = FALSE
    BY <1>2 DEF NoWalk
  <2> QED BY <1>1, <2>1, SMTT(30) DEF CodeOK
<1>3. CASE walk' = [on |-> TRUE, from |-> code]
  <2>1. walk'.from = code
    BY <1>3
  <2> QED BY <1>1, <2>1, SMTT(30) DEF CodeOK
<1>4. CASE /\ walk' = walk
           /\ \A c \in Call : call'[c].st \in {"queued", "sent"} /\ c \notin late' =>
                 /\ call[c].st \in {"queued", "sent"} /\ c \notin late
                 /\ call'[c].asked = call[c].asked
  BY <1>1, <1>4, Zenon DEF CodeOK
<1> QED BY <1>2, <1>3, <1>4, Zenon

\* A step that leaves the queue alone, and the calls in it queued.
LEMMA QueueKept ==
    ASSUME TypeOK, QueueOK, queue' = queue, late' \in {late, {}}, ~walk'.on => late' = {},
           \A c \in Call : call[c].st = "queued" => call'[c].st = "queued"
    PROVE  QueueOK'
<1>1. \A i \in 1..Len(queue) : queue[i] \in Call
  BY SeqElement, Zenon DEF TypeOK
<1>2. \A i, j \in 1..Len(queue') : queue'[i] = queue'[j] => i = j
  BY Zenon DEF QueueOK
<1>3. \A i \in 1..Len(queue') : call'[queue'[i]].st = "queued"
  BY <1>1, Zenon DEF QueueOK
<1>4. \A c \in late' : \E i \in 1..Len(queue') : queue'[i] = c
  BY Zenon DEF QueueOK
<1>5. \A i, j \in 1..Len(queue') : i < j /\ queue'[i] \in late' => queue'[j] \in late'
  <2>1. CASE late' = late
    BY <2>1, Zenon DEF QueueOK
  <2>2. CASE late' = {}
    BY <2>2, Zenon
  <2> QED BY <2>1, <2>2, Zenon
<1> QED BY <1>2, <1>3, <1>4, <1>5, Zenon DEF QueueOK

\* A step that empties the queue.
LEMMA QueueEmptied ==
    ASSUME queue' = <<>>, late' = {}
    PROVE  QueueOK'
BY SMTT(30) DEF QueueOK

\* A step of one worker slot, which does not spawn.
LEMMA OneWorker ==
    ASSUME TypeOK, WorkersOK, NEW w \in Worker, shut' = shut,
           \A v \in Worker \ {w} : worker'[v] = worker[v] /\ process'[v] = process[v],
           worker[w].st = "none" => worker'[w].st = "none",
           WorkerOK(w)',
           shut # "no" => queue' = <<>> /\ ~walk'.on
    PROVE  WorkersOK'
<1>1. ASSUME NEW v \in Worker PROVE WorkerOK(v)'
  <2>1. CASE v = w
    BY <2>1, Zenon
  <2>2. CASE v # w
    <3>1. WorkerOK(v) /\ worker'[v] = worker[v] /\ process'[v] = process[v]
      BY <2>2, Zenon DEF WorkersOK
    <3> QED BY <3>1, Zenon DEF WorkerOK
  <2> QED BY <2>1, <2>2, Zenon
<1>2. Workers(worker') \subseteq Workers(worker)
  BY Zenon DEF Workers
<1>3. Workers(worker) \in SUBSET Worker /\ Workers(worker') \in SUBSET Worker /\ Counted
  BY Zenon DEF Workers, WorkersOK
<1>4. /\ Cardinality(Workers(worker')) <= Cardinality(Workers(worker))
      /\ Cardinality(Workers(worker)) \in Nat /\ Cardinality(Workers(worker')) \in Nat
  BY <1>2, <1>3, Zenon DEF Counted
<1>5. Cardinality(Workers(worker')) <= Size
  BY <1>4, SizeAssumption DEF WorkersOK
<1>6. shut' # "no" => queue' = <<>> /\ ~walk'.on
  BY Zenon
<1>7. Cardinality(Workers(worker))' <= Size
  BY <1>5, Zenon DEF Workers
<1>8. Counted'
  BY <1>3, CountedStays, Zenon
<1> QED BY <1>1, <1>6, <1>7, <1>8, Zenon DEF WorkersOK

\* A step that neither starts nor ends a walk, frees no worker and enqueues nothing.
LEMMA NotStranded ==
    ASSUME NoStrandedCall, walk' = walk, shut' = shut, queue = <<>> => queue' = <<>>,
           \A w \in Worker : /\ worker'[w].st = "idle" => worker[w].st = "idle"
                             /\ worker[w].st # "none" => worker'[w].st # "none"
    PROVE  NoStrandedCall'
BY Zenon DEF NoStrandedCall, In, Workers

\* A step that ends with pump.
LEMMA PumpedNotStranded ==
    ASSUME TypeOK, WorkersOK, TypeOK', NoStrandedCall, shut' = shut,
           Pump(queue', worker', failing, walk.on)
    PROVE  NoStrandedCall'
<1>1. /\ queue' \in Seq(Call) /\ worker' \in [Worker -> WorkerRecord]
      /\ failing \in BOOLEAN /\ walk.on \in BOOLEAN
  BY DEF TypeOK
<1>2. /\ walk.on => walk' = walk
      /\ ~walk.on /\ shut = "no" /\ queue' # <<>> /\ ~walk'.on
            => In(worker', "idle") = {} /\ Workers(worker') # {}
  BY <1>1, PumpStep
<1>3. shut = "no" /\ queue' # <<>> /\ ~walk'.on
         => In(worker', "idle") = {} /\ Workers(worker') # {}
  BY <1>2, Zenon
<1> QED BY <1>3, Zenon DEF NoStrandedCall, In, Workers

\* A slot, or a call, that a step leaves alone.
LEMMA SlotSame ==
    ASSUME NEW w \in Worker, worker'[w] = worker[w], process'[w] = process[w]
    PROVE  SlotStep(w)
BY Zenon DEF SlotStep, MayRun

\* A call that does not change.
LEMMA CallSame ==
    ASSUME NEW c \in Call, call'[c] = call[c]
    PROVE  CallStep(c)
BY Zenon DEF CallStep

(***************************************************************************)
(* Steps of a process.                                                     *)
(***************************************************************************)
\* A step of a process disturbs at most what is known of the calls.
LEMMA ProcessOnly ==
    ASSUME PInv, NEW w \in Worker, NEW new \in ProcessRecord,
           process' = [process EXCEPT ![w] = new], UNCHANGED <<worker, pool, code>>,
           faults' \in 0..MaxFaults, call' \in [Call -> CallRecord],
           \A c \in Call : call'[c].st = call[c].st /\ call'[c].asked = call[c].asked,
           worker[w].st # "none",
           new.st # "none" => worker[w].ident <= new.loaded,
           new.st = "none" => /\ process[w].st = "none" /\ new.out = process[w].out
                              /\ new.mark = process[w].mark /\ new.inbox = process[w].inbox
    PROVE  /\ TypeOK /\ CallsOK
           /\ TypeOK' /\ WorkersOK' /\ QueueOK' /\ CodeOK' /\ NoStrandedCall'
           /\ process'[w] = new /\ \A v \in Worker \ {w} : process'[v] = process[v]
<1>1. TypeOK /\ WorkersOK /\ QueueOK /\ CodeOK /\ CallsOK /\ NoStrandedCall
  BY Zenon DEF PInv
<1>2. /\ process \in [Worker -> ProcessRecord] /\ process' \in [Worker -> ProcessRecord]
      /\ process'[w] = new /\ \A v \in Worker \ {w} : process'[v] = process[v]
  BY <1>1, Zenon DEF TypeOK
<1>3. /\ worker' = worker /\ queue' = queue /\ walk' = walk /\ late' = late /\ shut' = shut
      /\ failing' = failing /\ deaths' = deaths /\ degraded' = degraded /\ code' = code
  BY Zenon DEF pool
<1>4. TypeOK'
  BY <1>1, <1>2, <1>3, Zenon DEF TypeOK
<1>5. WorkerOK(w)'
  <2>1. WorkerOK(w)
    BY <1>1, Zenon DEF WorkersOK
  <2> QED BY <1>2, <1>3, <2>1, SMTT(30) DEF WorkerOK
<1>6. shut # "no" => queue' = <<>> /\ ~walk'.on
  BY <1>1, <1>3, Zenon DEF WorkersOK
<1>7. WorkersOK'
  BY <1>1, <1>2, <1>3, <1>5, <1>6, OneWorker, Zenon
<1>8. QueueOK'
  <2>1. late' \in {late, {}} /\ (~walk'.on => late' = {})
    BY <1>1, <1>3, Zenon DEF QueueOK
  <2> QED BY <1>1, <1>3, <2>1, QueueKept, Zenon
<1>9. CodeOK'
  <2>1. \A v \in Worker : /\ worker'[v].ident <= code
                          /\ process'[v].st # "none" => worker'[v].ident <= process'[v].loaded
    BY <1>1, <1>2, <1>3, Zenon DEF CodeOK
  <2>2. \A c \in Call : call'[c].asked <= code
    BY <1>1, Zenon DEF CodeOK
  <2>3. \A c \in Call : call'[c].st \in {"queued", "sent"} /\ c \notin late' =>
           /\ call[c].st \in {"queued", "sent"} /\ c \notin late
           /\ call'[c].asked = call[c].asked
    BY <1>3, Zenon
  <2> QED BY <1>1, <1>3, <1>4, <2>1, <2>2, <2>3, CodeKept, Zenon
<1>10. NoStrandedCall'
  BY <1>1, <1>3, NotStranded, Zenon
<1> QED BY <1>1, <1>2, <1>4, <1>7, <1>8, <1>9, <1>10, Zenon

\* A process that has frames in flight or runs belongs to a worker.
LEMMA HasWorker ==
    ASSUME WorkersOK, NEW w \in Worker, process[w].st # "none"
    PROVE  worker[w].st # "none"
BY SMTT(30) DEF WorkersOK, WorkerOK, NoProcess

\* A step of a process that starts no call.
LEMMA ProcessKeeps ==
    ASSUME PInv, NEW w \in Worker, NEW new \in ProcessRecord,
           process' = [process EXCEPT ![w] = new], UNCHANGED <<worker, pool, code, call>>,
           faults' \in 0..MaxFaults, worker[w].st # "none",
           new.st # "none" => worker[w].ident <= new.loaded,
           new.st = "none" => /\ process[w].st = "none" /\ new.out = process[w].out
                              /\ new.mark = process[w].mark /\ new.inbox = process[w].inbox,
           process'[w] = new => SlotStep(w)
    PROVE  PInv'
<1>1. TypeOK /\ call \in [Call -> CallRecord]
  BY Zenon DEF PInv, TypeOK
<1>2. /\ worker' = worker /\ call' = call /\ UNCHANGED <<worker, pool, code>>
      /\ call' \in [Call -> CallRecord]
      /\ \A c \in Call : call'[c].st = call[c].st /\ call'[c].asked = call[c].asked
  BY <1>1, Zenon
<1>3. /\ CallsOK
      /\ TypeOK' /\ WorkersOK' /\ QueueOK' /\ CodeOK' /\ NoStrandedCall'
      /\ process'[w] = new /\ \A v \in Worker \ {w} : process'[v] = process[v]
  BY <1>2, ProcessOnly, Zenon
<1>4. ASSUME NEW v \in Worker PROVE SlotStep(v)
  BY <1>2, <1>3, SlotSame, Zenon
<1>5. ASSUME NEW c \in Call PROVE CallStep(c)
  BY <1>2, CallSame, Zenon
<1>6. CallsOK'
  BY <1>1, <1>3, <1>4, <1>5, CallsKept, Zenon
<1> QED BY <1>3, <1>6, Zenon DEF PInv

\* The types of what a process reads and writes.
LEMMA ProcessTypes ==
    ASSUME TypeOK, NEW w \in Worker
    PROVE  /\ process[w] \in ProcessRecord /\ process[w].out \in Seq(Frame)
           /\ process[w].inbox \in Call \union {None} /\ process[w].run \in Call \union {None}
           /\ process[w].last \in Call \union {None} /\ process[w].mark \in Call \union {None}
           /\ worker[w] \in WorkerRecord /\ worker[w].call \in Call \union {None}
           /\ \A i \in 1..Len(process[w].out) : process[w].out[i] \in Frame
<1>1. process[w] \in ProcessRecord /\ worker[w] \in WorkerRecord
  BY Zenon DEF TypeOK
<1>2. /\ process[w].out \in Seq(Frame)
      /\ process[w].inbox \in Call \union {None} /\ process[w].run \in Call \union {None}
      /\ process[w].last \in Call \union {None} /\ process[w].mark \in Call \union {None}
      /\ worker[w].call \in Call \union {None}
  BY <1>1, Zenon DEF ProcessRecord, WorkerRecord
<1> QED BY <1>1, <1>2, SeqElement, Zenon

\* A frame is written behind the others.
LEMMA FrameWritten ==
    ASSUME NEW s \in Seq(Frame), NEW f \in Frame
    PROVE  /\ Append(s, f) \in Seq(Frame)
           /\ \A i \in 1..Len(Append(s, f)) :
                 Append(s, f)[i] = f \/ \E j \in 1..Len(s) : Append(s, f)[i] = s[j]
<1>1. /\ Append(s, f) \in Seq(Frame) /\ Len(s) \in Nat
      /\ Len(Append(s, f)) = Len(s) + 1 /\ Append(s, f)[Len(s) + 1] = f
      /\ \A i \in 1..Len(s) : Append(s, f)[i] = s[i]
  BY SeqAppend, SeqLen
<1> QED BY <1>1, SMTT(30)

\* serveToolWorker: a process gets ready.
LEMMA ReadyKeeps == ASSUME PInv, NEW w \in Worker, Ready(w) PROVE PInv'
<1> DEFINE f == [type |-> "ready"]
           new == [process[w] EXCEPT !.st = "serving", !.out = Append(@, f)]
<1>1. /\ TypeOK /\ WorkersOK /\ CodeOK
  BY Zenon DEF PInv
<1>2. /\ process[w].st = "boot" /\ process' = [process EXCEPT ![w] = new]
      /\ UNCHANGED <<worker, pool, code, call>> /\ faults' = faults
  BY DEF Ready, Step
<1>3. f \in Frame /\ f.type = "ready"
  BY DEF Frame
<1>4. process[w] \in ProcessRecord /\ process[w].out \in Seq(Frame)
  BY <1>1, ProcessTypes, Zenon
<1>5. /\ Append(process[w].out, f) \in Seq(Frame)
      /\ \A i \in 1..Len(Append(process[w].out, f)) :
            \/ Append(process[w].out, f)[i] = f
            \/ \E j \in 1..Len(process[w].out) : Append(process[w].out, f)[i] = process[w].out[j]
  BY <1>3, <1>4, FrameWritten, Zenon
<1>6. /\ new \in ProcessRecord /\ new.st = "serving" /\ new.loaded = process[w].loaded
      /\ new.inbox = process[w].inbox /\ new.run = process[w].run /\ new.last = process[w].last
      /\ new.out = Append(process[w].out, f)
  BY <1>4, <1>5, Zenon DEF ProcessRecord
<1>7. worker[w].st # "none" /\ worker[w].ident <= new.loaded
  BY <1>1, <1>2, <1>6, HasWorker, Zenon DEF CodeOK
<1>8. ASSUME process'[w] = new PROVE SlotStep(w)
  <2>1. \A c \in Call : MayRun(w, c)' => MayRun(w, c)
    BY <1>2, <1>6, <1>8 DEF MayRun
  <2>2. worker'[w] = worker[w]
    BY <1>2
  <2> QED BY <2>1, <2>2, <1>2, <1>3, <1>5, <1>6, <1>8, SMTT(30) DEF SlotStep
<1>9. faults' \in 0..MaxFaults
  BY <1>1, <1>2, Zenon DEF TypeOK
<1> HIDE DEF new
<1> QED BY <1>2, <1>6, <1>7, <1>8, <1>9, ProcessKeeps, ZenonT(30)

\* finishCall: the result of a call that was started is written.
LEMMA FinishCallKeeps == ASSUME PInv, NEW w \in Worker, FinishCall(w) PROVE PInv'
<1> DEFINE c == process[w].run
           f == [type |-> "result", id |-> c]
           new == [process[w] EXCEPT !.run = None, !.mark = c, !.out = Append(@, f)]
<1>1. /\ TypeOK /\ WorkersOK /\ CodeOK
  BY Zenon DEF PInv
<1>2. /\ process[w].st = "serving" /\ c # None /\ process' = [process EXCEPT ![w] = new]
      /\ UNCHANGED <<worker, pool, code, call>> /\ faults' = faults
  BY DEF FinishCall, Step
<1>3. /\ process[w] \in ProcessRecord /\ process[w].out \in Seq(Frame) /\ c \in Call
  BY <1>1, <1>2, ProcessTypes, Zenon
<1>4. f \in Frame /\ f.type = "result" /\ f.id = c
  BY <1>3, Zenon DEF Frame
<1>5. /\ Append(process[w].out, f) \in Seq(Frame)
      /\ \A i \in 1..Len(Append(process[w].out, f)) :
            \/ Append(process[w].out, f)[i] = f
            \/ \E j \in 1..Len(process[w].out) : Append(process[w].out, f)[i] = process[w].out[j]
  BY <1>3, <1>4, FrameWritten, Zenon
<1>6. /\ new \in ProcessRecord /\ new.st = "serving" /\ new.loaded = process[w].loaded
      /\ new.inbox = process[w].inbox /\ new.run = None /\ new.last = process[w].last
      /\ new.out = Append(process[w].out, f)
  BY <1>2, <1>3, <1>5, ZenonT(30) DEF ProcessRecord
<1>7. worker[w].st # "none" /\ worker[w].ident <= new.loaded
  BY <1>1, <1>2, <1>6, HasWorker, Zenon DEF CodeOK
<1>8. ASSUME process'[w] = new PROVE SlotStep(w)
  <2>1. \A d \in Call : MayRun(w, d)' => MayRun(w, d)
    BY <1>2, <1>6, <1>8, Zenon DEF MayRun
  <2>2. worker'[w] = worker[w]
    BY <1>2
  <2> QED BY <2>1, <2>2, <1>2, <1>4, <1>5, <1>6, <1>8, SMTT(30) DEF SlotStep
<1>9. faults' \in 0..MaxFaults
  BY <1>1, <1>2, Zenon DEF TypeOK
<1> HIDE DEF new
<1> QED BY <1>2, <1>6, <1>7, <1>8, <1>9, ProcessKeeps, ZenonT(30)

\* exitAfterFlush: the announcement names the last call that was started.
LEMMA ExitAfterFlushKeeps == ASSUME PInv, NEW w \in Worker, ExitAfterFlush(w) PROVE PInv'
<1> DEFINE f == [type |-> "exiting", last |-> process[w].last]
           new == [process[w] EXCEPT !.st = "exiting", !.out = Append(@, f)]
<1>1. /\ TypeOK /\ WorkersOK /\ CodeOK
  BY Zenon DEF PInv
<1>2. /\ process[w].st = "serving" /\ process' = [process EXCEPT ![w] = new]
      /\ UNCHANGED <<worker, pool, code, call>> /\ faults < MaxFaults /\ faults' = faults + 1
  BY DEF ExitAfterFlush, Step
<1>3. /\ process[w] \in ProcessRecord /\ process[w].out \in Seq(Frame)
      /\ process[w].last \in Call \union {None}
  BY <1>1, <1>2, ProcessTypes, Zenon
<1>4. f \in Frame /\ f.type = "exiting" /\ f.last = process[w].last
  BY <1>3, Zenon DEF Frame
<1>5. /\ Append(process[w].out, f) \in Seq(Frame)
      /\ \A i \in 1..Len(Append(process[w].out, f)) :
            \/ Append(process[w].out, f)[i] = f
            \/ \E j \in 1..Len(process[w].out) : Append(process[w].out, f)[i] = process[w].out[j]
  BY <1>3, <1>4, FrameWritten, Zenon
<1>6. /\ new \in ProcessRecord /\ new.st = "exiting" /\ new.loaded = process[w].loaded
      /\ new.inbox = process[w].inbox /\ new.run = process[w].run /\ new.last = process[w].last
      /\ new.out = Append(process[w].out, f)
  BY <1>2, <1>3, <1>5, ZenonT(30) DEF ProcessRecord
<1>7. worker[w].st # "none" /\ worker[w].ident <= new.loaded
  BY <1>1, <1>2, <1>6, HasWorker, Zenon DEF CodeOK
<1>8. ASSUME process'[w] = new PROVE SlotStep(w)
  <2>1. \A d \in Call : MayRun(w, d)' => MayRun(w, d)
    BY <1>2, <1>6, <1>8, Zenon DEF MayRun
  <2>2. worker'[w] = worker[w]
    BY <1>2
  <2> QED BY <2>1, <2>2, <1>2, <1>4, <1>5, <1>6, <1>8, SMTT(30) DEF SlotStep
<1>9. faults' \in 0..MaxFaults
  BY <1>1, <1>2, BoundAssumption DEF TypeOK
<1> HIDE DEF new
<1> QED BY <1>2, <1>6, <1>7, <1>8, <1>9, ProcessKeeps, ZenonT(30)

\* The process ends, killed, after its announcement or in a crash: it starts and
\* finishes nothing any more.
LEMMA EndedKeeps ==
    ASSUME PInv, NEW w \in Worker, w \in Alive(process), Ended(w), faults' \in 0..MaxFaults
    PROVE  PInv'
<1> DEFINE new == [process[w] EXCEPT !.st = "dead", !.inbox = None, !.run = None]
<1>1. /\ TypeOK /\ WorkersOK /\ CodeOK
  BY Zenon DEF PInv
<1>2. /\ process[w].st # "none" /\ process' = [process EXCEPT ![w] = new]
      /\ UNCHANGED <<worker, pool, code, call>>
  BY DEF Ended, Step, Alive
<1>3. process[w] \in ProcessRecord
  BY <1>1, ProcessTypes, Zenon
<1>4. /\ new \in ProcessRecord /\ new.st = "dead" /\ new.loaded = process[w].loaded
      /\ new.inbox = None /\ new.run = None /\ new.last = process[w].last
      /\ new.out = process[w].out
  BY <1>3, Zenon DEF ProcessRecord
<1>5. worker[w].st # "none" /\ worker[w].ident <= new.loaded
  BY <1>1, <1>2, <1>4, HasWorker, Zenon DEF CodeOK
<1>6. ASSUME process'[w] = new PROVE SlotStep(w)
  <2>1. \A d \in Call : MayRun(w, d)' => MayRun(w, d)
    BY <1>4, <1>6 DEF MayRun
  <2>2. worker'[w] = worker[w]
    BY <1>2
  <2> HIDE DEF new
  <2> QED BY <2>1, <2>2, <1>4, <1>6, Zenon DEF SlotStep
<1> HIDE DEF new
<1> QED BY <1>2, <1>4, <1>5, <1>6, ProcessKeeps, ZenonT(30)

\* A process ends, by itself, by a signal or by a crash.
LEMMA ExitsKeeps == ASSUME PInv, NEW w \in Worker, Exits(w) \/ Crashes(w) PROVE PInv'
<1>1. w \in Alive(process) /\ Ended(w)
  BY Zenon DEF Exits, Crashes
<1>2. faults' \in 0..MaxFaults
  BY BoundAssumption, SMTT(30) DEF PInv, TypeOK, Exits, Crashes
<1> QED BY <1>1, <1>2, EndedKeeps

\* scheduleExitKill's timer.
LEMMA ExitKillKeeps == ASSUME PInv, NEW w \in Worker, ExitKill(w) PROVE PInv'
<1> DEFINE new == Killed(process, {w})[w]
<1>1. /\ TypeOK /\ WorkersOK /\ CodeOK /\ process \in [Worker -> ProcessRecord]
  BY Zenon DEF PInv, TypeOK
<1>2. /\ worker[w].ann /\ process' = Killed(process, {w})
      /\ UNCHANGED <<worker, pool, code, call>> /\ faults' = faults
  BY Zenon DEF ExitKill, env
<1>3. /\ new \in ProcessRecord /\ new.st = process[w].st /\ new.loaded = process[w].loaded
      /\ new.inbox = process[w].inbox /\ new.run = process[w].run /\ new.last = process[w].last
      /\ new.out = process[w].out /\ new.mark = process[w].mark
      /\ Killed(process, {w}) \in [Worker -> ProcessRecord]
      /\ \A v \in Worker \ {w} : Killed(process, {w})[v] = process[v]
  BY <1>1, KilledIs, SMTT(30)
<1> HIDE DEF new
<1>4. process' = [process EXCEPT ![w] = new]
  BY <1>1, <1>2, <1>3, Zenon DEF new
<1>5. worker[w].st # "none"
  BY <1>1, <1>2, SMTT(30) DEF WorkersOK, WorkerOK, NoWorker
<1>6. new.st # "none" => worker[w].ident <= new.loaded
  BY <1>1, <1>3, Zenon DEF CodeOK
<1>7. ASSUME process'[w] = new PROVE SlotStep(w)
  <2>1. \A d \in Call : MayRun(w, d)' => MayRun(w, d)
    BY <1>3, <1>7, Zenon DEF MayRun
  <2>2. worker'[w] = worker[w]
    BY <1>2, Zenon
  <2> QED BY <2>1, <2>2, <1>3, <1>7, Zenon DEF SlotStep
<1>8. faults' \in 0..MaxFaults
  BY <1>1, <1>2, Zenon DEF TypeOK
<1> QED BY <1>2, <1>3, <1>4, <1>5, <1>6, <1>7, <1>8, ProcessKeeps, Zenon

\* launchWorker: the process loads the code of now.
LEMMA LaunchKeeps ==
    ASSUME PInv, NEW w \in Worker, worker[w].st = "starting", process[w].st = "none",
           process' = [process EXCEPT ![w].st = "boot", ![w].loaded = code],
           UNCHANGED <<worker, call, pool, env>>
    PROVE  PInv'
<1> DEFINE new == [process[w] EXCEPT !.st = "boot", !.loaded = code]
<1>1. /\ TypeOK /\ WorkersOK /\ CodeOK /\ process \in [Worker -> ProcessRecord]
      /\ code \in Version /\ faults \in 0..MaxFaults /\ FramesOK
  BY Zenon DEF PInv, TypeOK, CallsOK
<1>2. UNCHANGED <<worker, pool, code, call>> /\ faults' = faults
  BY DEF env
<1>3. process[w] \in ProcessRecord
  BY <1>1, Zenon
<1>4. /\ new \in ProcessRecord /\ new.st = "boot" /\ new.loaded = code
      /\ new.inbox = process[w].inbox /\ new.run = process[w].run /\ new.out = process[w].out
  BY <1>1, <1>3, ZenonT(30) DEF ProcessRecord
<1>5. process' = [process EXCEPT ![w] = new]
  BY <1>1, Zenon
<1> HIDE DEF new
<1>6. worker[w].st # "none" /\ worker[w].ident <= new.loaded
  BY <1>1, <1>4, Zenon DEF CodeOK
<1>7. ASSUME process'[w] = new PROVE SlotStep(w)
  <2>1. process[w].inbox = None /\ process[w].out = <<>> /\ worker[w].call = None
    BY <1>1, Zenon DEF WorkersOK, WorkerOK
  <2>2. \A d \in Call : ~MayRun(w, d)'
    BY <1>4, <1>7, <2>1, NoneAssumption, Zenon DEF MayRun
  <2>3. worker'[w] = worker[w]
    BY <1>2
  <2> QED BY <2>1, <2>2, <2>3, <1>4, <1>7, Zenon DEF SlotStep
<1>8. faults' \in 0..MaxFaults
  BY <1>1, <1>2, Zenon
<1> QED BY <1>2, <1>4, <1>5, <1>6, <1>7, <1>8, ProcessKeeps, ZenonT(30)

\* startCall: the only process that may start the call starts it.
LEMMA StartCallKeeps == ASSUME PInv, NEW w \in Worker, StartCall(w) PROVE PInv'
<1> DEFINE c == process[w].inbox
           new == [process[w] EXCEPT !.inbox = None, !.run = c, !.last = c]
<1>1. /\ TypeOK /\ WorkersOK /\ CodeOK /\ RunsOK /\ InboxOK /\ SentOK /\ FramesOK /\ FreshCode
      /\ call \in [Call -> CallRecord]
  BY Zenon DEF PInv, CallsOK, TypeOK
<1>2. /\ process[w].st = "serving" /\ c # None /\ process' = [process EXCEPT ![w] = new]
      /\ UNCHANGED <<worker, pool, code>> /\ worker' = worker
      /\ call' = [call EXCEPT ![c].runs = @ + 1] /\ faults' = faults
  BY Zenon DEF StartCall, MayStart, Step
<1>3. process[w] \in ProcessRecord /\ c \in Call
  BY <1>1, <1>2, ProcessTypes, Zenon
<1>4. /\ new \in ProcessRecord /\ new.st = "serving" /\ new.loaded = process[w].loaded
      /\ new.inbox = None /\ new.run = c /\ new.last = c /\ new.out = process[w].out
  BY <1>2, <1>3, ZenonT(30) DEF ProcessRecord
<1>5. /\ call[c].runs = 0 /\ call[c].st \in {"sent", "failed"} /\ worker[w].call \in {None, c}
      /\ \A v \in Worker : MayRun(v, c) => v = w
      /\ MayRun(w, c)
  BY <1>1, <1>2, <1>3, Zenon DEF InboxOK, MayRun
<1>6. /\ call' \in [Call -> CallRecord] /\ call'[c].runs = 1
      /\ \A d \in Call : /\ call'[d].st = call[d].st /\ call'[d].asked = call[d].asked
                         /\ call'[d].frame = call[d].frame
                         /\ d # c => call'[d].runs = call[d].runs
  <2>1. call[c] \in CallRecord /\ call[c].runs + 1 = 1
    BY <1>1, <1>3, <1>5, SMTT(30)
  <2>2. call' = [call EXCEPT ![c] = [call[c] EXCEPT !.runs = 1]]
    BY <1>2, <2>1, ZenonT(30)
  <2>3. [call[c] EXCEPT !.runs = 1] \in CallRecord
    BY <2>1, Zenon DEF CallRecord
  <2> QED BY <1>1, <1>3, <2>1, <2>2, <2>3, ZenonT(30) DEF CallRecord
<1> HIDE DEF new
<1>7. worker[w].st # "none" /\ worker[w].ident <= new.loaded
  BY <1>1, <1>2, <1>4, HasWorker, Zenon DEF CodeOK
<1>8. faults' \in 0..MaxFaults
  BY <1>1, <1>2, Zenon DEF TypeOK
<1>9. /\ TypeOK' /\ WorkersOK' /\ QueueOK' /\ CodeOK' /\ NoStrandedCall'
      /\ process'[w] = new /\ \A v \in Worker \ {w} : process'[v] = process[v]
  BY <1>2, <1>4, <1>6, <1>7, <1>8, ProcessOnly, ZenonT(30)
<1>10. ASSUME NEW v \in Worker, NEW d \in Call, MayRun(v, d)'
       PROVE  v # w /\ MayRun(v, d) /\ d # c
  <2>1. v # w
    BY <1>4, <1>9, <1>10, NoneAssumption, Zenon DEF MayRun
  <2>2. MayRun(v, d)
    BY <1>9, <1>10, <2>1, Zenon DEF MayRun
  <2> QED BY <2>1, <2>2, <1>5, Zenon
<1>11. ASSUME NEW d \in Call, call[d].runs = 1 PROVE call'[d].runs = 1
  BY <1>6, <1>11, Zenon
<1>12. RunsOK'
  <2> SUFFICES ASSUME NEW d \in Call
               PROVE  /\ call'[d].runs <= 1
                      /\ call'[d].st \in {"new", "queued"} => call'[d].runs = 0
                      /\ call'[d].st \in {"done", "fallback"} => call'[d].runs = 1
                      /\ call'[d].frame => call'[d].runs = 1
    BY Zenon DEF RunsOK
  <2>1. CASE d = c
    BY <1>5, <1>6, <2>1, SMTT(30)
  <2>2. CASE d # c
    BY <1>1, <1>6, <2>2, Zenon DEF RunsOK
  <2> QED BY <2>1, <2>2, Zenon
<1>13. InboxOK'
  <2> SUFFICES ASSUME NEW v \in Worker, NEW d \in Call, MayRun(v, d)'
               PROVE  /\ call'[d].runs = 0 /\ call'[d].st \in {"sent", "failed"}
                      /\ worker'[v].call \in {None, d}
                      /\ \A u \in Worker : MayRun(u, d)' => u = v
    BY Zenon DEF InboxOK
  <2>1. /\ call[d].runs = 0 /\ call[d].st \in {"sent", "failed"}
        /\ worker[v].call \in {None, d} /\ \A u \in Worker : MayRun(u, d) => u = v
    BY <1>1, <1>10, Zenon DEF InboxOK
  <2>2. \A u \in Worker : MayRun(u, d)' => u = v
    BY <2>1, <1>10, Zenon
  <2>3. call'[d].runs = call[d].runs /\ call'[d].st = call[d].st
    BY <1>6, <1>10, Zenon
  <2> QED BY <2>1, <2>2, <2>3, <1>2, Zenon
<1>14. SentOK'
  <2> SUFFICES ASSUME NEW v \in Worker, NEW d \in Call, worker'[v].call = d
               PROVE  /\ call'[d].st = "sent"
                      /\ call'[d].runs = 0 \/ process'[v].last = d
                      /\ \A u \in Worker : worker'[u].call = d \/ MayRun(u, d)' => u = v
    BY Zenon DEF SentOK
  <2>1. /\ call[d].st = "sent" /\ (call[d].runs = 0 \/ process[v].last = d)
        /\ \A u \in Worker : worker[u].call = d \/ MayRun(u, d) => u = v
    BY <1>1, <1>2, Zenon DEF SentOK
  <2>2. \A u \in Worker : worker'[u].call = d \/ MayRun(u, d)' => u = v
    BY <2>1, <1>2, <1>10, Zenon
  <2>3. call'[d].runs = 0 \/ process'[v].last = d
    <3>1. CASE d = c
      BY <3>1, <2>1, <1>4, <1>5, <1>9, Zenon
    <3>2. CASE d # c
      <4>1. v # w
        BY <3>2, <1>2, <1>5, NoneAssumption, ZenonT(30)
      <4> QED BY <4>1, <3>2, <2>1, <1>6, <1>9, Zenon
    <3> QED BY <3>1, <3>2, Zenon
  <2> QED BY <2>1, <2>2, <2>3, <1>6, Zenon
<1>15. FramesOK'
  <2> SUFFICES ASSUME NEW v \in Worker
               PROVE  /\ process'[v].run # None => call'[process'[v].run].runs = 1
                      /\ \A i \in 1..Len(process'[v].out) : FrameOK(v, process[v].out[i])'
    BY Zenon DEF FramesOK
  <2>1. process'[v].run # None => call'[process'[v].run].runs = 1
    <3>1. CASE v = w
      BY <3>1, <1>4, <1>6, <1>9, Zenon
    <3>2. CASE v # w
      <4>1. process'[v].run = process[v].run /\ process[v].run \in Call \union {None}
        BY <3>2, <1>1, <1>9, ProcessTypes, Zenon
      <4> QED BY <4>1, <1>1, <1>11, Zenon DEF FramesOK
    <3> QED BY <3>1, <3>2, Zenon
  <2>2. ASSUME NEW i \in 1..Len(process'[v].out) PROVE FrameOK(v, process[v].out[i])'
    <3> DEFINE f == process[v].out[i]
    <3>1. process'[v].out = process[v].out /\ process'[v].st = process[v].st
      <4>1. CASE v = w
        BY <4>1, <1>2, <1>4, <1>9, Zenon
      <4>2. CASE v # w
        BY <4>2, <1>9, Zenon
      <4> QED BY <4>1, <4>2, Zenon
    <3>2. f \in Frame /\ FrameOK(v, f) /\ process'[v].out[i] = f
      BY <1>1, <3>1, ProcessTypes, Zenon DEF FramesOK
    <3>3. /\ f.type = "result" => call[f.id].runs = 1
          /\ f.type = "exiting" =>
                process[v].st \in {"exiting", "dead"} /\ f.last = process[v].last
      BY <3>2, Zenon DEF FrameOK
    <3>4. f.type = "result" => f.id \in Call
      BY <3>2, Zenon DEF Frame
    <3>5. f.type = "exiting" => v # w
      BY <3>3, <1>2, Zenon
    <3>6. /\ f.type = "result" => call'[f.id].runs = 1
          /\ f.type = "exiting" =>
                process'[v].st \in {"exiting", "dead"} /\ f.last = process'[v].last
      BY <3>1, <3>3, <3>4, <3>5, <1>9, <1>11, Zenon
    <3> QED BY <3>2, <3>6, Zenon DEF FrameOK
  <2> QED BY <2>1, <2>2, Zenon
<1>16. FreshCode'
  <2> SUFFICES ASSUME NEW v \in Worker, worker'[v].call # None
               PROVE  process'[v].loaded >= call'[worker'[v].call].asked
    BY Zenon DEF FreshCode
  <2>1. worker[v].call \in Call
    BY <1>1, <1>2, ProcessTypes, Zenon
  <2>2. process'[v].loaded = process[v].loaded
    <3>1. CASE v = w
      BY <3>1, <1>4, <1>9, Zenon
    <3>2. CASE v # w
      BY <3>2, <1>9, Zenon
    <3> QED BY <3>1, <3>2, Zenon
  <2> QED BY <2>1, <2>2, <1>1, <1>2, <1>6, Zenon DEF FreshCode
<1> QED BY <1>9, <1>12, <1>13, <1>14, <1>15, <1>16, Zenon DEF PInv, CallsOK

(***************************************************************************)
(* Steps of the pool that concern one worker and leave the queue alone.    *)
(***************************************************************************)
\* Such a step preserves the invariant when it keeps what is known of its worker and
\* of the calls, and pumps unless it frees no worker.
LEMMA SlotKeeps ==
    ASSUME PInv, NEW w \in Worker, worker[w].st # "none",
           worker' \in [Worker -> WorkerRecord], process' \in [Worker -> ProcessRecord],
           call' \in [Call -> CallRecord], deaths' \in 0..(DeathLimit - 1),
           degraded' \in BOOLEAN, faults' \in 0..MaxFaults,
           queue' = queue, shut' = shut, code' = code, failing' = failing,
           \A v \in Worker \ {w} : worker'[v] = worker[v] /\ process'[v] = process[v],
           WorkerOK(w)', SlotStep(w), worker'[w].ident <= code,
           process'[w].st # "none" => worker'[w].ident <= process'[w].loaded,
           \A c \in Call : /\ CallStep(c) /\ call'[c].asked = call[c].asked
                           /\ call[c].st = "queued" => call'[c].st = "queued"
                           /\ call'[c].st \in {"queued", "sent"} => call'[c].st = call[c].st,
           \/ Pump(queue, worker', failing, walk.on)
           \/ /\ walk' = walk /\ late' = late /\ worker'[w].st # "none"
              /\ worker'[w].st = "idle" => worker[w].st = "idle"
    PROVE  PInv'
<1>1. TypeOK /\ WorkersOK /\ QueueOK /\ CodeOK /\ CallsOK /\ NoStrandedCall
  BY Zenon DEF PInv
<1>2. /\ walk \in [on : BOOLEAN, from : Version] /\ late \subseteq Call /\ failing \in BOOLEAN
      /\ queue \in Seq(Call) /\ shut \in {"no", "waiting", "clean", "unclean"}
      /\ code \in Version /\ walk.on \in BOOLEAN
  BY <1>1, Zenon DEF TypeOK
<1>3. /\ walk' \in [on : BOOLEAN, from : Version] /\ late' \subseteq Call
      /\ \/ walk' = walk /\ late' = late
         \/ /\ late' = {} /\ ~walk.on
            /\ \/ walk' = NoWalk
               \/ shut = "no" /\ walk' = [on |-> TRUE, from |-> code]
  <2>1. CASE Pump(queue, worker', failing, walk.on)
    <3>1. /\ walk' \in [on : BOOLEAN, from : Version] /\ late' \subseteq Call
          /\ walk.on => walk' = walk /\ late' = late
          /\ ~walk.on => /\ late' = {}
                         /\ \/ walk' = NoWalk
                            \/ shut = "no" /\ walk' = [on |-> TRUE, from |-> code]
      BY <2>1, <1>1, <1>2, PumpStep, SMTT(30)
    <3> QED BY <3>1, Zenon
  <2>2. CASE walk' = walk /\ late' = late
    BY <2>2, <1>2, Zenon
  <2> QED BY <2>1, <2>2, Zenon
<1>4. TypeOK'
  BY <1>2, <1>3, Zenon DEF TypeOK
<1>5. ~NoWalk.on
  BY Zenon DEF NoWalk
<1>6. WorkersOK'
  <2>1. shut # "no" => queue' = <<>> /\ ~walk'.on
    BY <1>1, <1>3, <1>5, Zenon DEF WorkersOK
  <2> QED BY <1>1, <2>1, OneWorker, Zenon
<1>7. QueueOK'
  <2>1. late' \in {late, {}} /\ (~walk'.on => late' = {})
    BY <1>1, <1>3, Zenon DEF QueueOK
  <2> QED BY <1>1, <2>1, QueueKept, Zenon
<1>8. CodeOK'
  <2>1. \A v \in Worker : /\ worker'[v].ident <= code
                          /\ process'[v].st # "none" => worker'[v].ident <= process'[v].loaded
    BY <1>1, Zenon DEF CodeOK
  <2>2. \A c \in Call : call'[c].asked <= code
    BY <1>1, Zenon DEF CodeOK
  <2>3. \A c \in Call : call'[c].st \in {"queued", "sent"} => call[c].st \in {"queued", "sent"}
    BY Zenon
  <2> QED BY <1>1, <1>3, <1>4, <2>1, <2>2, <2>3, CodeKept, Zenon
<1>9. CallsOK'
  <2>1. ASSUME NEW v \in Worker PROVE SlotStep(v)
    BY SlotSame, Zenon
  <2> QED BY <1>1, <1>4, <2>1, CallsKept, Zenon
<1>10. NoStrandedCall'
  <2>1. CASE Pump(queue, worker', failing, walk.on)
    BY <2>1, <1>1, <1>4, PumpedNotStranded, Zenon
  <2>2. CASE /\ walk' = walk /\ late' = late /\ worker'[w].st # "none"
             /\ worker'[w].st = "idle" => worker[w].st = "idle"
    <3>1. \A v \in Worker : /\ worker'[v].st = "idle" => worker[v].st = "idle"
                            /\ worker[v].st # "none" => worker'[v].st # "none"
      BY <2>2, Zenon
    <3> QED BY <1>1, <2>2, <3>1, NotStranded, Zenon
  <2> QED BY <2>1, <2>2, Zenon
<1> QED BY <1>4, <1>6, <1>7, <1>8, <1>9, <1>10, Zenon DEF PInv

\* retire, with or without failBusyCall, of a worker that has a process: what is known
\* of the worker.
LEMMA RetiredSlot ==
    ASSUME PInv, NEW w \in Worker, worker[w].st # "none", process[w].st # "none",
           NEW ws \in {worker, [worker EXCEPT ![w].call = None]},
           worker' = Retired(ws, {w}), process' = Killed(process, {w}), shut' = shut
    PROVE  /\ worker' \in [Worker -> WorkerRecord] /\ process' \in [Worker -> ProcessRecord]
           /\ \A v \in Worker \ {w} : worker'[v] = worker[v] /\ process'[v] = process[v]
           /\ WorkerOK(w)' /\ SlotStep(w) /\ worker'[w].ident <= worker[w].ident
           /\ worker'[w].ident <= code
           /\ process'[w].st # "none" => worker'[w].ident <= process'[w].loaded
           /\ worker'[w].st \in {"retiring", "starting-retiring"}
           /\ worker'[w].call = ws[w].call
<1>1. /\ TypeOK /\ WorkerOK(w) /\ CodeOK /\ worker \in [Worker -> WorkerRecord]
      /\ process \in [Worker -> ProcessRecord]
  BY Zenon DEF PInv, WorkersOK, TypeOK
<1>2. /\ ws \in [Worker -> WorkerRecord] /\ \A v \in Worker \ {w} : ws[v] = worker[v]
      /\ ws[w].st = worker[w].st /\ ws[w].ident = worker[w].ident
      /\ ws[w].call \in {worker[w].call, None}
  <2>1. CASE ws = worker
    BY <1>1, <2>1, Zenon
  <2>2. CASE ws = [worker EXCEPT ![w].call = None]
    BY <1>1, <2>2, ZenonT(30) DEF WorkerRecord
  <2> QED BY <2>1, <2>2, Zenon
<1>3. /\ worker' \in [Worker -> WorkerRecord]
      /\ \A v \in Worker \ {w} : worker'[v] = worker[v]
      /\ worker'[w].call = ws[w].call /\ worker'[w].ident = worker[w].ident
      /\ worker'[w].st = IF worker[w].st = "starting" THEN "starting-retiring" ELSE "retiring"
  BY <1>2, RetiredIs, SMTT(30)
<1>4. /\ process' \in [Worker -> ProcessRecord]
      /\ \A v \in Worker \ {w} : process'[v] = process[v]
      /\ process'[w].st = process[w].st /\ process'[w].loaded = process[w].loaded
      /\ process'[w].inbox = process[w].inbox /\ process'[w].run = process[w].run
      /\ process'[w].last = process[w].last /\ process'[w].out = process[w].out
  BY <1>1, KilledIs, SMTT(30)
<1>5. WorkerOK(w)'
  BY <1>1, <1>2, <1>3, <1>4, Zenon DEF WorkerOK
<1>6. SlotStep(w)
  <2>1. \A c \in Call : MayRun(w, c)' => MayRun(w, c)
    BY <1>4, Zenon DEF MayRun
  <2> QED BY <2>1, <1>2, <1>3, <1>4, Zenon DEF SlotStep
<1>7. /\ worker[w].ident \in Nat /\ worker[w].ident <= code
      /\ process[w].st # "none" => worker[w].ident <= process[w].loaded
  BY <1>1, SMTT(30) DEF CodeOK, WorkerRecord, Version
<1>8. worker'[w].ident <= worker[w].ident
  BY <1>3, <1>7, SMTT(30)
<1>9. worker'[w].st \in {"retiring", "starting-retiring"}
  BY <1>3, Zenon
<1> QED BY <1>3, <1>4, <1>5, <1>6, <1>7, <1>8, <1>9, Zenon

\* The call of a worker fails with it.
LEMMA FailedCall ==
    ASSUME PInv, NEW w \in Worker, call' = Settled({worker[w].call} \ {None}, "failed"),
           \A v \in Worker \ {w} : worker'[v] = worker[v], worker'[w].call = None
    PROVE  /\ call' \in [Call -> CallRecord]
           /\ \A c \in Call : /\ CallStep(c) /\ call'[c].asked = call[c].asked
                              /\ call[c].st = "queued" => call'[c].st = "queued"
                              /\ call'[c].st \in {"queued", "sent"} => call'[c].st = call[c].st
<1>1. TypeOK /\ SentOK /\ call \in [Call -> CallRecord] /\ "failed" \in Outcome
  BY Zenon DEF PInv, CallsOK, TypeOK, Outcome
<1>2. /\ call' \in [Call -> CallRecord]
      /\ \A c \in Call : /\ c \notin {worker[w].call} \ {None} => call'[c] = call[c]
                         /\ c \in {worker[w].call} \ {None} => call'[c].st = "failed"
                         /\ call'[c].runs = call[c].runs /\ call'[c].asked = call[c].asked
                         /\ call'[c].frame = call[c].frame
  BY <1>1, SettledIs, SMTT(30)
<1>3. ASSUME NEW c \in Call
      PROVE  /\ CallStep(c)
             /\ call[c].st = "queued" => call'[c].st = "queued"
             /\ call'[c].st \in {"queued", "sent"} => call'[c].st = call[c].st
  <2>1. CASE c # worker[w].call
    <3>1. call'[c] = call[c]
      BY <1>2, <2>1, ZenonT(30)
    <3> QED BY <3>1, CallSame, Zenon
  <2>2. CASE c = worker[w].call
    <3>1. c # None /\ call[c].st = "sent" /\ \A v \in Worker : worker[v].call = c => v = w
      BY <1>1, <2>2, NoneAssumption, Zenon DEF SentOK
    <3>2. call'[c].st = "failed"
      BY <1>2, <2>2, <3>1, ZenonT(30)
    <3>3. \A v \in Worker : worker'[v].call # c
      BY <3>1, Zenon
    <3> QED BY <1>2, <3>1, <3>2, <3>3, ZenonT(30) DEF CallStep
  <2> QED BY <2>1, <2>2, Zenon
<1> QED BY <1>2, <1>3, Zenon

\* An idle or busy worker, and one with a call, has a process.
LEMMA HasProcess ==
    ASSUME PInv, NEW w \in Worker, worker[w].st \in {"idle", "busy"} \/ worker[w].call # None
    PROVE  process[w].st # "none" /\ worker[w].st # "none"
BY Zenon DEF PInv, WorkersOK, WorkerOK

\* A step that changes no call.
LEMMA CallsSame ==
    ASSUME call' = call
    PROVE  \A c \in Call : /\ CallStep(c) /\ call'[c].asked = call[c].asked
                           /\ call[c].st = "queued" => call'[c].st = "queued"
                           /\ call'[c].st \in {"queued", "sent"} => call'[c].st = call[c].st
BY CallSame, Zenon

\* What a step that leaves the counters alone keeps of their types.
LEMMA CounterTypes ==
    ASSUME PInv
    PROVE  /\ deaths \in 0..(DeathLimit - 1) /\ degraded \in BOOLEAN /\ faults \in 0..MaxFaults
           /\ 0 \in 0..(DeathLimit - 1)
           /\ faults < MaxFaults => faults + 1 \in 0..MaxFaults
           /\ call \in [Call -> CallRecord] /\ worker \in [Worker -> WorkerRecord]
           /\ process \in [Worker -> ProcessRecord]
BY SizeAssumption, BoundAssumption, SMTT(30) DEF PInv, TypeOK

\* The ready timer, the idle timer and the end of the channel retire a worker.
LEMMA RetireOnlyKeeps ==
    ASSUME PInv, NEW w \in Worker, ReadyTimeout(w) \/ IdleTimeout(w) \/ ChannelEnd(w)
    PROVE  PInv'
<1>1. /\ worker' = Retired(worker, {w}) /\ process' = Killed(process, {w})
      /\ UNCHANGED <<call, pool, code>>
  BY Zenon DEF ReadyTimeout, IdleTimeout, ChannelEnd, RetireOnly
<1>2. /\ call' = call /\ queue' = queue /\ walk' = walk /\ late' = late /\ failing' = failing
      /\ deaths' = deaths /\ degraded' = degraded /\ shut' = shut /\ code' = code
  BY <1>1, Zenon DEF pool
<1>3. worker[w].st # "none" /\ process[w].st # "none"
  BY HasProcess, Zenon DEF ReadyTimeout, IdleTimeout, ChannelEnd
<1>4. /\ deaths \in 0..(DeathLimit - 1) /\ degraded \in BOOLEAN /\ faults \in 0..MaxFaults
      /\ faults < MaxFaults => faults + 1 \in 0..MaxFaults
      /\ call \in [Call -> CallRecord]
  BY CounterTypes, Zenon
<1>5. faults' \in 0..MaxFaults
  BY <1>4, Zenon DEF ReadyTimeout, IdleTimeout, ChannelEnd
<1>6. /\ worker' \in [Worker -> WorkerRecord] /\ process' \in [Worker -> ProcessRecord]
      /\ \A v \in Worker \ {w} : worker'[v] = worker[v] /\ process'[v] = process[v]
      /\ WorkerOK(w)' /\ SlotStep(w) /\ worker'[w].ident <= code
      /\ process'[w].st # "none" => worker'[w].ident <= process'[w].loaded
      /\ worker'[w].st \in {"retiring", "starting-retiring"}
  <2>1. worker \in {worker, [worker EXCEPT ![w].call = None]}
    OBVIOUS
  <2> QED BY <1>1, <1>2, <1>3, <2>1, RetiredSlot, Zenon
<1>7. worker'[w].st # "none" /\ worker'[w].st # "idle"
  BY <1>6, Zenon
<1>8. \A c \in Call : /\ CallStep(c) /\ call'[c].asked = call[c].asked
                      /\ call[c].st = "queued" => call'[c].st = "queued"
                      /\ call'[c].st \in {"queued", "sent"} => call'[c].st = call[c].st
  BY <1>2, CallsSame, Zenon
<1> QED BY <1>2, <1>3, <1>4, <1>5, <1>6, <1>7, <1>8, SlotKeeps, Zenon

\* Stray output of an idle worker: it is replaced.
LEMMA StrayOutputKeeps == ASSUME PInv, NEW w \in Worker, StrayOutput(w) PROVE PInv'
<1>1. /\ worker' = Retired(worker, {w}) /\ process' = Killed(process, {w})
      /\ call' = call /\ queue' = queue /\ failing' = failing
      /\ deaths' = deaths /\ degraded' = degraded /\ shut' = shut /\ code' = code
      /\ faults < MaxFaults /\ faults' = faults + 1
      /\ Pump(queue, worker', failing, walk.on)
  BY Zenon DEF StrayOutput
<1>2. worker[w].st # "none" /\ process[w].st # "none"
  BY HasProcess, Zenon DEF StrayOutput
<1>3. /\ deaths \in 0..(DeathLimit - 1) /\ degraded \in BOOLEAN /\ faults' \in 0..MaxFaults
      /\ call \in [Call -> CallRecord]
  BY <1>1, CounterTypes, Zenon
<1>4. /\ worker' \in [Worker -> WorkerRecord] /\ process' \in [Worker -> ProcessRecord]
      /\ \A v \in Worker \ {w} : worker'[v] = worker[v] /\ process'[v] = process[v]
      /\ WorkerOK(w)' /\ SlotStep(w) /\ worker'[w].ident <= code
      /\ process'[w].st # "none" => worker'[w].ident <= process'[w].loaded
  <2>1. worker \in {worker, [worker EXCEPT ![w].call = None]}
    BY Zenon
  <2> QED BY <1>1, <1>2, <2>1, RetiredSlot, Zenon
<1>5. \A c \in Call : /\ CallStep(c) /\ call'[c].asked = call[c].asked
                      /\ call[c].st = "queued" => call'[c].st = "queued"
                      /\ call'[c].st \in {"queued", "sent"} => call'[c].st = call[c].st
  BY <1>1, CallsSame, Zenon
<1> QED BY <1>1, <1>2, <1>3, <1>4, <1>5, SlotKeeps, Zenon

\* failBusyCall and retire, after a protocol error or at the deadline of a call.
LEMMA FailAndRetireKeeps ==
    ASSUME PInv, NEW w \in Worker, FailAndRetire(w),
           worker[w].st # "none", process[w].st # "none",
           queue' = queue, failing' = failing, deaths' = deaths, degraded' = degraded,
           shut' = shut, code' = code, faults' \in 0..MaxFaults,
           \/ Pump(queue, worker', failing, walk.on)
           \/ walk' = walk /\ late' = late
    PROVE  PInv'
<1> DEFINE ws == [worker EXCEPT ![w].call = None]
<1>1. /\ call' = Settled({worker[w].call} \ {None}, "failed")
      /\ worker' = Retired(ws, {w}) /\ process' = Killed(process, {w})
  BY Zenon DEF FailAndRetire
<1>2. ws \in {worker, [worker EXCEPT ![w].call = None]} /\ ws[w].call = None
  BY CounterTypes, Zenon DEF WorkerRecord
<1>3. /\ deaths \in 0..(DeathLimit - 1) /\ degraded \in BOOLEAN
  BY CounterTypes, Zenon
<1> HIDE DEF ws
<1>4. /\ worker' \in [Worker -> WorkerRecord] /\ process' \in [Worker -> ProcessRecord]
      /\ \A v \in Worker \ {w} : worker'[v] = worker[v] /\ process'[v] = process[v]
      /\ WorkerOK(w)' /\ SlotStep(w) /\ worker'[w].ident <= code
      /\ process'[w].st # "none" => worker'[w].ident <= process'[w].loaded
      /\ worker'[w].st \in {"retiring", "starting-retiring"}
      /\ worker'[w].call = ws[w].call
  BY <1>1, <1>2, RetiredSlot, Zenon
<1>5. /\ call' \in [Call -> CallRecord]
      /\ \A c \in Call : /\ CallStep(c) /\ call'[c].asked = call[c].asked
                         /\ call[c].st = "queued" => call'[c].st = "queued"
                         /\ call'[c].st \in {"queued", "sent"} => call'[c].st = call[c].st
  BY <1>1, <1>2, <1>4, FailedCall, Zenon
<1>6. worker'[w].st # "none" /\ worker'[w].st # "idle"
  BY <1>4, Zenon
<1> QED BY <1>3, <1>4, <1>5, <1>6, SlotKeeps, Zenon

\* onProtocolError: the call fails and the worker is replaced.
LEMMA OnProtocolErrorKeeps == ASSUME PInv, NEW w \in Worker, OnProtocolError(w) PROVE PInv'
<1>1. /\ FailAndRetire(w) /\ queue' = queue /\ failing' = failing /\ deaths' = deaths
      /\ degraded' = degraded /\ shut' = shut /\ code' = code
      /\ faults < MaxFaults /\ faults' = faults + 1
      /\ Pump(queue, worker', failing, walk.on) /\ process[w].st # "none"
      /\ worker[w].st \in {"starting", "idle", "busy"}
  BY Zenon DEF OnProtocolError
<1>2. worker[w].st # "none"
  BY <1>1, Zenon
<1>3. faults' \in 0..MaxFaults
  BY <1>1, CounterTypes, Zenon
<1> QED BY <1>1, <1>2, <1>3, FailAndRetireKeeps, Zenon

\* onCallTimeout of a sent call: it fails and its worker is retired.
LEMMA CallTimeoutKeeps == ASSUME PInv, NEW c \in Call, CallTimeout(c) PROVE PInv'
<1>1. PICK w \in Worker : worker[w].call = c /\ FailAndRetire(w)
  BY Zenon DEF CallTimeout
<1>2. /\ queue' = queue /\ failing' = failing /\ deaths' = deaths /\ degraded' = degraded
      /\ shut' = shut /\ walk' = walk /\ late' = late /\ code' = code /\ faults' = faults
  BY Zenon DEF CallTimeout, pool, env
<1>3. process[w].st # "none" /\ worker[w].st # "none"
  BY <1>1, HasProcess, NoneAssumption, Zenon
<1>4. faults' \in 0..MaxFaults
  BY <1>2, CounterTypes, Zenon
<1> QED BY <1>1, <1>2, <1>3, <1>4, FailAndRetireKeeps, Zenon

(***************************************************************************)
(* onWorkerGone.                                                           *)
(***************************************************************************)
\* A call that runs as a fresh process was queued, so nothing had started it.
LEMMA QueuedRuns ==
    ASSUME PInv, NEW i \in 1..Len(queue)
    PROVE  /\ queue[i] \in Call /\ call[queue[i]].st = "queued" /\ call[queue[i]].runs = 0
           /\ \A w \in Worker : worker[w].call # queue[i] /\ ~MayRun(w, queue[i])
<1>1. TypeOK /\ QueueOK /\ RunsOK /\ SentOK /\ InboxOK
  BY Zenon DEF PInv, CallsOK
<1>2. queue[i] \in Call
  BY <1>1, SeqElement, Zenon DEF TypeOK
<1>3. call[queue[i]].st = "queued"
  BY <1>1, Zenon DEF QueueOK
<1>4. call[queue[i]].runs = 0
  BY <1>1, <1>2, <1>3, Zenon DEF RunsOK
<1>5. \A w \in Worker : worker[w].call # queue[i]
  BY <1>1, <1>2, <1>3, Zenon DEF SentOK
<1>6. \A w \in Worker : ~MayRun(w, queue[i])
  BY <1>1, <1>2, <1>3, Zenon DEF InboxOK
<1> QED BY <1>2, <1>3, <1>4, <1>5, <1>6, Zenon

\* The slot of a worker that is gone.
LEMMA GoneSlot ==
    ASSUME PInv, NEW w \in Worker,
           worker' = [worker EXCEPT ![w] = NoWorker], process' = [process EXCEPT ![w] = NoProcess]
    PROVE  /\ worker' \in [Worker -> WorkerRecord] /\ process' \in [Worker -> ProcessRecord]
           /\ \A v \in Worker \ {w} : worker'[v] = worker[v] /\ process'[v] = process[v]
           /\ worker'[w] = NoWorker /\ worker'[w].call = None
           /\ WorkerOK(w)' /\ SlotStep(w) /\ worker'[w].ident <= code
           /\ process'[w].st # "none" => worker'[w].ident <= process'[w].loaded
<1>1. /\ worker \in [Worker -> WorkerRecord] /\ process \in [Worker -> ProcessRecord]
      /\ code \in Nat
  BY BoundAssumption, SMTT(30) DEF PInv, TypeOK, Version
<1>2. /\ NoWorker \in WorkerRecord /\ NoWorker.st = "none" /\ NoWorker.call = None
      /\ NoWorker.ident = 0
  BY BoundAssumption, SMTT(30) DEF NoWorker, WorkerRecord, Version
<1>3. /\ NoProcess.st = "none" /\ NoProcess.inbox = None /\ NoProcess.run = None
      /\ NoProcess.out = <<>> /\ NoProcess.mark = None
  BY Zenon DEF NoProcess
<1>4. NoProcess \in ProcessRecord
  <2>1. <<>> \in Seq(Frame)
    BY SeqEmpty
  <2> QED BY <2>1, BoundAssumption, SMTT(30) DEF NoProcess, ProcessRecord, Version
<1>5. /\ worker' \in [Worker -> WorkerRecord] /\ process' \in [Worker -> ProcessRecord]
      /\ \A v \in Worker \ {w} : worker'[v] = worker[v] /\ process'[v] = process[v]
      /\ worker'[w] = NoWorker /\ process'[w] = NoProcess
  BY <1>1, <1>2, <1>4
<1>6. WorkerOK(w)'
  BY <1>2, <1>3, <1>5, Zenon DEF WorkerOK
<1>7. SlotStep(w)
  <2>1. \A c \in Call : ~MayRun(w, c)'
    BY <1>3, <1>5, Zenon DEF MayRun
  <2>2. Len(<<>>) = 0
    BY Zenon
  <2> QED BY <2>1, <2>2, <1>2, <1>3, <1>5, SMTT(30) DEF SlotStep
<1> QED BY <1>1, <1>2, <1>3, <1>5, <1>6, <1>7, SMTT(30)

\* The count of unproductive deaths stays below its limit.
LEMMA DeathsBounded ==
    ASSUME PInv, NEW counts \in BOOLEAN, NEW degrades \in BOOLEAN,
           counts /\ deaths + 1 >= DeathLimit => degrades
    PROVE  RecordDeath(counts, degrades) \in 0..(DeathLimit - 1)
BY SizeAssumption, SMTT(30) DEF PInv, TypeOK, RecordDeath

\* A worker is gone, its call fails with it; a pool that gets degraded runs its queue
\* as fresh processes.
LEMMA WorkerGoneKeeps ==
    ASSUME PInv, NEW w \in Worker, NEW socketless \in BOOLEAN, OnWorkerGone(w, socketless),
           worker[w].st # "none", process[w].st \in {"none", "dead"}
    PROVE  PInv'
<1> DEFINE counts == shut = "no" /\ ~socketless /\ Unproductive(w)
           limit == counts /\ deaths + 1 >= DeathLimit
           probed == socketless /\ shut = "no" /\ ~degraded
           failed == Settled({worker[w].call} \ {None}, "failed")
           cs == {queue[i] : i \in 1..Len(queue)}
<1>1. /\ worker' = [worker EXCEPT ![w] = NoWorker]
      /\ process' = [process EXCEPT ![w] = NoProcess]
      /\ deaths' = RecordDeath(counts, limit \/ probed)
      /\ degraded' = (degraded \/ limit \/ probed)
      /\ failing' = failing /\ shut' = shut /\ code' = code /\ faults' = faults
  <2>1. w \notin Alive(process)
    BY Zenon DEF Alive
  <2> QED BY <2>1, Zenon DEF OnWorkerGone, env
<1>2. \/ queue' = <<>> /\ late' = {} /\ call' = Fallback(failed, cs) /\ walk' = walk
      \/ call' = failed /\ Pump(queue, worker', failing, walk.on) /\ queue' = queue
  BY Zenon DEF OnWorkerGone
<1>3. deaths' \in 0..(DeathLimit - 1) /\ degraded' \in BOOLEAN
  <2>1. counts \in BOOLEAN /\ (limit \/ probed) \in BOOLEAN
    BY Zenon
  <2>2. counts /\ deaths + 1 >= DeathLimit => limit \/ probed
    BY Zenon
  <2> HIDE DEF counts, limit, probed
  <2> QED BY <1>1, <2>1, <2>2, DeathsBounded, ZenonT(30)
<1> HIDE DEF counts, limit, probed
<1>4. /\ worker' \in [Worker -> WorkerRecord] /\ process' \in [Worker -> ProcessRecord]
      /\ \A v \in Worker \ {w} : worker'[v] = worker[v] /\ process'[v] = process[v]
      /\ worker'[w] = NoWorker /\ worker'[w].call = None
      /\ WorkerOK(w)' /\ SlotStep(w) /\ worker'[w].ident <= code
      /\ process'[w].st # "none" => worker'[w].ident <= process'[w].loaded
  BY <1>1, GoneSlot, Zenon
<1>5. faults' \in 0..MaxFaults
  BY <1>1, CounterTypes, Zenon
<1>6. CASE call' = failed /\ Pump(queue, worker', failing, walk.on) /\ queue' = queue
  <2>1. /\ call' \in [Call -> CallRecord]
        /\ \A c \in Call : /\ CallStep(c) /\ call'[c].asked = call[c].asked
                           /\ call[c].st = "queued" => call'[c].st = "queued"
                           /\ call'[c].st \in {"queued", "sent"} => call'[c].st = call[c].st
    BY <1>4, <1>6, FailedCall, Zenon
  <2> QED BY <1>1, <1>3, <1>4, <1>5, <1>6, <2>1, SlotKeeps, Zenon
<1>7. CASE queue' = <<>> /\ late' = {} /\ call' = Fallback(failed, cs) /\ walk' = walk
  <2>1. /\ TypeOK /\ WorkersOK /\ CodeOK /\ CallsOK /\ SentOK /\ QueueOK
        /\ call \in [Call -> CallRecord] /\ "failed" \in Outcome
    BY Zenon DEF PInv, TypeOK, Outcome, CallsOK
  <2>2. /\ failed \in [Call -> CallRecord]
        /\ \A c \in Call : /\ c \notin {worker[w].call} \ {None} => failed[c] = call[c]
                           /\ c \in {worker[w].call} \ {None} => failed[c].st = "failed"
                           /\ failed[c].runs = call[c].runs /\ failed[c].asked = call[c].asked
                           /\ failed[c].frame = call[c].frame
    BY <2>1, SettledIs, SMTT(30)
  <2> HIDE DEF failed
  <2>3. /\ call' \in [Call -> CallRecord]
        /\ \A c \in Call : /\ c \notin cs => call'[c] = failed[c]
                           /\ c \in cs => /\ call'[c].st = "fallback"
                                          /\ call'[c].runs = failed[c].runs + 1
                           /\ call'[c].asked = failed[c].asked
                           /\ call'[c].frame = failed[c].frame
    BY <1>7, <2>2, FallbackIs, SMTT(30)
  <2>4. ASSUME NEW c \in Call
        PROVE  /\ CallStep(c) /\ call'[c].asked = call[c].asked
               /\ call'[c].st \in {"queued", "sent"} => call'[c].st = call[c].st /\ c \notin cs
    <3>1. CASE c \in cs
      <4>1. /\ call[c].st = "queued" /\ call[c].runs = 0
        BY <3>1, QueuedRuns, Zenon
      <4>2. /\ call'[c].st = "fallback" /\ call'[c].runs = 1 /\ call'[c].asked = call[c].asked
            /\ call'[c].frame = call[c].frame
        BY <2>2, <2>3, <3>1, <4>1, SMTT(30)
      <4> QED BY <4>1, <4>2, Zenon DEF CallStep
    <3>2. CASE c \notin cs /\ c # worker[w].call
      <4>1. call'[c] = call[c]
        BY <2>2, <2>3, <3>2, Zenon
      <4> QED BY <3>2, <4>1, CallSame, Zenon
    <3>3. CASE c \notin cs /\ c = worker[w].call
      <4>1. c # None /\ call[c].st = "sent" /\ \A v \in Worker : worker[v].call = c => v = w
        BY <2>1, <3>3, NoneAssumption, Zenon DEF SentOK
      <4>2. /\ call'[c].st = "failed" /\ call'[c].asked = call[c].asked
            /\ call'[c].runs = call[c].runs /\ call'[c].frame = call[c].frame
        BY <2>2, <2>3, <3>3, <4>1, SMTT(30)
      <4>3. \A v \in Worker : worker'[v].call # c
        BY <1>4, <4>1, Zenon
      <4> QED BY <4>1, <4>2, <4>3, ZenonT(30) DEF CallStep
    <3> QED BY <3>1, <3>2, <3>3, Zenon
  <2>5. TypeOK'
    <3>1. <<>> \in Seq(Call)
      BY SeqEmpty, Zenon
    <3> QED BY <1>1, <1>3, <1>4, <1>5, <1>7, <2>1, <2>3, <3>1, Zenon DEF TypeOK
  <2>6. WorkersOK'
    <3>1. shut # "no" => queue' = <<>> /\ ~walk'.on
      BY <1>7, <2>1, Zenon DEF WorkersOK
    <3> QED BY <1>1, <1>4, <2>1, <3>1, OneWorker, Zenon
  <2>7. QueueOK'
    BY <1>7, QueueEmptied, Zenon
  <2>8. CodeOK'
    <3>1. \A v \in Worker : /\ worker'[v].ident <= code
                            /\ process'[v].st # "none" => worker'[v].ident <= process'[v].loaded
      BY <1>4, <2>1, Zenon DEF CodeOK
    <3>2. \A c \in Call : call'[c].asked <= code
      BY <2>1, <2>4, Zenon DEF CodeOK
    <3>3. \A c \in Call : c \notin cs => c \notin late
      BY <2>1, Zenon DEF QueueOK
    <3>4. \A c \in Call : call'[c].st \in {"queued", "sent"} /\ c \notin late' =>
             /\ call[c].st \in {"queued", "sent"} /\ c \notin late
             /\ call'[c].asked = call[c].asked
      BY <2>4, <3>3, Zenon
    <3> QED BY <1>1, <1>7, <2>1, <2>5, <3>1, <3>2, <3>4, CodeKept, Zenon
  <2>9. CallsOK'
    <3>1. ASSUME NEW v \in Worker PROVE SlotStep(v)
      BY <1>4, SlotSame, Zenon
    <3> QED BY <2>1, <2>4, <2>5, <3>1, CallsKept, Zenon
  <2>10. NoStrandedCall'
    BY <1>7, Zenon DEF NoStrandedCall
  <2> QED BY <2>5, <2>6, <2>7, <2>8, <2>9, <2>10, Zenon DEF PInv
<1> QED BY <1>2, <1>6, <1>7, Zenon

\* The ends of a worker: before its process is launched, without a socket directory,
\* or when its process has ended.
LEMMA GoneKeeps ==
    ASSUME PInv, NEW w \in Worker, LaunchWorker(w) \/ NoSocketDirectory(w) \/ WorkerGone(w)
    PROVE  PInv'
<1>1. CASE WorkerGone(w)
  <2>1. /\ worker[w].st # "none" /\ process[w].st \in {"none", "dead"} /\ OnWorkerGone(w, FALSE)
    BY <1>1, Zenon DEF WorkerGone
  <2> QED BY <2>1, WorkerGoneKeeps, Zenon
<1>2. CASE NoSocketDirectory(w)
  <2>1. /\ worker[w].st # "none" /\ process[w].st \in {"none", "dead"} /\ OnWorkerGone(w, TRUE)
    BY <1>2, Zenon DEF NoSocketDirectory
  <2> QED BY <2>1, WorkerGoneKeeps, Zenon
<1>3. CASE LaunchWorker(w)
  <2>1. worker[w].st # "none" /\ process[w].st = "none"
    BY <1>3, Zenon DEF LaunchWorker
  <2>2. CASE OnWorkerGone(w, FALSE)
    BY <2>1, <2>2, WorkerGoneKeeps, Zenon
  <2>3. CASE /\ worker[w].st = "starting"
             /\ process' = [process EXCEPT ![w].st = "boot", ![w].loaded = code]
             /\ UNCHANGED <<worker, call, pool, env>>
    BY <2>1, <2>3, LaunchKeeps, Zenon
  <2> QED BY <1>3, <2>2, <2>3, Zenon DEF LaunchWorker
<1> QED BY <1>1, <1>2, <1>3, Zenon

(***************************************************************************)
(* Frames and end markers.                                                 *)
(***************************************************************************)
\* The processes once something that the process of w wrote was read.
Reads(w, ps) ==
    /\ ps \in [Worker -> ProcessRecord] /\ \A v \in Worker \ {w} : ps[v] = process[v]
    /\ ps[w].st = process[w].st /\ ps[w].loaded = process[w].loaded
    /\ ps[w].inbox = process[w].inbox /\ ps[w].run = process[w].run
    /\ ps[w].last = process[w].last
    /\ \A i \in 1..Len(ps[w].out) :
           \E j \in 1..Len(process[w].out) : ps[w].out[i] = process[w].out[j]

\* onFrame takes the first frame off the channel, and this frame says what is true.
LEMMA FrameRead ==
    ASSUME PInv, NEW w \in Worker, process[w].out # <<>>
    PROVE  /\ Reads(w, [process EXCEPT ![w].out = Tail(@)])
           /\ Head(process[w].out) \in Frame /\ FrameOK(w, Head(process[w].out))
           /\ process[w].st # "none"
<1> DEFINE s == process[w].out
<1>1. TypeOK /\ WorkersOK /\ FramesOK /\ process \in [Worker -> ProcessRecord]
  BY Zenon DEF PInv, CallsOK, TypeOK
<1>2. process[w] \in ProcessRecord /\ s \in Seq(Frame)
  BY <1>1, ProcessTypes, Zenon
<1>3. /\ Tail(s) \in Seq(Frame) /\ Head(s) = s[1] /\ Len(s) \in Nat /\ Len(s) >= 1
      /\ Len(Tail(s)) = Len(s) - 1 /\ \A i \in 1..Len(Tail(s)) : Tail(s)[i] = s[i + 1]
  BY <1>2, SeqHeadTail, SeqLen, SeqEmpty, SMTT(30)
<1>4. \A i \in 1..Len(Tail(s)) : \E j \in 1..Len(s) : Tail(s)[i] = s[j]
  BY <1>3, SMTT(30)
<1>5. 1 \in 1..Len(s)
  BY <1>3, SMTT(30)
<1>6. Head(s) \in Frame /\ FrameOK(w, Head(s))
  BY <1>1, <1>2, <1>3, <1>5, SeqElement, Zenon DEF FramesOK
<1>7. process[w].st # "none"
  BY <1>1, Zenon DEF WorkersOK, WorkerOK
<1>8. Reads(w, [process EXCEPT ![w].out = Tail(@)])
  <2> DEFINE new == [process[w] EXCEPT !.out = Tail(s)]
             ps == [process EXCEPT ![w].out = Tail(@)]
  <2>1. /\ new \in ProcessRecord /\ new.st = process[w].st /\ new.loaded = process[w].loaded
        /\ new.inbox = process[w].inbox /\ new.run = process[w].run /\ new.last = process[w].last
        /\ new.out = Tail(s)
    BY <1>2, <1>3, ZenonT(30) DEF ProcessRecord
  <2>2. ps = [process EXCEPT ![w] = new]
    BY <1>1
  <2> HIDE DEF new, ps
  <2>3. /\ ps \in [Worker -> ProcessRecord] /\ ps[w] = new
        /\ \A v \in Worker \ {w} : ps[v] = process[v]
    BY <1>1, <2>1, <2>2, ZenonT(30)
  <2>4. Reads(w, ps)
    BY <1>4, <2>1, <2>3, Zenon DEF Reads
  <2> QED BY <2>4, Zenon DEF ps
<1> QED BY <1>6, <1>7, <1>8, Zenon

\* onPipeData takes the marker off the pipe.
LEMMA MarkRead ==
    ASSUME PInv, NEW w \in Worker, process[w].mark # None
    PROVE  /\ Reads(w, [process EXCEPT ![w].mark = None]) /\ process[w].mark \in Call
           /\ process[w].st # "none"
<1> DEFINE new == [process[w] EXCEPT !.mark = None]
           ps == [process EXCEPT ![w].mark = None]
<1>1. TypeOK /\ WorkersOK /\ process \in [Worker -> ProcessRecord]
  BY Zenon DEF PInv, TypeOK
<1>2. process[w] \in ProcessRecord /\ process[w].mark \in Call
  BY <1>1, ProcessTypes, Zenon
<1>3. process[w].st # "none"
  BY <1>1, Zenon DEF WorkersOK, WorkerOK
<1>4. /\ new \in ProcessRecord /\ new.st = process[w].st /\ new.loaded = process[w].loaded
      /\ new.inbox = process[w].inbox /\ new.run = process[w].run /\ new.last = process[w].last
      /\ new.out = process[w].out
  BY <1>2, Zenon DEF ProcessRecord
<1>5. ps = [process EXCEPT ![w] = new]
  BY <1>1, Zenon
<1> HIDE DEF new, ps
<1>6. ps \in [Worker -> ProcessRecord] /\ ps[w] = new /\ \A v \in Worker \ {w} : ps[v] = process[v]
  BY <1>1, <1>4, <1>5, ZenonT(30)
<1>7. Reads(w, ps)
  BY <1>4, <1>6, Zenon DEF Reads
<1> QED BY <1>2, <1>3, <1>7, Zenon DEF ps

\* What is known of a worker after reading from it, when it keeps its call or not.
LEMMA ReadSlot ==
    ASSUME PInv, NEW w \in Worker, worker[w].st # "none", process[w].st # "none", shut' = shut,
           NEW ps, Reads(w, ps), process' \in {ps, Killed(ps, {w})},
           worker'[w].call \in {worker[w].call, None}, worker'[w].ident = worker[w].ident,
           worker'[w].st # "none", worker'[w].call # None => worker'[w].st \in {"busy", "retiring"},
           shut # "no" => worker'[w].st \notin {"starting", "idle", "busy"}
    PROVE  /\ process' \in [Worker -> ProcessRecord]
           /\ \A v \in Worker \ {w} : process'[v] = process[v]
           /\ WorkerOK(w)' /\ SlotStep(w) /\ worker'[w].ident <= code
           /\ process'[w].st # "none" => worker'[w].ident <= process'[w].loaded
<1>1. WorkerOK(w) /\ CodeOK
  BY Zenon DEF PInv, WorkersOK
<1>2. /\ ps \in [Worker -> ProcessRecord] /\ \A v \in Worker \ {w} : ps[v] = process[v]
      /\ ps[w].st = process[w].st /\ ps[w].loaded = process[w].loaded
      /\ ps[w].inbox = process[w].inbox /\ ps[w].run = process[w].run
      /\ ps[w].last = process[w].last
      /\ \A i \in 1..Len(ps[w].out) :
            \E j \in 1..Len(process[w].out) : ps[w].out[i] = process[w].out[j]
  BY Zenon DEF Reads
<1>3. /\ process' \in [Worker -> ProcessRecord]
      /\ \A v \in Worker \ {w} : process'[v] = ps[v]
      /\ process'[w].st = ps[w].st /\ process'[w].loaded = ps[w].loaded
      /\ process'[w].inbox = ps[w].inbox /\ process'[w].run = ps[w].run
      /\ process'[w].last = ps[w].last /\ process'[w].out = ps[w].out
  <2>1. CASE process' = ps
    BY <1>2, <2>1, Zenon
  <2>2. CASE process' = Killed(ps, {w})
    BY <1>2, <2>2, KilledIs, SMTT(30)
  <2> QED BY <2>1, <2>2, Zenon
<1>4. WorkerOK(w)'
  BY <1>1, <1>2, <1>3, Zenon DEF WorkerOK
<1>5. SlotStep(w)
  <2>1. \A c \in Call : MayRun(w, c)' => MayRun(w, c)
    BY <1>2, <1>3, Zenon DEF MayRun
  <2>2. \A i \in 1..Len(process'[w].out) :
           \E j \in 1..Len(process[w].out) : process'[w].out[i] = process[w].out[j]
    BY <1>2, <1>3, SMTT(30)
  <2>3. /\ process'[w].run = process[w].run /\ process'[w].last = process[w].last
        /\ process'[w].loaded = process[w].loaded /\ process'[w].st = process[w].st
    BY <1>2, <1>3, Zenon
  <2> QED BY <2>1, <2>2, <2>3, Zenon DEF SlotStep
<1>6. worker'[w].ident <= code /\ worker'[w].ident <= process'[w].loaded
  BY <1>1, <1>2, <1>3, Zenon DEF CodeOK
<1> QED BY <1>2, <1>3, <1>4, <1>5, <1>6, Zenon

\* maybeCompleteCall: a call is done once its result and its markers are there.
LEMMA MaybeCompleteKeeps ==
    ASSUME PInv, NEW w \in Worker, process[w].st # "none", NEW ps, Reads(w, ps),
           NEW c \in Call, worker[w].call = c, NEW frame \in BOOLEAN, NEW mark \in BOOLEAN,
           frame => call[c].runs = 1,
           MaybeCompleteCall(w, c, frame, mark, ps), UNCHANGED env
    PROVE  PInv'
<1>1. /\ TypeOK /\ WorkersOK /\ SentOK /\ worker \in [Worker -> WorkerRecord]
      /\ call \in [Call -> CallRecord]
  BY Zenon DEF PInv, CallsOK, TypeOK
<1>2. /\ worker[w].st \in {"busy", "retiring"} /\ shut = "no" /\ worker[w].st # "none"
      /\ c # None
  BY <1>1, NoneAssumption, Zenon DEF WorkersOK, WorkerOK
<1>3. call[c].st = "sent" /\ \A v \in Worker : worker[v].call = c => v = w
  BY <1>1, Zenon DEF SentOK
<1>4. code' = code /\ faults' = faults
  BY Zenon DEF env
<1>5. /\ deaths \in 0..(DeathLimit - 1) /\ degraded \in BOOLEAN /\ faults' \in 0..MaxFaults
      /\ 0 \in 0..(DeathLimit - 1)
  BY <1>4, CounterTypes, Zenon
<1>6. CASE /\ call' = [call EXCEPT ![c].frame = frame, ![c].mark = mark]
           /\ process' = ps /\ UNCHANGED <<worker, pool>>
  <2>1. /\ worker' = worker /\ queue' = queue /\ walk' = walk /\ late' = late
        /\ failing' = failing /\ deaths' = deaths /\ degraded' = degraded /\ shut' = shut
    BY <1>6, Zenon DEF pool
  <2>2. /\ process' \in [Worker -> ProcessRecord]
        /\ \A v \in Worker \ {w} : process'[v] = process[v]
        /\ WorkerOK(w)' /\ SlotStep(w) /\ worker'[w].ident <= code
        /\ process'[w].st # "none" => worker'[w].ident <= process'[w].loaded
    BY <1>2, <1>6, <2>1, ReadSlot, ZenonT(30)
  <2>3. /\ call' \in [Call -> CallRecord] /\ call'[c].frame = frame
        /\ call'[c].st = call[c].st /\ call'[c].runs = call[c].runs
        /\ call'[c].asked = call[c].asked
        /\ \A d \in Call \ {c} : call'[d] = call[d]
    <3> DEFINE new == [call[c] EXCEPT !.frame = frame, !.mark = mark]
    <3>1. call' = [call EXCEPT ![c] = new]
      BY <1>6, Zenon
    <3>2. /\ new \in CallRecord /\ new.frame = frame /\ new.st = call[c].st
          /\ new.runs = call[c].runs /\ new.asked = call[c].asked
      BY <1>1, ZenonT(30) DEF CallRecord
    <3> HIDE DEF new
    <3> QED BY <1>1, <3>1, <3>2, ZenonT(30)
  <2>4. CallStep(c)
    BY <2>3, Zenon DEF CallStep
  <2>5. \A d \in Call : /\ CallStep(d) /\ call'[d].asked = call[d].asked
                        /\ call[d].st = "queued" => call'[d].st = "queued"
                        /\ call'[d].st \in {"queued", "sent"} => call'[d].st = call[d].st
    BY <2>3, <2>4, CallSame, Zenon
  <2> QED BY <1>1, <1>2, <1>4, <1>5, <2>1, <2>2, <2>3, <2>5, SlotKeeps, Zenon
<1>7. CASE /\ frame
           /\ call' = [call EXCEPT ![c].st = "done", ![c].frame = TRUE, ![c].mark = TRUE]
           /\ deaths' = 0
           /\ LET free == [worker EXCEPT ![w].call = None, ![w].used = TRUE]
              IN  \/ worker[w].ann /\ worker' = free /\ process' = ps
                  \/ /\ ~worker[w].ann /\ worker' = Retired(free, {w})
                     /\ process' = Killed(ps, {w})
                  \/ ~worker[w].ann /\ worker' = [free EXCEPT ![w].st = "idle"] /\ process' = ps
           /\ Pump(queue, worker', failing, walk.on)
           /\ UNCHANGED <<queue, failing, degraded, shut>>
  <2> DEFINE free == [worker EXCEPT ![w].call = None, ![w].used = TRUE]
  <2>1. /\ queue' = queue /\ failing' = failing /\ degraded' = degraded /\ shut' = shut
        /\ deaths' = 0 /\ Pump(queue, worker', failing, walk.on)
    BY <1>7, Zenon
  <2>2. /\ free \in [Worker -> WorkerRecord] /\ \A v \in Worker \ {w} : free[v] = worker[v]
        /\ free[w].call = None /\ free[w].ident = worker[w].ident /\ free[w].st = worker[w].st
    BY <1>1, ZenonT(30) DEF WorkerRecord
  <2>3. \/ worker' = free /\ process' = ps
        \/ worker' = Retired(free, {w}) /\ process' = Killed(ps, {w})
        \/ worker' = [free EXCEPT ![w].st = "idle"] /\ process' = ps
    BY <1>7, Zenon
  <2> HIDE DEF free
  <2>4. /\ worker' \in [Worker -> WorkerRecord]
        /\ \A v \in Worker \ {w} : worker'[v] = worker[v]
        /\ worker'[w].call = None /\ worker'[w].ident = worker[w].ident
        /\ worker'[w].st # "none" /\ process' \in {ps, Killed(ps, {w})}
    <3>1. CASE worker' = free /\ process' = ps
      BY <1>2, <2>2, <3>1, ZenonT(30)
    <3>2. CASE worker' = Retired(free, {w}) /\ process' = Killed(ps, {w})
      BY <1>2, <2>2, <3>2, RetiredIs, SMTT(30)
    <3>3. CASE worker' = [free EXCEPT ![w].st = "idle"] /\ process' = ps
      BY <1>2, <2>2, <3>3, ZenonT(30) DEF WorkerRecord
    <3> QED BY <2>3, <3>1, <3>2, <3>3, Zenon
  <2>5. /\ process' \in [Worker -> ProcessRecord]
        /\ \A v \in Worker \ {w} : process'[v] = process[v]
        /\ WorkerOK(w)' /\ SlotStep(w) /\ worker'[w].ident <= code
        /\ process'[w].st # "none" => worker'[w].ident <= process'[w].loaded
    BY <1>2, <2>1, <2>4, ReadSlot, ZenonT(30)
  <2>6. /\ call' \in [Call -> CallRecord] /\ call'[c].st = "done"
        /\ call'[c].runs = call[c].runs /\ call'[c].asked = call[c].asked
        /\ \A d \in Call \ {c} : call'[d] = call[d]
    <3> DEFINE new == [call[c] EXCEPT !.st = "done", !.frame = TRUE, !.mark = TRUE]
    <3>1. call' = [call EXCEPT ![c] = new]
      BY <1>7, Zenon
    <3>2. /\ new \in CallRecord /\ new.st = "done"
          /\ new.runs = call[c].runs /\ new.asked = call[c].asked
      BY <1>1, ZenonT(30) DEF CallRecord, Outcome
    <3> HIDE DEF new
    <3> QED BY <1>1, <3>1, <3>2, ZenonT(30)
  <2>7. CallStep(c)
    <3>1. \A v \in Worker : worker'[v].call # c
      BY <1>2, <1>3, <2>4, Zenon
    <3> QED BY <1>3, <1>7, <2>6, <3>1, Zenon DEF CallStep
  <2>8. \A d \in Call : /\ CallStep(d) /\ call'[d].asked = call[d].asked
                        /\ call[d].st = "queued" => call'[d].st = "queued"
                        /\ call'[d].st \in {"queued", "sent"} => call'[d].st = call[d].st
    <3>1. /\ call[c].st = "queued" => call'[c].st = "queued"
          /\ call'[c].st \in {"queued", "sent"} => call'[c].st = call[c].st
      BY <1>3, <2>6, Zenon
    <3> QED BY <3>1, <2>6, <2>7, CallSame, Zenon
  <2> QED BY <1>2, <1>4, <1>5, <2>1, <2>4, <2>5, <2>6, <2>8, SlotKeeps, Zenon
<1> QED BY <1>6, <1>7, Zenon DEF MaybeCompleteCall

\* onWorkerExiting: a sent call that the process neither named nor answered was not
\* started by any process, and none will start it; it goes back to the queue once.
LEMMA OnWorkerExitingKeeps ==
    ASSUME PInv, NEW w \in Worker, worker[w].st \in {"starting", "idle", "busy"},
           process[w].st \in {"exiting", "dead"}, NEW last, last = process[w].last,
           Reads(w, process'), OnWorkerExiting(w, last), UNCHANGED env
    PROVE  PInv'
<1> DEFINE c == worker[w].call
           away == [worker EXCEPT ![w].st = "retiring", ![w].ann = TRUE]
<1>1. /\ TypeOK /\ WorkersOK /\ QueueOK /\ CodeOK /\ CallsOK /\ NoStrandedCall
      /\ SentOK /\ RunsOK /\ worker \in [Worker -> WorkerRecord]
      /\ call \in [Call -> CallRecord]
  BY Zenon DEF PInv, CallsOK, TypeOK
<1>2. /\ shut = "no" /\ worker[w].st # "none" /\ process[w].st # "none"
  BY <1>1, Zenon DEF WorkersOK, WorkerOK, NoWorker
<1>3. /\ failing' = failing /\ deaths' = deaths /\ degraded' = degraded /\ shut' = shut
      /\ code' = code /\ faults' = faults /\ Pump(queue', worker', failing, walk.on)
  BY Zenon DEF OnWorkerExiting, env
<1>4. /\ deaths \in 0..(DeathLimit - 1) /\ degraded \in BOOLEAN /\ faults' \in 0..MaxFaults
  BY <1>3, CounterTypes, Zenon
<1>5. /\ away \in [Worker -> WorkerRecord] /\ \A v \in Worker \ {w} : away[v] = worker[v]
      /\ away[w].call = c /\ away[w].ident = worker[w].ident /\ away[w].st = "retiring"
  BY <1>1, Zenon DEF WorkerRecord
<1> DEFINE lost == [away EXCEPT ![w].call = None]
<1> HIDE DEF away
<1>6. /\ lost \in [Worker -> WorkerRecord] /\ \A v \in Worker \ {w} : lost[v] = worker[v]
      /\ lost[w].call = None /\ lost[w].ident = worker[w].ident /\ lost[w].st = "retiring"
  BY <1>5, Zenon DEF WorkerRecord
<1> HIDE DEF lost
<1>7. \/ ~NotStarted(w, last) /\ worker' = away /\ call' = call /\ queue' = queue
      \/ /\ NotStarted(w, last) /\ worker' = lost /\ call' = Settled({c}, "failed")
         /\ queue' = queue
      \/ /\ NotStarted(w, last) /\ worker' = lost
         /\ call' = [call EXCEPT ![c].st = "queued", ![c].requeued = TRUE, ![c].mark = FALSE]
         /\ queue' = <<c>> \o queue
  BY Zenon DEF OnWorkerExiting, away, lost
<1>8. /\ worker' \in [Worker -> WorkerRecord]
      /\ \A v \in Worker \ {w} : worker'[v] = worker[v]
      /\ worker'[w].call \in {c, None} /\ worker'[w].ident = worker[w].ident
      /\ worker'[w].st = "retiring"
  BY <1>5, <1>6, <1>7, Zenon
<1>9. /\ process' \in [Worker -> ProcessRecord]
      /\ \A v \in Worker \ {w} : process'[v] = process[v]
      /\ WorkerOK(w)' /\ SlotStep(w) /\ worker'[w].ident <= code
      /\ process'[w].st # "none" => worker'[w].ident <= process'[w].loaded
  BY <1>2, <1>3, <1>8, ReadSlot, Zenon
<1>10. CASE worker' = away /\ call' = call /\ queue' = queue
  <2>1. \A d \in Call : /\ CallStep(d) /\ call'[d].asked = call[d].asked
                        /\ call[d].st = "queued" => call'[d].st = "queued"
                        /\ call'[d].st \in {"queued", "sent"} => call'[d].st = call[d].st
    BY <1>10, CallsSame, Zenon
  <2> QED BY <1>1, <1>2, <1>3, <1>4, <1>8, <1>9, <1>10, <2>1, SlotKeeps, Zenon
<1>11. ASSUME NotStarted(w, last)
       PROVE  c \in Call /\ c # None /\ c # last
  BY <1>1, <1>11, ProcessTypes, Zenon DEF NotStarted
<1>12. CASE /\ NotStarted(w, last) /\ worker' = lost
            /\ call' = Settled({c}, "failed") /\ queue' = queue
  <2>1. {c} = {worker[w].call} \ {None}
    BY <1>11, <1>12, Zenon
  <2>2. /\ call' \in [Call -> CallRecord]
        /\ \A d \in Call : /\ CallStep(d) /\ call'[d].asked = call[d].asked
                           /\ call[d].st = "queued" => call'[d].st = "queued"
                           /\ call'[d].st \in {"queued", "sent"} => call'[d].st = call[d].st
    BY <1>6, <1>12, <2>1, FailedCall, Zenon
  <2> QED BY <1>2, <1>3, <1>4, <1>8, <1>9, <1>12, <2>2, SlotKeeps, Zenon
<1>13. CASE /\ NotStarted(w, last) /\ worker' = lost
            /\ call' = [call EXCEPT ![c].st = "queued", ![c].requeued = TRUE, ![c].mark = FALSE]
            /\ queue' = <<c>> \o queue
  <2>1. c \in Call /\ c # None /\ c # last
    BY <1>11, <1>13, Zenon
  <2>2. /\ call[c].st = "sent" /\ (call[c].runs = 0 \/ process[w].last = c)
        /\ \A v \in Worker : worker[v].call = c \/ MayRun(v, c) => v = w
    BY <1>1, <2>1, Zenon DEF SentOK
  <2>3. call[c].runs = 0
    BY <2>1, <2>2, Zenon
  <2>4. \A v \in Worker : ~MayRun(v, c)
    <3>1. ~MayRun(w, c)
      BY Zenon DEF MayRun
    <3> QED BY <2>2, <3>1, Zenon
  <2>5. /\ call' \in [Call -> CallRecord] /\ call'[c].st = "queued"
        /\ call'[c].runs = call[c].runs /\ call'[c].asked = call[c].asked
        /\ call'[c].frame = call[c].frame /\ \A d \in Call \ {c} : call'[d] = call[d]
    <3> DEFINE new == [call[c] EXCEPT !.st = "queued", !.requeued = TRUE, !.mark = FALSE]
    <3>1. call' = [call EXCEPT ![c] = new]
      BY <1>13, Zenon
    <3>2. /\ new \in CallRecord /\ new.st = "queued" /\ new.frame = call[c].frame
          /\ new.runs = call[c].runs /\ new.asked = call[c].asked
      BY <1>1, <2>1, ZenonT(30) DEF CallRecord, Outcome
    <3> HIDE DEF new
    <3> QED BY <1>1, <2>1, <3>1, <3>2, Zenon
  <2>6. CallStep(c)
    <3>1. \A v \in Worker : worker'[v].call # c
      BY <1>6, <1>13, <2>1, <2>2, Zenon
    <3> QED BY <2>2, <2>3, <2>4, <2>5, <3>1, Zenon DEF CallStep
  <2>7. /\ queue \in Seq(Call) /\ <<c>> \in Seq(Call) /\ Len(queue) \in Nat
        /\ queue' \in Seq(Call) /\ Len(queue') = Len(queue) + 1 /\ queue'[1] = c
        /\ \A i \in 1..Len(queue') : i # 1 => i - 1 \in 1..Len(queue) /\ queue'[i] = queue[i - 1]
        /\ \A i \in 1..Len(queue) : i + 1 \in 1..Len(queue') /\ queue'[i + 1] = queue[i]
    <3>1. queue \in Seq(Call) /\ <<c>> \in Seq(Call) /\ Len(<<c>>) = 1 /\ <<c>>[1] = c
      BY <1>1, <2>1, SMTT(30) DEF TypeOK
    <3> HIDE DEF c
    <3>2. /\ queue' \in Seq(Call) /\ Len(queue') = Len(<<c>>) + Len(queue)
          /\ Len(queue) \in Nat
          /\ \A i \in 1..(Len(<<c>>) + Len(queue)) :
                queue'[i] = IF i <= Len(<<c>>) THEN <<c>>[i] ELSE queue[i - Len(<<c>>)]
      BY <1>13, <3>1, SeqConcat, SeqLen, ZenonT(30)
    <3>3. /\ queue' \in Seq(Call) /\ Len(queue') = 1 + Len(queue) /\ Len(queue) \in Nat
          /\ \A i \in 1..(1 + Len(queue)) :
                queue'[i] = IF i <= 1 THEN <<c>>[i] ELSE queue[i - 1]
      BY <3>1, <3>2, Zenon
    <3>4. \A i \in 1..(1 + Len(queue)) : i # 1 => queue'[i] = queue[i - 1]
      BY <3>3, SMTT(30)
    <3>5. queue'[1] = c
      <4>1. 1 \in 1..(1 + Len(queue)) /\ 1 <= 1
        BY <3>3, SMTT(30)
      <4> QED BY <3>1, <3>3, <4>1, Zenon
    <3>6. /\ Len(queue') = Len(queue) + 1
          /\ \A i \in 1..Len(queue') : i # 1 => i - 1 \in 1..Len(queue) /\ queue'[i] = queue[i - 1]
          /\ \A i \in 1..Len(queue) : i + 1 \in 1..Len(queue') /\ queue'[i + 1] = queue[i]
      BY <3>3, <3>4, SMTT(30)
    <3> QED BY <3>1, <3>3, <3>5, <3>6, Zenon
  <2>8. /\ queue' \in Seq(Call) /\ walk.on \in BOOLEAN /\ failing \in BOOLEAN
    BY <1>1, <2>7, Zenon DEF TypeOK
  <2>9. /\ walk' \in [on : BOOLEAN, from : Version] /\ late' \subseteq Call
        /\ walk.on => walk' = walk /\ late' = late
        /\ ~walk.on => /\ late' = {}
                       /\ \/ walk' = NoWalk
                          \/ shut = "no" /\ walk' = [on |-> TRUE, from |-> code]
    BY <1>1, <1>3, <1>8, <2>8, PumpStep, ZenonT(30)
  <2>10. TypeOK'
    BY <1>1, <1>3, <1>4, <1>8, <1>9, <2>5, <2>7, <2>9, Zenon DEF TypeOK
  <2>11. WorkersOK'
    BY <1>1, <1>2, <1>3, <1>8, <1>9, OneWorker, Zenon
  <2>12. /\ \A i \in 1..Len(queue) : queue[i] \in Call /\ queue[i] # c
         /\ c \notin late
    BY <1>1, <2>2, <2>7, SeqElement, ZenonT(30) DEF QueueOK
  <2>13. QueueOK'
    <3>1. \A i, j \in 1..Len(queue') : queue'[i] = queue'[j] => i = j
      <4> SUFFICES ASSUME NEW i \in 1..Len(queue'), NEW j \in 1..Len(queue'), queue'[i] = queue'[j]
                   PROVE  i = j
        BY Zenon
      <4>1. CASE i = 1 \/ j = 1
        BY <4>1, <2>7, <2>12, ZenonT(30)
      <4>2. CASE i # 1 /\ j # 1
        <5>1. i - 1 = j - 1
          BY <4>2, <1>1, <2>7, SMTT(30) DEF QueueOK
        <5> QED BY <5>1, <2>7
      <4> QED BY <4>1, <4>2, Zenon
    <3>2. \A i \in 1..Len(queue') : call'[queue'[i]].st = "queued"
      <4> SUFFICES ASSUME NEW i \in 1..Len(queue') PROVE call'[queue'[i]].st = "queued"
        BY Zenon
      <4>1. CASE i = 1
        BY <4>1, <2>5, <2>7, Zenon
      <4>2. CASE i # 1
        <5> DEFINE j == i - 1
        <5>1. j \in 1..Len(queue) /\ queue'[i] = queue[j]
          BY <4>2, <2>7, Zenon
        <5> HIDE DEF j
        <5>2. queue[j] \in Call /\ queue[j] # c /\ call[queue[j]].st = "queued"
          BY <5>1, <1>1, <2>12, Zenon DEF QueueOK
        <5>3. call'[queue[j]] = call[queue[j]]
          BY <5>2, <2>5, Zenon
        <5> QED BY <5>1, <5>2, <5>3, Zenon
      <4> QED BY <4>1, <4>2, Zenon
    <3>3. \A d \in late' : \E i \in 1..Len(queue') : queue'[i] = d
      <4>1. late' \subseteq late
        BY <2>9, Zenon
      <4>2. ASSUME NEW d \in late PROVE \E i \in 1..Len(queue') : queue'[i] = d
        <5>1. PICK i \in 1..Len(queue) : queue[i] = d
          BY <1>1, Zenon DEF QueueOK
        <5> QED BY <5>1, <2>7, Zenon
      <4> QED BY <4>1, <4>2, Zenon
    <3>4. \A i, j \in 1..Len(queue') : i < j /\ queue'[i] \in late' => queue'[j] \in late'
      <4> SUFFICES ASSUME NEW i \in 1..Len(queue'), NEW j \in 1..Len(queue'), i < j,
                          queue'[i] \in late'
                   PROVE  queue'[j] \in late'
        BY Zenon
      <4>1. late' = late
        BY <2>9, Zenon
      <4>2. i # 1 /\ j # 1
        BY <4>1, <2>7, <2>12, SMTT(30)
      <4>3. /\ i - 1 \in 1..Len(queue) /\ j - 1 \in 1..Len(queue) /\ i - 1 < j - 1
            /\ queue'[i] = queue[i - 1] /\ queue'[j] = queue[j - 1]
        BY <4>2, <2>7, SMTT(30)
      <4> QED BY <4>1, <4>3, <1>1, Zenon DEF QueueOK
    <3>5. ~walk'.on => late' = {}
      BY <1>1, <2>9, Zenon DEF QueueOK
    <3> QED BY <3>1, <3>2, <3>3, <3>4, <3>5, Zenon DEF QueueOK
  <2>14. CodeOK'
    <3>1. \A v \in Worker : /\ worker'[v].ident <= code
                            /\ process'[v].st # "none" => worker'[v].ident <= process'[v].loaded
      BY <1>1, <1>8, <1>9, Zenon DEF CodeOK
    <3>2. \A d \in Call : call'[d].asked <= code
      BY <1>1, <2>5, Zenon DEF CodeOK
    <3>3. \A d \in Call : /\ call'[d].asked = call[d].asked
                          /\ call'[d].st \in {"queued", "sent"} => call[d].st \in {"queued", "sent"}
      BY <2>2, <2>5, Zenon
    <3> QED BY <1>1, <1>3, <2>9, <2>10, <3>1, <3>2, <3>3, CodeKept, Zenon
  <2>15. CallsOK'
    <3>1. ASSUME NEW v \in Worker PROVE SlotStep(v)
      BY <1>8, <1>9, SlotSame, Zenon
    <3>2. ASSUME NEW d \in Call PROVE CallStep(d)
      BY <2>5, <2>6, CallSame, Zenon
    <3> QED BY <1>1, <2>10, <3>1, <3>2, CallsKept, Zenon
  <2>16. NoStrandedCall'
    BY <1>1, <1>3, <2>10, PumpedNotStranded, Zenon
  <2> QED BY <2>10, <2>11, <2>13, <2>14, <2>15, <2>16, Zenon DEF PInv
<1> QED BY <1>7, <1>10, <1>12, <1>13, Zenon

\* onFrame: what the pool does with each frame of a worker.
LEMMA OnFrameKeeps == ASSUME PInv, NEW w \in Worker, OnFrame(w) PROVE PInv'
<1> DEFINE f == Head(process[w].out)
           read == [process EXCEPT ![w].out = Tail(@)]
<1>1. /\ worker[w].st # "none" /\ process[w].out # <<>> /\ UNCHANGED env
  BY Zenon DEF OnFrame
<1>2. Reads(w, read) /\ f \in Frame /\ FrameOK(w, f) /\ process[w].st # "none"
  BY <1>1, FrameRead, Zenon
<1>3. /\ f.type = "result" => f.id \in Call /\ call[f.id].runs = 1
      /\ f.type = "exiting" =>
            process[w].st \in {"exiting", "dead"} /\ f.last = process[w].last
  BY <1>2, Zenon DEF Frame, FrameOK
<1>4. \/ /\ worker[w].st \in {"retiring", "starting-retiring"}
         /\ process' = read /\ UNCHANGED <<worker, call, pool>>
      \/ /\ worker[w].st = "starting" /\ f.type = "ready"
         /\ worker' = [worker EXCEPT ![w].st = "idle"] /\ process' = read
         /\ Pump(queue, worker', failing, walk.on)
         /\ UNCHANGED <<call, queue, failing, deaths, degraded, shut>>
      \/ /\ worker[w].st = "busy" /\ f.type = "result" /\ f.id = worker[w].call
         /\ MaybeCompleteCall(w, f.id, TRUE, call[f.id].mark, read)
      \/ /\ worker[w].st \in {"starting", "idle", "busy"} /\ f.type = "exiting"
         /\ process' = read /\ OnWorkerExiting(w, f.last)
  BY Zenon DEF OnFrame
<1> HIDE DEF f, read
<1>5. /\ deaths \in 0..(DeathLimit - 1) /\ degraded \in BOOLEAN /\ faults \in 0..MaxFaults
      /\ call \in [Call -> CallRecord] /\ worker \in [Worker -> WorkerRecord]
  BY CounterTypes, Zenon
<1>6. code' = code /\ faults' = faults
  BY <1>1, Zenon DEF env
<1>7. WorkerOK(w)
  BY Zenon DEF PInv, WorkersOK
<1>8. CASE /\ worker[w].st \in {"retiring", "starting-retiring"}
           /\ process' = read /\ UNCHANGED <<worker, call, pool>>
  <2>1. /\ worker' = worker /\ call' = call /\ queue' = queue /\ walk' = walk /\ late' = late
        /\ failing' = failing /\ deaths' = deaths /\ degraded' = degraded /\ shut' = shut
    BY <1>8, Zenon DEF pool
  <2>2. /\ worker[w].call # None => worker[w].st \in {"busy", "retiring"}
        /\ shut # "no" => worker[w].st \notin {"starting", "idle", "busy"}
    BY <1>7, Zenon DEF WorkerOK
  <2>3. /\ process' \in [Worker -> ProcessRecord]
        /\ \A v \in Worker \ {w} : process'[v] = process[v]
        /\ WorkerOK(w)' /\ SlotStep(w) /\ worker'[w].ident <= code
        /\ process'[w].st # "none" => worker'[w].ident <= process'[w].loaded
    BY <1>1, <1>2, <1>8, <2>1, <2>2, ReadSlot, Zenon
  <2>4. \A d \in Call : /\ CallStep(d) /\ call'[d].asked = call[d].asked
                        /\ call[d].st = "queued" => call'[d].st = "queued"
                        /\ call'[d].st \in {"queued", "sent"} => call'[d].st = call[d].st
    BY <2>1, CallsSame, Zenon
  <2> QED BY <1>1, <1>5, <1>6, <2>1, <2>3, <2>4, SlotKeeps, Zenon
<1>9. CASE /\ worker[w].st = "starting"
           /\ worker' = [worker EXCEPT ![w].st = "idle"] /\ process' = read
           /\ Pump(queue, worker', failing, walk.on)
           /\ UNCHANGED <<call, queue, failing, deaths, degraded, shut>>
  <2>1. /\ call' = call /\ queue' = queue
        /\ failing' = failing /\ deaths' = deaths /\ degraded' = degraded /\ shut' = shut
    BY <1>9, Zenon
  <2>2. /\ worker' \in [Worker -> WorkerRecord]
        /\ \A v \in Worker \ {w} : worker'[v] = worker[v]
        /\ worker'[w].st = "idle" /\ worker'[w].ident = worker[w].ident
        /\ worker'[w].call = worker[w].call
    BY <1>5, <1>9, Zenon DEF WorkerRecord
  <2>3. worker[w].call = None /\ shut = "no" /\ worker'[w].st # "none"
    BY <1>7, <1>9, <2>2, Zenon DEF WorkerOK
  <2>4. /\ process' \in [Worker -> ProcessRecord]
        /\ \A v \in Worker \ {w} : process'[v] = process[v]
        /\ WorkerOK(w)' /\ SlotStep(w) /\ worker'[w].ident <= code
        /\ process'[w].st # "none" => worker'[w].ident <= process'[w].loaded
    BY <1>1, <1>2, <1>9, <2>1, <2>2, <2>3, ReadSlot, ZenonT(30)
  <2>5. \A d \in Call : /\ CallStep(d) /\ call'[d].asked = call[d].asked
                        /\ call[d].st = "queued" => call'[d].st = "queued"
                        /\ call'[d].st \in {"queued", "sent"} => call'[d].st = call[d].st
    BY <2>1, CallsSame, Zenon
  <2> QED BY <1>1, <1>5, <1>6, <1>9, <2>1, <2>2, <2>4, <2>5, SlotKeeps, Zenon
<1>10. CASE /\ f.type = "result" /\ f.id = worker[w].call
            /\ MaybeCompleteCall(w, f.id, TRUE, call[f.id].mark, read)
  <2>1. f.id \in Call /\ call[f.id].runs = 1 /\ call[f.id].mark \in BOOLEAN
    BY <1>3, <1>5, <1>10, Zenon DEF CallRecord
  <2> QED BY <1>1, <1>2, <1>10, <2>1, MaybeCompleteKeeps, Zenon
<1>11. CASE /\ worker[w].st \in {"starting", "idle", "busy"} /\ f.type = "exiting"
            /\ process' = read /\ OnWorkerExiting(w, f.last)
  BY <1>1, <1>2, <1>3, <1>11, OnWorkerExitingKeeps, Zenon
<1> QED BY <1>4, <1>8, <1>9, <1>10, <1>11, Zenon

\* onPipeData: the end markers of a call.
LEMMA OnMarkKeeps == ASSUME PInv, NEW w \in Worker, OnMark(w) PROVE PInv'
<1> DEFINE c == process[w].mark
           read == [process EXCEPT ![w].mark = None]
<1>1. /\ worker[w].st # "none" /\ c # None /\ UNCHANGED env
      /\ \/ worker[w].call = c /\ MaybeCompleteCall(w, c, call[c].frame, TRUE, read)
         \/ process' = read /\ UNCHANGED <<worker, call, pool>>
  BY Zenon DEF OnMark
<1>2. Reads(w, read) /\ c \in Call /\ process[w].st # "none"
  BY <1>1, MarkRead, Zenon
<1> HIDE DEF c, read
<1>3. /\ deaths \in 0..(DeathLimit - 1) /\ degraded \in BOOLEAN /\ faults \in 0..MaxFaults
      /\ call \in [Call -> CallRecord] /\ worker \in [Worker -> WorkerRecord]
  BY CounterTypes, Zenon
<1>4. CASE worker[w].call = c /\ MaybeCompleteCall(w, c, call[c].frame, TRUE, read)
  <2>1. call[c].frame \in BOOLEAN
    BY <1>2, <1>3, Zenon DEF CallRecord
  <2>2. call[c].frame => call[c].runs = 1
    BY <1>2, Zenon DEF PInv, CallsOK, RunsOK
  <2> QED BY <1>1, <1>2, <1>4, <2>1, <2>2, MaybeCompleteKeeps, Zenon
<1>5. CASE process' = read /\ UNCHANGED <<worker, call, pool>>
  <2>1. /\ worker' = worker /\ call' = call /\ queue' = queue /\ walk' = walk /\ late' = late
        /\ failing' = failing /\ deaths' = deaths /\ degraded' = degraded /\ shut' = shut
        /\ code' = code /\ faults' = faults
    BY <1>1, <1>5, Zenon DEF pool, env
  <2>2. /\ worker[w].call # None => worker[w].st \in {"busy", "retiring"}
        /\ shut # "no" => worker[w].st \notin {"starting", "idle", "busy"}
    BY Zenon DEF PInv, WorkersOK, WorkerOK
  <2>3. /\ process' \in [Worker -> ProcessRecord]
        /\ \A v \in Worker \ {w} : process'[v] = process[v]
        /\ WorkerOK(w)' /\ SlotStep(w) /\ worker'[w].ident <= code
        /\ process'[w].st # "none" => worker'[w].ident <= process'[w].loaded
    BY <1>1, <1>2, <1>5, <2>1, <2>2, ReadSlot, Zenon
  <2>4. \A d \in Call : /\ CallStep(d) /\ call'[d].asked = call[d].asked
                        /\ call[d].st = "queued" => call'[d].st = "queued"
                        /\ call'[d].st \in {"queued", "sent"} => call'[d].st = call[d].st
    BY <2>1, CallsSame, Zenon
  <2> QED BY <1>1, <1>3, <2>1, <2>3, <2>4, SlotKeeps, Zenon
<1> QED BY <1>1, <1>4, <1>5, Zenon

(***************************************************************************)
(* Steps of the queue alone.                                               *)
(***************************************************************************)
\* A step that changes calls, the queue and the walk, and no worker or process.
LEMMA CallsOnly ==
    ASSUME PInv, worker' = worker, process' = process, shut' = shut, code' = code,
           faults' = faults, deaths' = deaths, degraded' = degraded, failing' \in BOOLEAN,
           call' \in [Call -> CallRecord], queue' \in Seq(Call), late' \subseteq Call,
           walk' \in [on : BOOLEAN, from : Version],
           \A c \in Call : CallStep(c) /\ call'[c].asked <= code,
           shut # "no" => queue' = <<>> /\ ~walk'.on,
           \/ walk' = NoWalk
           \/ walk' = [on |-> TRUE, from |-> code]
           \/ /\ walk' = walk
              /\ \A c \in Call : call'[c].st \in {"queued", "sent"} /\ c \notin late' =>
                    /\ call[c].st \in {"queued", "sent"} /\ c \notin late
                    /\ call'[c].asked = call[c].asked,
           QueueOK', NoStrandedCall'
    PROVE  PInv'
<1>1. TypeOK /\ WorkersOK /\ CodeOK /\ CallsOK
  BY Zenon DEF PInv
<1>2. TypeOK'
  BY <1>1, Zenon DEF TypeOK
<1>3. WorkersOK'
  <2>1. Counted'
    BY <1>1, CountedStays, Zenon DEF WorkersOK
  <2> QED BY <1>1, <2>1, Zenon DEF WorkersOK, WorkerOK
<1>4. CodeOK'
  <2>1. \A w \in Worker : /\ worker'[w].ident <= code
                          /\ process'[w].st # "none" => worker'[w].ident <= process'[w].loaded
    BY <1>1, Zenon DEF CodeOK
  <2>2. \A c \in Call : call'[c].asked <= code
    BY Zenon
  <2> QED BY <1>1, <1>2, <2>1, <2>2, CodeKept, Zenon
<1>5. CallsOK'
  <2>1. \A w \in Worker : SlotStep(w)
    BY SlotSame, Zenon
  <2>2. \A c \in Call : CallStep(c)
    BY Zenon
  <2> QED BY <1>1, <1>2, <2>1, <2>2, CallsKept, Zenon
<1> QED BY <1>2, <1>3, <1>4, <1>5, Zenon DEF PInv

\* pump without a walk in flight.
LEMMA FreePump ==
    ASSUME TypeOK, WorkersOK, NEW q \in Seq(Call), NEW ws \in [Worker -> WorkerRecord],
           NEW fails \in BOOLEAN, Pump(q, ws, fails, FALSE)
    PROVE  /\ walk' \in [on : BOOLEAN, from : Version] /\ late' = {}
           /\ \/ walk' = NoWalk
              \/ shut = "no" /\ walk' = [on |-> TRUE, from |-> code]
           /\ shut = "no" /\ q # <<>> /\ ~walk'.on
                 => In(ws, "idle") = {} /\ Workers(ws) # {}
<1>1. ASSUME NEW b \in BOOLEAN, ~b, Pump(q, ws, fails, b)
      PROVE  /\ walk' \in [on : BOOLEAN, from : Version] /\ late' = {}
             /\ \/ walk' = NoWalk
                \/ shut = "no" /\ walk' = [on |-> TRUE, from |-> code]
             /\ shut = "no" /\ q # <<>> /\ ~walk'.on
                   => In(ws, "idle") = {} /\ Workers(ws) # {}
  BY <1>1, PumpStep, Zenon
<1> QED BY <1>1, Zenon

\* A new call is in no queue and in no worker, and was not started.
LEMMA NewCall ==
    ASSUME PInv, NEW c \in Call, call[c].st = "new"
    PROVE  /\ call[c].runs = 0 /\ ~call[c].frame /\ c \notin late
           /\ \A w \in Worker : worker[w].call # c
           /\ \A i \in 1..Len(queue) : queue[i] # c
<1>1. QueueOK /\ RunsOK /\ SentOK
  BY Zenon DEF PInv, CallsOK
<1>2. call[c].runs = 0 /\ ~call[c].frame
  BY <1>1, SMTT(30) DEF RunsOK
<1>3. \A w \in Worker : worker[w].call # c
  BY <1>1 DEF SentOK
<1>4. \A i \in 1..Len(queue) : queue[i] # c
  BY <1>1, Zenon DEF QueueOK
<1>5. c \notin late
  BY <1>1, <1>4, Zenon DEF QueueOK
<1> QED BY <1>2, <1>3, <1>4, <1>5, Zenon

\* call(): the call is queued. If a walk is in flight, it must wait for the next one.
LEMMA EnqueueKeeps ==
    ASSUME PInv, NEW c \in Call, call[c].st = "new", shut = "no",
           call' = [call EXCEPT ![c].st = "queued", ![c].asked = code],
           queue' = Append(queue, c),
           IF walk.on THEN late' = late \union {c} /\ UNCHANGED walk
                      ELSE Pump(queue', worker, failing, FALSE),
           UNCHANGED <<worker, process, failing, deaths, degraded, shut, env>>
    PROVE  PInv'
<1>1. TypeOK /\ QueueOK /\ CodeOK /\ NoStrandedCall /\ WorkersOK
  BY Zenon DEF PInv
<1>2. /\ call \in [Call -> CallRecord] /\ queue \in Seq(Call) /\ late \subseteq Call
      /\ walk \in [on : BOOLEAN, from : Version] /\ failing \in BOOLEAN
      /\ worker \in [Worker -> WorkerRecord] /\ code \in Version
  BY <1>1, Zenon DEF TypeOK
<1>3. /\ worker' = worker /\ process' = process /\ shut' = shut /\ code' = code
      /\ faults' = faults /\ deaths' = deaths /\ degraded' = degraded /\ failing' = failing
  BY DEF env
<1>4. /\ call' \in [Call -> CallRecord] /\ call'[c].st = "queued" /\ call'[c].asked = code
      /\ call'[c].runs = call[c].runs /\ call'[c].frame = call[c].frame
      /\ \A d \in Call \ {c} : call'[d] = call[d]
  <2> DEFINE new == [call[c] EXCEPT !.st = "queued", !.asked = code]
  <2>1. call' = [call EXCEPT ![c] = new]
    BY Zenon
  <2>2. /\ new \in CallRecord /\ new.st = "queued" /\ new.asked = code
        /\ new.runs = call[c].runs /\ new.frame = call[c].frame
    BY <1>2, Zenon DEF CallRecord
  <2> HIDE DEF new
  <2> QED BY <1>2, <2>1, <2>2, Zenon
<1>5. /\ call[c].runs = 0 /\ ~call[c].frame /\ c \notin late
      /\ \A i \in 1..Len(queue) : queue[i] # c
  BY NewCall, Zenon
<1>6. \A d \in Call : CallStep(d)
  <2>1. CallStep(c)
    BY <1>4, <1>5, Zenon DEF CallStep
  <2> QED BY <1>4, <2>1, CallSame, Zenon
<1>7. \A d \in Call : call'[d].asked <= code
  <2>1. code <= code
    BY <1>2, BoundAssumption, SMTT(30) DEF Version
  <2>2. \A d \in Call : call[d].asked <= code
    BY <1>1, Zenon DEF CodeOK
  <2> QED BY <1>4, <2>1, <2>2, Zenon
<1>8. /\ queue' \in Seq(Call) /\ queue' # <<>> /\ Len(queue) \in Nat
      /\ Len(queue') = Len(queue) + 1 /\ queue'[Len(queue')] = c
      /\ \A i \in 1..Len(queue) : queue'[i] = queue[i] /\ i \in 1..Len(queue')
      /\ \A i \in 1..Len(queue') : i = Len(queue') \/ i \in 1..Len(queue)
      /\ Len(queue') \in 1..Len(queue')
  BY <1>2, SeqAppend, SeqLen, SMTT(30)
<1>9. \A i \in 1..Len(queue) : queue[i] \in Call \ {c}
  BY <1>2, <1>5, SeqElement, Zenon
<1>10. /\ late' \subseteq Call /\ walk' \in [on : BOOLEAN, from : Version]
       /\ walk.on => late' = late \union {c} /\ walk' = walk
       /\ ~walk.on => /\ late' = {}
                      /\ walk' = NoWalk \/ walk' = [on |-> TRUE, from |-> code]
       /\ ~walk.on /\ ~walk'.on => In(worker, "idle") = {} /\ Workers(worker) # {}
  <2>1. CASE walk.on
    BY <2>1, <1>2, Zenon
  <2>2. CASE ~walk.on
    <3>1. Pump(queue', worker, failing, FALSE)
      BY <2>2, Zenon
    <3>2. /\ walk' \in [on : BOOLEAN, from : Version] /\ late' = {}
          /\ (walk' = NoWalk \/ walk' = [on |-> TRUE, from |-> code])
          /\ ~walk'.on => In(worker, "idle") = {} /\ Workers(worker) # {}
      <4>1. ASSUME NEW q \in Seq(Call), q # <<>>, Pump(q, worker, failing, FALSE)
            PROVE  /\ walk' \in [on : BOOLEAN, from : Version] /\ late' = {}
                   /\ (walk' = NoWalk \/ walk' = [on |-> TRUE, from |-> code])
                   /\ ~walk'.on => In(worker, "idle") = {} /\ Workers(worker) # {}
        BY <4>1, <1>1, <1>2, FreePump, Zenon
      <4> QED BY <4>1, <1>8, <3>1, Zenon
    <3> QED BY <2>2, <3>2, Zenon
  <2> QED BY <2>1, <2>2, Zenon
<1>11. QueueOK'
  <2>1. \A i, j \in 1..Len(queue') : queue'[i] = queue'[j] => i = j
    BY <1>1, <1>8, <1>9, SMTT(30) DEF QueueOK
  <2>2. ASSUME NEW i \in 1..Len(queue') PROVE call'[queue'[i]].st = "queued"
    <3>1. CASE i = Len(queue')
      BY <3>1, <1>4, <1>8, Zenon
    <3>2. CASE i \in 1..Len(queue)
      <4>1. /\ queue'[i] = queue[i] /\ queue[i] \in Call \ {c}
            /\ call[queue[i]].st = "queued"
        BY <3>2, <1>1, <1>8, <1>9, Zenon DEF QueueOK
      <4>2. call'[queue[i]] = call[queue[i]]
        BY <4>1, <1>4, Zenon
      <4> QED BY <4>1, <4>2, Zenon
    <3> QED BY <3>1, <3>2, <1>8, Zenon
  <2>3. \A d \in late' : \E i \in 1..Len(queue') : queue'[i] = d
    <3> SUFFICES ASSUME NEW d \in late' PROVE \E i \in 1..Len(queue') : queue'[i] = d
      BY Zenon
    <3>1. CASE d = c
      BY <3>1, <1>8, Zenon
    <3>2. CASE d # c
      <4>1. d \in late
        BY <3>2, <1>10, Zenon
      <4>2. PICK i \in 1..Len(queue) : queue[i] = d
        BY <4>1, <1>1, Zenon DEF QueueOK
      <4> QED BY <4>2, <1>8, Zenon
    <3> QED BY <3>1, <3>2, Zenon
  <2>4. ASSUME NEW i \in 1..Len(queue'), NEW j \in 1..Len(queue'), i < j, queue'[i] \in late'
        PROVE  queue'[j] \in late'
    <3>1. late' = late \union {c}
      BY <2>4, <1>10, Zenon
    <3>2. CASE j = Len(queue')
      BY <3>1, <3>2, <1>8, Zenon
    <3>3. CASE j # Len(queue')
      <4>1. i \in 1..Len(queue) /\ j \in 1..Len(queue)
        BY <3>3, <2>4, <1>8, SMTT(30)
      <4>2. /\ queue'[i] = queue[i] /\ queue'[j] = queue[j] /\ queue[i] # c
        BY <4>1, <1>5, <1>8, Zenon
      <4>3. queue[i] \in late
        BY <2>4, <3>1, <4>2, Zenon
      <4>4. queue[j] \in late
        BY <2>4, <4>1, <4>3, <1>1, Zenon DEF QueueOK
      <4> QED BY <3>1, <4>2, <4>4, Zenon
    <3> QED BY <3>2, <3>3, Zenon
  <2>5. ~walk'.on => late' = {}
    BY <1>10, Zenon
  <2> QED BY <2>1, <2>2, <2>3, <2>4, <2>5, Zenon DEF QueueOK
<1>12. NoStrandedCall'
  <2>1. ~walk'.on => In(worker', "idle") = {} /\ Workers(worker') # {}
    BY <1>3, <1>10, Zenon
  <2> QED BY <2>1, Zenon DEF NoStrandedCall, In, Workers
<1>13. \/ walk' = NoWalk
       \/ walk' = [on |-> TRUE, from |-> code]
       \/ /\ walk' = walk
          /\ \A d \in Call : call'[d].st \in {"queued", "sent"} /\ d \notin late' =>
                /\ call[d].st \in {"queued", "sent"} /\ d \notin late
                /\ call'[d].asked = call[d].asked
  <2>1. CASE walk.on
    <3>1. walk' = walk /\ late \subseteq late' /\ c \in late'
      BY <2>1, <1>10, Zenon
    <3>2. \A d \in Call : d \notin late' => call'[d] = call[d] /\ d \notin late
      BY <3>1, <1>4, Zenon
    <3> QED BY <3>1, <3>2, Zenon
  <2> QED BY <2>1, <1>10, Zenon
<1> QED
  BY <1>2, <1>3, <1>4, <1>6, <1>7, <1>8, <1>10, <1>11, <1>12, <1>13, CallsOnly, Zenon

\* call(): the call is refused, or handed to the fallback, and is not queued.
LEMMA TurnAwayKeeps ==
    ASSUME PInv, NEW c \in Call, call[c].st = "new",
           call' \in {Settled({c}, "failed"), Fallback(call, {c})},
           UNCHANGED <<worker, process, queue, walk, late, failing, deaths, degraded, shut, env>>
    PROVE  PInv'
<1>1. /\ TypeOK /\ QueueOK /\ CodeOK /\ WorkersOK /\ NoStrandedCall
      /\ call \in [Call -> CallRecord] /\ "failed" \in Outcome
  BY Zenon DEF PInv, TypeOK, Outcome
<1>2. /\ queue \in Seq(Call) /\ late \subseteq Call
      /\ walk \in [on : BOOLEAN, from : Version] /\ failing \in BOOLEAN
  BY <1>1, Zenon DEF TypeOK
<1>3. /\ worker' = worker /\ process' = process /\ shut' = shut /\ code' = code
      /\ faults' = faults /\ deaths' = deaths /\ degraded' = degraded /\ failing' = failing
      /\ queue' = queue /\ walk' = walk /\ late' = late
  BY Zenon DEF env
<1>4. /\ call[c].runs = 0 /\ ~call[c].frame /\ c \notin late
      /\ \A w \in Worker : worker[w].call # c
  BY NewCall, Zenon
<1>5. /\ call' \in [Call -> CallRecord] /\ call'[c].asked = call[c].asked
      /\ call'[c].frame = call[c].frame /\ \A d \in Call \ {c} : call'[d] = call[d]
      /\ \/ call'[c].st = "failed" /\ call'[c].runs = call[c].runs
         \/ call'[c].st = "fallback" /\ call'[c].runs = 1
  <2>1. CASE call' = Settled({c}, "failed")
    BY <2>1, <1>1, SettledIs, SMTT(30)
  <2>2. CASE call' = Fallback(call, {c})
    BY <2>2, <1>1, <1>4, FallbackIs, SMTT(30)
  <2> QED BY <2>1, <2>2, Zenon
<1>6. \A d \in Call : CallStep(d)
  <2>1. CallStep(c)
    BY <1>3, <1>4, <1>5, Zenon DEF CallStep
  <2> QED BY <1>5, <2>1, CallSame, Zenon
<1>7. \A d \in Call : call'[d].asked <= code
  BY <1>1, <1>5, Zenon DEF CodeOK
<1>8. \A d \in Call : call'[d].st \in {"queued", "sent"} /\ d \notin late' =>
          /\ call[d].st \in {"queued", "sent"} /\ d \notin late
          /\ call'[d].asked = call[d].asked
  BY <1>3, <1>5, Zenon
<1>9. QueueOK'
  <2>1. \A d \in Call : call[d].st = "queued" => call'[d].st = "queued"
    BY <1>5, Zenon
  <2>2. ~walk'.on => late' = {}
    BY <1>1, <1>3, Zenon DEF QueueOK
  <2>3. late' \in {late, {}}
    BY <1>3, Zenon
  <2> QED BY <1>1, <1>3, <2>1, <2>2, <2>3, QueueKept, Zenon
<1>10. NoStrandedCall'
  BY <1>1, <1>3, NotStranded, Zenon
<1>11. shut # "no" => queue' = <<>> /\ ~walk'.on
  BY <1>1, <1>3, Zenon DEF WorkersOK
<1> QED BY <1>2, <1>3, <1>5, <1>6, <1>7, <1>8, <1>9, <1>10, <1>11, CallsOnly, Zenon

\* call().
LEMMA EnterKeeps == ASSUME PInv, NEW c \in Call, Enter(c) PROVE PInv'
BY EnqueueKeeps, TurnAwayKeeps, Zenon DEF Enter

\* The walk fails: every queued call runs as a fresh process, none of them a second
\* time.
LEMMA WalkFailsKeeps == ASSUME PInv, WalkFails PROVE PInv'
<1> DEFINE cs == {queue[i] : i \in 1..Len(queue)}
<1>1. /\ TypeOK /\ CodeOK /\ call \in [Call -> CallRecord] /\ call' = Fallback(call, cs)
      /\ walk' = NoWalk /\ late' = {} /\ queue' = <<>> /\ failing' = TRUE
  BY Zenon DEF PInv, TypeOK, WalkFails
<1>2. /\ worker' = worker /\ process' = process /\ shut' = shut /\ code' = code
      /\ faults' = faults /\ deaths' = deaths /\ degraded' = degraded
  BY Zenon DEF WalkFails, env
<1>3. /\ call' \in [Call -> CallRecord]
      /\ \A c \in Call : /\ c \notin cs => call'[c] = call[c]
                         /\ c \in cs => call'[c].st = "fallback" /\ call'[c].runs = call[c].runs + 1
                         /\ call'[c].asked = call[c].asked /\ call'[c].frame = call[c].frame
  BY <1>1, FallbackIs, SMTT(30)
<1>4. ASSUME NEW c \in Call PROVE CallStep(c) /\ call'[c].asked <= code
  <2>1. CASE c \in cs
    <3>1. call[c].st = "queued" /\ call[c].runs = 0
      BY <2>1, QueuedRuns, Zenon
    <3>2. /\ call'[c].st = "fallback" /\ call'[c].runs = 1 /\ call'[c].frame = call[c].frame
      BY <1>3, <2>1, <3>1, SMTT(30)
    <3>3. CallStep(c)
      BY <1>3, <3>1, <3>2, Zenon DEF CallStep
    <3> QED BY <1>1, <1>3, <3>3, Zenon DEF CodeOK
  <2>2. CASE c \notin cs
    BY <1>1, <1>3, <2>2, CallSame, Zenon DEF CodeOK
  <2> QED BY <2>1, <2>2, Zenon
<1>5. /\ queue' \in Seq(Call) /\ late' \subseteq Call /\ failing' \in BOOLEAN
      /\ walk' \in [on : BOOLEAN, from : Version] /\ ~walk'.on
  BY <1>1, SeqEmpty, BoundAssumption, SMTT(30) DEF NoWalk, Version
<1>6. QueueOK'
  BY <1>1, QueueEmptied, Zenon
<1>7. NoStrandedCall'
  BY <1>1, Zenon DEF NoStrandedCall
<1> QED BY <1>1, <1>2, <1>3, <1>4, <1>5, <1>6, <1>7, CallsOnly, Zenon

\* A sequence without its k-th element.
LEMMA Omitted ==
    ASSUME NEW q \in Seq(Call), NEW k \in 1..Len(q)
    PROVE  LET r == SubSeq(q, 1, k - 1) \o SubSeq(q, k + 1, Len(q))
           IN  /\ r \in Seq(Call) /\ Len(r) = Len(q) - 1
               /\ \A i \in 1..Len(r) : r[i] = q[IF i < k THEN i ELSE i + 1]
<1> DEFINE left == SubSeq(q, 1, k - 1)
           right == SubSeq(q, k + 1, Len(q))
           r == left \o right
<1>1. /\ Len(q) \in Nat /\ k \in Nat /\ k >= 1 /\ k <= Len(q)
      /\ \A i \in 1..Len(q) : q[i] \in Call
  BY SeqLen, SeqElement, SMTT(30)
<1>2. /\ left \in Seq(Call) /\ Len(left) = k - 1 /\ \A i \in 1..(k - 1) : left[i] = q[i]
  <2>1. 1 \in 1..(Len(q) + 1) /\ k - 1 \in 0..Len(q)
    BY <1>1, SMTT(30)
  <2>2. /\ left \in Seq(Call) /\ Len(left) = IF 1 <= k - 1 THEN k - 1 - 1 + 1 ELSE 0
        /\ \A i \in 1..(k - 1 - 1 + 1) : left[i] = q[1 + i - 1]
    BY <2>1, SeqSub, Zenon
  <2> HIDE DEF left
  <2> QED BY <1>1, <2>2, SMTT(30)
<1>3. /\ right \in Seq(Call) /\ Len(right) = Len(q) - k
      /\ \A i \in 1..(Len(q) - k) : right[i] = q[k + i]
  <2>1. k + 1 \in 1..(Len(q) + 1) /\ Len(q) \in 0..Len(q)
    BY <1>1, SMTT(30)
  <2>2. /\ right \in Seq(Call)
        /\ Len(right) = IF k + 1 <= Len(q) THEN Len(q) - (k + 1) + 1 ELSE 0
        /\ \A i \in 1..(Len(q) - (k + 1) + 1) : right[i] = q[(k + 1) + i - 1]
    BY <2>1, SeqSub, Zenon
  <2> HIDE DEF right
  <2>3. Len(right) = Len(q) - k
    BY <1>1, <2>2, SMTT(30)
  <2>4. ASSUME NEW i \in 1..(Len(q) - k) PROVE right[i] = q[k + i]
    <3>1. i \in 1..(Len(q) - (k + 1) + 1) /\ (k + 1) + i - 1 = k + i
      BY <1>1, SMTT(30)
    <3> QED BY <2>2, <3>1, Zenon
  <2> QED BY <2>2, <2>3, <2>4, Zenon
<1> HIDE DEF left, right
<1>4. /\ r \in Seq(Call) /\ Len(r) = Len(left) + Len(right)
      /\ \A i \in 1..(Len(left) + Len(right)) :
            r[i] = IF i <= Len(left) THEN left[i] ELSE right[i - Len(left)]
  BY <1>2, <1>3, SeqConcat, Zenon
<1> HIDE DEF r
<1>5. Len(r) = Len(q) - 1
  BY <1>1, <1>2, <1>3, <1>4, SMTT(30)
<1>6. ASSUME NEW i \in 1..Len(r) PROVE r[i] = q[IF i < k THEN i ELSE i + 1]
  <2>1. i \in 1..(Len(left) + Len(right))
    BY <1>4, Zenon
  <2>2. CASE i < k
    <3>1. i \in 1..(k - 1) /\ i <= Len(left)
      BY <2>1, <2>2, <1>1, <1>2, SMTT(30)
    <3> QED BY <2>1, <2>2, <3>1, <1>2, <1>4, Zenon
  <2>3. CASE ~(i < k)
    <3>1. /\ ~(i <= Len(left)) /\ i - Len(left) \in 1..(Len(q) - k)
          /\ k + (i - Len(left)) = i + 1
      BY <2>3, <1>1, <1>2, <1>5, SMTT(30)
    <3>2. r[i] = right[i - Len(left)]
      BY <2>1, <3>1, <1>4, Zenon
    <3> DEFINE d == i - Len(left)
    <3>3. right[d] = q[k + d]
      BY <3>1, <1>3, Zenon
    <3> QED BY <2>3, <3>1, <3>2, <3>3, Zenon
  <2> QED BY <2>2, <2>3, Zenon
<1> QED BY <1>4, <1>5, <1>6, Zenon DEF r, left, right

\* onCallTimeout of a queued call: it leaves the queue, and the order of the others
\* stays.
LEMMA QueueTimeoutKeeps == ASSUME PInv, NEW c \in Call, QueueTimeout(c) PROVE PInv'
<1>1. /\ TypeOK /\ QueueOK /\ CodeOK /\ WorkersOK /\ NoStrandedCall /\ SentOK
      /\ call \in [Call -> CallRecord] /\ "failed" \in Outcome
      /\ call[c].st = "queued" /\ call' = Settled({c}, "failed") /\ late' = late \ {c}
  BY Zenon DEF PInv, CallsOK, TypeOK, Outcome, QueueTimeout
<1>2. /\ queue \in Seq(Call) /\ late \subseteq Call
      /\ walk \in [on : BOOLEAN, from : Version] /\ failing \in BOOLEAN
  BY <1>1, Zenon DEF TypeOK
<1>3. /\ worker' = worker /\ process' = process /\ shut' = shut /\ code' = code
      /\ faults' = faults /\ deaths' = deaths /\ degraded' = degraded /\ failing' = failing
      /\ walk' = walk
  BY Zenon DEF QueueTimeout, env
<1>4. PICK k \in 1..Len(queue) :
          /\ queue[k] = c
          /\ queue' = SubSeq(queue, 1, k - 1) \o SubSeq(queue, k + 1, Len(queue))
  BY Zenon DEF QueueTimeout
<1> DEFINE Old(i) == IF i < k THEN i ELSE i + 1
<1>5. /\ queue' \in Seq(Call) /\ Len(queue') = Len(queue) - 1 /\ Len(queue) \in Nat
      /\ \A i \in 1..Len(queue') : queue'[i] = queue[Old(i)]
  BY <1>2, <1>4, Omitted, SeqLen, Zenon
<1>6. /\ \A i \in 1..Len(queue') : Old(i) \in 1..Len(queue) /\ Old(i) # k
      /\ \A i, j \in 1..Len(queue') : i < j => Old(i) < Old(j)
      /\ \A i, j \in 1..Len(queue') : Old(i) = Old(j) => i = j
      /\ \A j \in 1..Len(queue) : j # k => \E i \in 1..Len(queue') : Old(i) = j
  <2>1. \A i \in 1..Len(queue') : Old(i) \in 1..Len(queue) /\ Old(i) # k
    BY <1>5, SMTT(30)
  <2>2. /\ \A i, j \in 1..Len(queue') : i < j => Old(i) < Old(j)
        /\ \A i, j \in 1..Len(queue') : Old(i) = Old(j) => i = j
    BY <1>5, SMTT(30)
  <2>3. ASSUME NEW j \in 1..Len(queue), j # k PROVE \E i \in 1..Len(queue') : Old(i) = j
    <3>1. CASE j < k
      <4>1. j \in 1..Len(queue') /\ Old(j) = j
        BY <3>1, <1>5, SMTT(30)
      <4> QED BY <4>1, Zenon
    <3>2. CASE ~(j < k)
      <4>1. j - 1 \in 1..Len(queue') /\ Old(j - 1) = j
        BY <2>3, <3>2, <1>5, SMTT(30)
      <4> QED BY <4>1, Zenon
    <3> QED BY <3>1, <3>2, Zenon
  <2> QED BY <2>1, <2>2, <2>3, Zenon
<1> HIDE DEF Old
<1>7. /\ call' \in [Call -> CallRecord] /\ call'[c].st = "failed"
      /\ \A d \in Call : /\ d # c => call'[d] = call[d]
                         /\ call'[d].runs = call[d].runs /\ call'[d].asked = call[d].asked
                         /\ call'[d].frame = call[d].frame
  BY <1>1, SettledIs, SMTT(30)
<1>8. \A d \in Call : CallStep(d)
  <2>1. \A w \in Worker : worker'[w].call # c
    BY <1>1, <1>3, Zenon DEF SentOK
  <2>2. CallStep(c)
    BY <1>1, <1>7, <2>1, Zenon DEF CallStep
  <2> QED BY <1>7, <2>2, CallSame, Zenon
<1>9. \A d \in Call : call'[d].asked <= code
  BY <1>1, <1>7, Zenon DEF CodeOK
<1>10. \A d \in Call : call'[d].st \in {"queued", "sent"} /\ d \notin late' =>
          /\ call[d].st \in {"queued", "sent"} /\ d \notin late
          /\ call'[d].asked = call[d].asked
  BY <1>1, <1>7, Zenon
<1>11. \A i \in 1..Len(queue') : queue'[i] \in Call \ {c}
  <2>1. \A j \in 1..Len(queue) : queue[j] \in Call
    BY <1>2, SeqElement, Zenon
  <2>2. \A j \in 1..Len(queue) : j # k => queue[j] # c
    BY <1>1, <1>4, Zenon DEF QueueOK
  <2>3. ASSUME NEW i \in 1..Len(queue') PROVE queue'[i] \in Call /\ queue'[i] # c
    <3>1. Old(i) \in 1..Len(queue) /\ Old(i) # k /\ queue'[i] = queue[Old(i)]
      BY <1>5, <1>6, Zenon
    <3> QED BY <2>1, <2>2, <3>1, Zenon
  <2> QED BY <2>3, Zenon
<1>12. QueueOK'
  <2>1. ASSUME NEW i \in 1..Len(queue'), NEW j \in 1..Len(queue'), queue'[i] = queue'[j]
        PROVE  i = j
    <3>1. queue[Old(i)] = queue[Old(j)] /\ Old(i) \in 1..Len(queue) /\ Old(j) \in 1..Len(queue)
      BY <2>1, <1>5, <1>6, Zenon
    <3> QED BY <3>1, <1>1, <1>6, Zenon DEF QueueOK
  <2>2. ASSUME NEW i \in 1..Len(queue') PROVE call'[queue'[i]].st = "queued"
    <3>1. queue'[i] = queue[Old(i)] /\ Old(i) \in 1..Len(queue)
      BY <1>5, <1>6, Zenon
    <3>2. call[queue'[i]].st = "queued"
      BY <3>1, <1>1, ZenonT(30) DEF QueueOK
    <3>3. call'[queue'[i]] = call[queue'[i]]
      BY <1>7, <1>11, Zenon
    <3> QED BY <3>2, <3>3, Zenon
  <2>3. ASSUME NEW d \in late' PROVE \E i \in 1..Len(queue') : queue'[i] = d
    <3>1. d \in late /\ d # c
      BY <1>1, Zenon
    <3>2. PICK j \in 1..Len(queue) : queue[j] = d
      BY <3>1, <1>1, Zenon DEF QueueOK
    <3>3. PICK i \in 1..Len(queue') : Old(i) = j
      BY <3>1, <3>2, <1>4, <1>6, Zenon
    <3> QED BY <3>2, <3>3, <1>5, Zenon
  <2>4. ASSUME NEW i \in 1..Len(queue'), NEW j \in 1..Len(queue'), i < j, queue'[i] \in late'
        PROVE  queue'[j] \in late'
    <3>1. /\ queue'[i] = queue[Old(i)] /\ Old(i) \in 1..Len(queue)
          /\ queue'[j] = queue[Old(j)] /\ Old(j) \in 1..Len(queue) /\ Old(i) < Old(j)
      BY <2>4, <1>5, <1>6, Zenon
    <3>2. queue[Old(i)] \in late
      BY <2>4, <3>1, <1>1, Zenon
    <3>3. queue[Old(j)] \in late
      BY <3>1, <3>2, <1>1, Zenon DEF QueueOK
    <3> QED BY <3>1, <3>3, <1>1, <1>11, Zenon
  <2>5. ~walk'.on => late' = {}
    BY <1>1, <1>3, Zenon DEF QueueOK
  <2> QED BY <2>1, <2>2, <2>3, <2>4, <2>5, Zenon DEF QueueOK
<1>13. NoStrandedCall'
  <2>1. queue # <<>>
    BY <1>2, <1>4, SMTT(30)
  <2> QED BY <2>1, <1>1, <1>3, NotStranded, Zenon
<1>14. shut # "no" => queue' = <<>> /\ ~walk'.on
  <2>1. queue # <<>>
    BY <1>2, <1>4, SMTT(30)
  <2> QED BY <2>1, <1>1, Zenon DEF WorkersOK
<1>15. late' \subseteq Call
  BY <1>1, <1>2, Zenon
<1> QED
  BY <1>2, <1>3, <1>5, <1>7, <1>8, <1>9, <1>10, <1>12, <1>13, <1>14, <1>15, CallsOnly, Zenon

(***************************************************************************)
(* Shutdown, and steps outside the pool.                                   *)
(***************************************************************************)
\* shutdown: nothing is queued or sent afterwards, and no worker is in service.
LEMMA ShutdownKeeps == ASSUME PInv, Shutdown PROVE PInv'
<1> DEFINE cs == {c \in Call : call[c].st \in {"queued", "sent"}}
           ws == [w \in Worker |-> [worker[w] EXCEPT !.call = None]]
           gone == Workers(worker)
<1>1. /\ TypeOK /\ WorkersOK /\ CodeOK /\ CallsOK /\ call \in [Call -> CallRecord]
      /\ worker \in [Worker -> WorkerRecord] /\ process \in [Worker -> ProcessRecord]
      /\ "failed" \in Outcome
  BY Zenon DEF PInv, TypeOK, Outcome
<1>2. /\ shut = "no" /\ shut' = "waiting" /\ walk' = NoWalk /\ late' = {} /\ queue' = <<>>
      /\ call' = Settled(cs, "failed") /\ worker' = Retired(ws, gone)
      /\ process' = Killed(process, gone)
  BY Zenon DEF Shutdown
<1>3. /\ failing' = failing /\ deaths' = deaths /\ degraded' = degraded /\ code' = code
      /\ faults' = faults
  BY Zenon DEF Shutdown, env
<1>4. gone \subseteq Worker /\ \A w \in Worker : w \in gone <=> worker[w].st # "none"
  BY Zenon DEF Workers
<1>5. /\ ws \in [Worker -> WorkerRecord]
      /\ \A w \in Worker : /\ ws[w].call = None /\ ws[w].st = worker[w].st
                           /\ ws[w].ident = worker[w].ident
                           /\ worker[w] = NoWorker => ws[w] = NoWorker
  <2>1. /\ ws \in [Worker -> WorkerRecord]
        /\ \A w \in Worker : /\ ws[w].call = None /\ ws[w].st = worker[w].st
                             /\ ws[w].ident = worker[w].ident
    BY <1>1, Zenon DEF WorkerRecord
  <2>2. [NoWorker EXCEPT !.call = None] = NoWorker
    <3>1. NoWorker.call = None
      BY Zenon DEF NoWorker
    <3>2. NoWorker = [i \in DOMAIN NoWorker |-> NoWorker[i]]
      BY Zenon DEF NoWorker
    <3> QED BY <3>1, <3>2, Zenon
  <2>3. \A w \in Worker : worker[w] = NoWorker => ws[w] = NoWorker
    BY <2>2, Zenon
  <2> QED BY <2>1, <2>3, Zenon
<1> HIDE DEF ws, gone, cs
<1>6. /\ worker' \in [Worker -> WorkerRecord]
      /\ \A w \in Worker : /\ w \notin gone => worker'[w] = ws[w]
                           /\ worker'[w].call = None /\ worker'[w].ident = worker[w].ident
                           /\ w \in gone => worker'[w].st = IF worker[w].st = "starting"
                                                            THEN "starting-retiring" ELSE "retiring"
  <2>1. /\ Retired(ws, gone) \in [Worker -> WorkerRecord]
        /\ \A w \in Worker \ gone : Retired(ws, gone)[w] = ws[w]
        /\ \A w \in gone : /\ Retired(ws, gone)[w].call = ws[w].call
                           /\ Retired(ws, gone)[w].ident = ws[w].ident
                           /\ Retired(ws, gone)[w].st
                                = IF ws[w].st = "starting" THEN "starting-retiring" ELSE "retiring"
    BY <1>4, <1>5, RetiredIs, SMTT(30)
  <2> QED BY <1>2, <1>4, <1>5, <2>1, ZenonT(30)
<1>7. /\ process' \in [Worker -> ProcessRecord]
      /\ \A w \in Worker : /\ w \notin gone => process'[w] = process[w]
                           /\ process'[w].st = process[w].st /\ process'[w].run = process[w].run
                           /\ process'[w].loaded = process[w].loaded
                           /\ process'[w].inbox = process[w].inbox
                           /\ process'[w].last = process[w].last
                           /\ process'[w].out = process[w].out
                           /\ process'[w].mark = process[w].mark
  BY <1>1, <1>2, <1>4, KilledIs, SMTT(30)
<1>8. /\ call' \in [Call -> CallRecord]
      /\ \A c \in Call : /\ c \notin cs => call'[c] = call[c]
                         /\ c \in cs => call'[c].st = "failed"
                         /\ call'[c].runs = call[c].runs /\ call'[c].asked = call[c].asked
                         /\ call'[c].frame = call[c].frame
  BY <1>1, <1>2, SettledIs, SMTT(30)
<1>9. TypeOK'
  <2>1. /\ queue' \in Seq(Call) /\ late' \subseteq Call
        /\ walk' \in [on : BOOLEAN, from : Version]
        /\ shut' \in {"no", "waiting", "clean", "unclean"}
    BY <1>2, SeqEmpty, BoundAssumption, SMTT(30) DEF NoWalk, Version
  <2> QED BY <1>1, <1>3, <1>6, <1>7, <1>8, <2>1, Zenon DEF TypeOK
<1>10. WorkersOK'
  <2>1. ASSUME NEW w \in Worker PROVE WorkerOK(w)'
    <3>1. WorkerOK(w)
      BY <1>1, Zenon DEF WorkersOK
    <3>2. CASE w \notin gone
      <4>1. /\ worker[w].st = "none" /\ worker[w] = NoWorker /\ process[w] = NoProcess
        BY <3>1, <3>2, <1>4, Zenon DEF WorkerOK
      <4>2. worker'[w] = NoWorker /\ process'[w] = NoProcess
        BY <3>2, <4>1, <1>5, <1>6, <1>7, Zenon
      <4> QED BY <4>2, <1>2, SMTT(30) DEF WorkerOK, NoWorker, NoProcess
    <3>3. CASE w \in gone
      <4>1. /\ worker'[w].st \in {"starting-retiring", "retiring"} /\ worker'[w].call = None
            /\ process[w].st = "none" => worker[w].st = "starting"
        BY <3>1, <3>3, <1>2, <1>4, <1>6, Zenon DEF WorkerOK
      <4>2. process[w].st = "none" => worker'[w].st = "starting-retiring"
        BY <3>3, <4>1, <1>6, Zenon
      <4> QED BY <3>1, <4>1, <4>2, <1>2, <1>7, ZenonT(30) DEF WorkerOK
    <3> QED BY <3>2, <3>3, Zenon
  <2>2. Workers(worker') = Workers(worker)
    <3>1. \A w \in Worker : worker'[w].st # "none" <=> worker[w].st # "none"
      BY <1>4, <1>5, <1>6, Zenon
    <3> QED BY <3>1, Zenon DEF Workers
  <2>3. Cardinality(Workers(worker')) <= Size
    BY <1>1, <2>2, Zenon DEF WorkersOK
  <2>4. queue' = <<>> /\ ~walk'.on
    BY <1>2, Zenon DEF NoWalk
  <2>5. Cardinality(Workers(worker))' <= Size
    BY <2>3, Zenon DEF Workers
  <2>6. Counted'
    BY <1>1, CountedStays, Zenon DEF WorkersOK
  <2> QED BY <2>1, <2>4, <2>5, <2>6, Zenon DEF WorkersOK
<1>11. QueueOK'
  BY <1>2, QueueEmptied, Zenon
<1>12. CodeOK'
  <2>1. \A w \in Worker : /\ worker'[w].ident <= code
                          /\ process'[w].st # "none" => worker'[w].ident <= process'[w].loaded
    BY <1>1, <1>6, <1>7, Zenon DEF CodeOK
  <2>2. \A c \in Call : call'[c].asked <= code
    BY <1>1, <1>8, Zenon DEF CodeOK
  <2> QED BY <1>1, <1>2, <1>3, <1>9, <2>1, <2>2, CodeKept, Zenon
<1>13. CallsOK'
  <2>1. ASSUME NEW w \in Worker PROVE SlotStep(w)
    <3>1. \A c \in Call : MayRun(w, c)' => MayRun(w, c)
      BY <1>7, Zenon DEF MayRun
    <3>2. worker'[w].call = None /\ process'[w].run = process[w].run
      BY <1>6, <1>7, Zenon
    <3>3. \A i \in 1..Len(process'[w].out) :
             /\ \E j \in 1..Len(process[w].out) : process'[w].out[i] = process[w].out[j]
             /\ process[w].st \in {"exiting", "dead"} =>
                   process'[w].st \in {"exiting", "dead"} /\ process'[w].last = process[w].last
      BY <1>7, Zenon
    <3> QED BY <3>1, <3>2, <3>3, Zenon DEF SlotStep
  <2>2. ASSUME NEW c \in Call PROVE CallStep(c)
    <3>1. CASE c \in cs
      <4>1. \A w \in Worker : worker'[w].call # c
        BY <1>6, NoneAssumption, Zenon
      <4>2. call[c].st \in {"queued", "sent"}
        BY <3>1, Zenon DEF cs
      <4> QED BY <3>1, <4>1, <4>2, <1>8, Zenon DEF CallStep
    <3>2. CASE c \notin cs
      BY <3>2, <1>8, CallSame, Zenon
    <3> QED BY <3>1, <3>2, Zenon
  <2> QED BY <1>1, <1>9, <2>1, <2>2, CallsKept, Zenon
<1>14. NoStrandedCall'
  BY <1>2, Zenon DEF NoStrandedCall
<1> QED BY <1>9, <1>10, <1>11, <1>12, <1>13, <1>14, Zenon DEF PInv

\* shutdown returns: cleanly only when no worker is left.
LEMMA ShutdownReturnsKeeps == ASSUME PInv, ShutdownReturns PROVE PInv'
<1>1. TypeOK /\ WorkersOK /\ QueueOK /\ CodeOK /\ CallsOK
  BY Zenon DEF PInv
<1>2. /\ shut = "waiting" /\ shut' = IF Workers(worker) = {} THEN "clean" ELSE "unclean"
      /\ worker' = worker /\ process' = process /\ call' = call /\ queue' = queue /\ walk' = walk
      /\ late' = late /\ failing' = failing /\ deaths' = deaths /\ degraded' = degraded
      /\ code' = code /\ faults' = faults
  BY Zenon DEF ShutdownReturns, env
<1>3. shut' \in {"clean", "unclean"} /\ (shut' = "clean" => Workers(worker) = {})
  BY <1>2, Zenon
<1>4. TypeOK'
  <2>1. shut' \in {"no", "waiting", "clean", "unclean"}
    BY <1>3, Zenon
  <2> QED BY <1>1, <1>2, <2>1, Zenon DEF TypeOK
<1>5. WorkersOK'
  <2>1. ASSUME NEW w \in Worker PROVE WorkerOK(w)'
    <3>1. WorkerOK(w)
      BY <1>1, Zenon DEF WorkersOK
    <3>2. shut' = "clean" => worker[w].st = "none"
      BY <1>3, Zenon DEF Workers
    <3> QED BY <1>2, <1>3, <3>1, <3>2, Zenon DEF WorkerOK
  <2>2. Cardinality(Workers(worker))' <= Size
    BY <1>1, <1>2, Zenon DEF WorkersOK, Workers
  <2>3. queue' = <<>> /\ ~walk'.on
    BY <1>1, <1>2, Zenon DEF WorkersOK
  <2>4. Counted'
    BY <1>1, CountedStays, Zenon DEF WorkersOK
  <2> QED BY <2>1, <2>2, <2>3, <2>4, Zenon DEF WorkersOK
<1>6. QueueOK'
  BY <1>1, <1>2, Zenon DEF QueueOK
<1>7. CodeOK'
  BY <1>1, <1>2, Zenon DEF CodeOK
<1>8. CallsOK'
  <2>1. (\A w \in Worker : SlotStep(w)) /\ \A c \in Call : CallStep(c)
    BY <1>2, SlotSame, CallSame, Zenon
  <2> QED BY <1>1, <1>4, <2>1, CallsKept, Zenon
<1>9. NoStrandedCall'
  BY <1>3, Zenon DEF NoStrandedCall
<1> QED BY <1>4, <1>5, <1>6, <1>7, <1>8, <1>9, Zenon DEF PInv

\* The degraded period ends.
LEMMA DegradedOverKeeps == ASSUME PInv, DegradedOver PROVE PInv'
<1>1. TypeOK /\ WorkersOK /\ QueueOK /\ CodeOK /\ CallsOK /\ NoStrandedCall
  BY Zenon DEF PInv
<1>2. /\ degraded' = FALSE /\ worker' = worker /\ process' = process /\ call' = call
      /\ queue' = queue /\ walk' = walk /\ late' = late /\ failing' = failing
      /\ deaths' = deaths /\ shut' = shut /\ code' = code /\ faults' = faults
  BY Zenon DEF DegradedOver, env
<1>3. TypeOK'
  BY <1>1, <1>2, Zenon DEF TypeOK
<1>4. WorkersOK' /\ QueueOK' /\ CodeOK' /\ NoStrandedCall'
  <2>1. WorkersOK'
    <3>1. Counted'
      BY <1>1, CountedStays, Zenon DEF WorkersOK
    <3> QED BY <1>1, <1>2, <3>1, Zenon DEF WorkersOK, WorkerOK, Workers
  <2>2. QueueOK'
    BY <1>1, <1>2, Zenon DEF QueueOK
  <2>3. CodeOK'
    BY <1>1, <1>2, Zenon DEF CodeOK
  <2>4. NoStrandedCall'
    BY <1>1, <1>2, Zenon DEF NoStrandedCall, In, Workers
  <2> QED BY <2>1, <2>2, <2>3, <2>4, Zenon
<1>5. CallsOK'
  <2>1. (\A w \in Worker : SlotStep(w)) /\ \A c \in Call : CallStep(c)
    BY <1>2, SlotSame, CallSame, Zenon
  <2> QED BY <1>1, <1>3, <2>1, CallsKept, Zenon
<1> QED BY <1>3, <1>4, <1>5, Zenon DEF PInv

\* The tool code changes: what the pool knows of older code stays true.
LEMMA CodeChangesKeeps == ASSUME PInv, CodeChanges PROVE PInv'
<1>1. TypeOK /\ WorkersOK /\ QueueOK /\ CodeOK /\ CallsOK /\ NoStrandedCall
  BY Zenon DEF PInv
<1>2. /\ worker' = worker /\ process' = process /\ call' = call
      /\ queue' = queue /\ walk' = walk /\ late' = late /\ failing' = failing
      /\ deaths' = deaths /\ degraded' = degraded /\ shut' = shut /\ faults' = faults
      /\ code < MaxCode /\ code' = code + 1
  BY Zenon DEF CodeChanges, pool
<1>3. /\ code \in Nat /\ code' \in Version /\ walk.from \in Nat
      /\ \A c \in Call : call[c].asked \in Nat
      /\ \A w \in Worker : worker[w].ident \in Nat
  BY <1>1, <1>2, BoundAssumption, SMTT(30) DEF TypeOK, Version, CallRecord, WorkerRecord
<1>4. TypeOK'
  BY <1>1, <1>2, <1>3, Zenon DEF TypeOK
<1>5. WorkersOK' /\ QueueOK' /\ NoStrandedCall'
  <2>1. WorkersOK'
    <3>1. Counted'
      BY <1>1, CountedStays, Zenon DEF WorkersOK
    <3> QED BY <1>1, <1>2, <3>1, Zenon DEF WorkersOK, WorkerOK, Workers
  <2>2. QueueOK'
    BY <1>1, <1>2, Zenon DEF QueueOK
  <2>3. NoStrandedCall'
    BY <1>1, <1>2, Zenon DEF NoStrandedCall, In, Workers
  <2> QED BY <2>1, <2>2, <2>3, Zenon
<1>6. CodeOK'
  <2>1. \A n \in Nat : n <= code => n <= code'
    BY <1>2, <1>3, SMTT(30)
  <2> QED BY <1>1, <1>2, <1>3, <2>1, Zenon DEF CodeOK
<1>7. CallsOK'
  <2>1. (\A w \in Worker : SlotStep(w)) /\ \A c \in Call : CallStep(c)
    BY <1>2, SlotSame, CallSame, Zenon
  <2> QED BY <1>1, <1>4, <2>1, CallsKept, Zenon
<1> QED BY <1>4, <1>5, <1>6, <1>7, Zenon DEF PInv

=============================================================================

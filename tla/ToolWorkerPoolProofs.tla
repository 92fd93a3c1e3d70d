------------------------- MODULE ToolWorkerPoolProofs -------------------------
(***************************************************************************)
(* Theorems about ToolWorkerPool, for every set of calls, every finite set *)
(* of worker slots and all options: a call never runs in code older than   *)
(* what was there when it was enqueued, is started at most once, and never *)
(* waits beside an idle worker; every live process counts toward size.     *)
(* First, the end of a walk, which retires workers, hands out calls and    *)
(* spawns, keeps the inductive invariant.                                  *)
(***************************************************************************)
EXTENDS ToolWorkerPoolLemmas, FiniteSetTheorems

(***************************************************************************)
(* completeWalk.                                                           *)
(***************************************************************************)
\* The first k elements of a sequence are at most k.
LEMMA PrefixSize ==
    ASSUME NEW q \in Seq(Call), NEW k \in 0..Len(q)
    PROVE  /\ IsFiniteSet({q[i] : i \in 1..k})
           /\ Cardinality({q[i] : i \in 1..k}) \in Nat /\ Cardinality({q[i] : i \in 1..k}) <= k
<1> DEFINE T == {q[i] : i \in 1..k}
           f == [i \in 1..k |-> q[i]]
<1>1. f \in Surjection(1..k, T)
  BY Zenon DEF Surjection
<1>2. k \in Nat /\ IsFiniteSet(1..k) /\ Cardinality(1..k) = k
  <2>1. k \in Nat /\ 1 \in Int /\ k \in Int
    BY SeqLen, SMTT(30)
  <2>2. IsFiniteSet(1..k) /\ Cardinality(1..k) = IF 1 > k THEN 0 ELSE k - 1 + 1
    BY <2>1, FS_Interval, Zenon
  <2> QED BY <2>1, <2>2, SMTT(30)
<1>3. IsFiniteSet(T) /\ Cardinality(T) <= k
  <2> HIDE DEF T, f
  <2>1. IsFiniteSet(T) /\ Cardinality(T) <= Cardinality(1..k)
    BY <1>1, <1>2, FS_Surjection, Zenon
  <2> QED BY <1>2, <2>1, Zenon
<1>4. Cardinality(T) \in Nat
  BY <1>3, FS_CardinalityType, Zenon
<1> QED BY <1>3, <1>4, Zenon

\* The calls that a walk may hand out are the first ones of the queue.
LEMMA EligibleFirst ==
    ASSUME PInv
    PROVE  /\ Cardinality(Eligible) \in Nat /\ Cardinality(Eligible) <= Len(queue)
           /\ Len(queue) \in Nat
           /\ \A i \in 1..Cardinality(Eligible) : i \in 1..Len(queue) /\ queue[i] \notin late
<1> DEFINE First(k) == {queue[i] : i \in 1..k}
<1>1. queue \in Seq(Call) /\ QueueOK
  BY Zenon DEF PInv, TypeOK
<1>2. Len(queue) \in Nat
  BY <1>1, SeqLen, Zenon
<1>3. ASSUME NEW k \in 0..Len(queue), Eligible \subseteq First(k)
      PROVE  Cardinality(Eligible) \in Nat /\ Cardinality(Eligible) <= k
  <2>1. IsFiniteSet(First(k)) /\ Cardinality(First(k)) \in Nat /\ Cardinality(First(k)) <= k
    BY <1>1, PrefixSize, Zenon
  <2> HIDE DEF First
  <2>2. IsFiniteSet(Eligible) /\ Cardinality(Eligible) <= Cardinality(First(k))
    BY <1>3, <2>1, FS_Subset, Zenon
  <2>3. Cardinality(Eligible) \in Nat
    BY <2>2, FS_CardinalityType, Zenon
  <2>4. k \in Nat
    BY <1>2, SMTT(30)
  <2> QED BY <2>1, <2>2, <2>3, <2>4, SMTT(30)
<1>4. Cardinality(Eligible) \in Nat /\ Cardinality(Eligible) <= Len(queue)
  <2>1. Eligible \subseteq First(Len(queue)) /\ Len(queue) \in 0..Len(queue)
    BY <1>2, SMTT(30) DEF Eligible
  <2> HIDE DEF First
  <2> QED BY <1>3, <2>1, Zenon
<1>5. ASSUME NEW i \in 1..Cardinality(Eligible)
      PROVE  i \in 1..Len(queue) /\ queue[i] \notin late
  <2>1. i \in 1..Len(queue)
    BY <1>2, <1>4, SMTT(30)
  <2>2. SUFFICES ASSUME queue[i] \in late PROVE FALSE
    BY <2>1, Zenon
  <2>3. ASSUME NEW x \in Eligible PROVE x \in First(i - 1)
    <3>1. PICK j \in 1..Len(queue) : queue[j] = x
      BY Zenon DEF Eligible
    <3>2. queue[j] \notin late
      BY <3>1, Zenon DEF Eligible
    <3>3. ~(i < j) /\ i # j
      BY <2>1, <2>2, <3>2, <1>1, Zenon DEF QueueOK
    <3>4. j \in 1..(i - 1)
      BY <3>3, <1>2, <2>1, SMTT(30)
    <3> QED BY <3>1, <3>4, Zenon
  <2> HIDE DEF First
  <2>4. i - 1 \in 0..Len(queue) /\ Eligible \subseteq First(i - 1)
    BY <2>1, <2>3, <1>2, SMTT(30)
  <2>5. Cardinality(Eligible) <= i - 1
    BY <1>3, <2>4, Zenon
  <2> QED BY <2>5, <1>4, SMTT(30)
<1> QED BY <1>2, <1>4, <1>5, Zenon

\* A walk hands each of the calls in sent to at most one of the workers in takers.
HandOut(takers, sent, held) ==
    /\ takers \subseteq Worker /\ sent \subseteq Call /\ held \in [takers -> sent]
    /\ \A v, w \in takers : held[v] = held[w] => v = w
    /\ \A c \in sent : /\ call[c].runs = 0 /\ call'[c].st = "sent"
                       /\ call'[c].runs = call[c].runs /\ call'[c].asked = call[c].asked
                       /\ call'[c].frame = call[c].frame
                       /\ \A w \in Worker : worker[w].call # c /\ ~MayRun(w, c)
    /\ \A c \in Call \ sent : call'[c] = call[c]
    /\ \A w \in takers : /\ worker'[w].call = held[w] /\ process'[w].inbox = held[w]
                         /\ process[w].loaded >= call[held[w]].asked
    /\ \A w \in Worker \ takers : /\ worker'[w].call = worker[w].call
                                  /\ process'[w].inbox = process[w].inbox
    /\ \A w \in Worker : /\ process'[w].st = process[w].st
                         /\ process'[w].run = process[w].run
                         /\ process'[w].last = process[w].last
                         /\ process'[w].loaded = process[w].loaded
                         /\ process'[w].out = process[w].out

\* None of the calls that a walk hands out was started or could be started before, so
\* what is known of the calls that processes hold stays true.
LEMMA HandedOut ==
    ASSUME TypeOK, TypeOK', CallsOK, NEW takers, NEW sent, NEW held, HandOut(takers, sent, held)
    PROVE  CallsOK'
<1> USE DEF HandOut
<1>1. RunsOK /\ InboxOK /\ SentOK /\ FramesOK /\ FreshCode
  BY Zenon DEF CallsOK
<1>2. \A c \in Call : call'[c].runs = call[c].runs /\ call'[c].frame = call[c].frame
                      /\ call'[c].asked = call[c].asked
  BY Zenon
<1>3. ASSUME NEW w \in Worker, NEW c \in Call
      PROVE  /\ MayRun(w, c)' => (w \in takers /\ c = held[w]) \/ (w \notin takers /\ MayRun(w, c))
             /\ worker'[w].call = c =>
                   (w \in takers /\ c = held[w]) \/ (w \notin takers /\ worker[w].call = c)
  BY Zenon DEF MayRun
<1>4. ASSUME NEW c \in sent, NEW w \in Worker, worker'[w].call = c \/ MayRun(w, c)'
      PROVE  w \in takers /\ c = held[w]
  <2>1. c \in Call /\ ~MayRun(w, c) /\ worker[w].call # c
    BY Zenon
  <2> QED BY <1>3, <1>4, <2>1, Zenon
<1>5. ASSUME NEW c \in Call \ sent, NEW w \in Worker, worker'[w].call = c \/ MayRun(w, c)'
      PROVE  /\ w \notin takers /\ (worker'[w].call = c => worker[w].call = c)
             /\ MayRun(w, c)' => MayRun(w, c)
  <2>1. w \in takers => held[w] \in sent
    BY Zenon
  <2>2. c \in Call /\ ~(w \in takers /\ c = held[w])
    BY <2>1, Zenon
  <2> QED BY <1>3, <1>5, <2>2, Zenon
<1>6. RunsOK'
  <2>1. ASSUME NEW c \in Call
        PROVE  /\ call'[c].runs <= 1
               /\ call'[c].st \in {"new", "queued"} => call'[c].runs = 0
               /\ call'[c].st \in {"done", "fallback"} => call'[c].runs = 1
               /\ call'[c].frame => call'[c].runs = 1
    <3>1. CASE c \in sent
      BY <3>1, <1>1, <1>2, ZenonT(30) DEF RunsOK
    <3>2. CASE c \notin sent
      <4>1. call'[c] = call[c]
        BY <3>2, Zenon
      <4> QED BY <4>1, <1>1, ZenonT(30) DEF RunsOK
    <3> QED BY <3>1, <3>2, Zenon
  <2> QED BY <2>1, Zenon DEF RunsOK
<1>7. InboxOK'
  <2>1. ASSUME NEW w \in Worker, NEW c \in Call, MayRun(w, c)'
        PROVE  /\ call'[c].runs = 0 /\ call'[c].st \in {"sent", "failed"}
               /\ worker'[w].call \in {None, c}
               /\ \A v \in Worker : MayRun(v, c)' => v = w
    <3>1. CASE c \in sent
      <4>1. w \in takers /\ c = held[w]
        BY <1>4, <2>1, <3>1, Zenon
      <4>2. ASSUME NEW v \in Worker, MayRun(v, c)' PROVE v = w
        <5>1. v \in takers /\ c = held[v]
          BY <1>4, <3>1, <4>2, ZenonT(30)
        <5>2. held[v] = held[w]
          BY <4>1, <5>1, Zenon
        <5>3. v \in takers /\ w \in takers
          BY <4>1, <5>1, Zenon
        <5> QED BY <5>2, <5>3, Zenon
      <4>3. /\ call'[c].runs = 0 /\ call'[c].st = "sent" /\ worker'[w].call = c
        BY <3>1, <4>1, ZenonT(30)
      <4> QED BY <4>2, <4>3, Zenon
    <3>2. CASE c \notin sent
      <4>1. /\ w \notin takers /\ MayRun(w, c)
            /\ call'[c] = call[c] /\ worker'[w].call = worker[w].call
        BY <1>5, <2>1, <3>2, Zenon
      <4>2. /\ call[c].runs = 0 /\ call[c].st \in {"sent", "failed"}
            /\ worker[w].call \in {None, c} /\ \A v \in Worker : MayRun(v, c) => v = w
        BY <4>1, <1>1, Zenon DEF InboxOK
      <4>3. \A v \in Worker : MayRun(v, c)' => MayRun(v, c)
        BY <1>5, <3>2, Zenon
      <4> QED BY <4>1, <4>2, <4>3, Zenon
    <3> QED BY <3>1, <3>2, Zenon
  <2> QED BY <2>1, Zenon DEF InboxOK, MayRun
<1>8. SentOK'
  <2>1. ASSUME NEW w \in Worker, NEW c \in Call, worker'[w].call = c
        PROVE  /\ call'[c].st = "sent"
               /\ call'[c].runs = 0 \/ process'[w].last = c
               /\ \A v \in Worker : worker'[v].call = c \/ MayRun(v, c)' => v = w
    <3>1. CASE c \in sent
      <4>1. w \in takers /\ c = held[w]
        BY <1>4, <2>1, <3>1, Zenon
      <4>2. ASSUME NEW v \in Worker, worker'[v].call = c \/ MayRun(v, c)' PROVE v = w
        <5>1. v \in takers /\ c = held[v]
          BY <1>4, <3>1, <4>2, ZenonT(30)
        <5>2. held[v] = held[w]
          BY <4>1, <5>1, Zenon
        <5>3. v \in takers /\ w \in takers
          BY <4>1, <5>1, Zenon
        <5> QED BY <5>2, <5>3, Zenon
      <4>3. /\ call'[c].runs = 0 /\ call'[c].st = "sent"
        BY <3>1, ZenonT(30)
      <4> QED BY <4>2, <4>3, Zenon
    <3>2. CASE c \notin sent
      <4>1. worker[w].call = c /\ call'[c] = call[c] /\ process'[w].last = process[w].last
        BY <1>5, <2>1, <3>2, Zenon
      <4>2. /\ call[c].st = "sent" /\ (call[c].runs = 0 \/ process[w].last = c)
            /\ \A v \in Worker : worker[v].call = c \/ MayRun(v, c) => v = w
        BY <4>1, <1>1, SMTT(30) DEF SentOK
      <4>3. \A v \in Worker :
                worker'[v].call = c \/ MayRun(v, c)' => worker[v].call = c \/ MayRun(v, c)
        BY <1>5, <3>2, Zenon
      <4> QED BY <4>1, <4>2, <4>3, Zenon
    <3> QED BY <3>1, <3>2, Zenon
  <2> QED BY <2>1, Zenon DEF SentOK, MayRun
<1>9. FramesOK'
  <2>1. ASSUME NEW w \in Worker
        PROVE  /\ process'[w].run # None => call'[process'[w].run].runs = 1
               /\ \A i \in 1..Len(process'[w].out) : FrameOK(w, process[w].out[i])'
    <3>1. /\ process[w].run \in Call \union {None} /\ process[w].out \in Seq(Frame)
      BY Zenon DEF TypeOK, ProcessRecord
    <3>2. process'[w].run # None => call'[process'[w].run].runs = 1
      <4>1. process[w].run # None => process[w].run \in Call /\ call[process[w].run].runs = 1
        BY <1>1, <3>1, Zenon DEF FramesOK
      <4> QED BY <4>1, <1>2, Zenon
    <3>3. ASSUME NEW i \in 1..Len(process'[w].out) PROVE FrameOK(w, process[w].out[i])'
      <4> DEFINE f == process[w].out[i]
      <4>1. i \in 1..Len(process[w].out) /\ process'[w].out[i] = f
        BY Zenon
      <4>2. f \in Frame /\ FrameOK(w, f)
        BY <1>1, <3>1, <4>1, SeqElement, Zenon DEF FramesOK
      <4> HIDE DEF f
      <4>3. f.type = "result" => f.id \in Call
        BY <4>2, Zenon DEF Frame
      <4>4. /\ f.type = "result" => call'[f.id].runs = 1
            /\ f.type = "exiting" =>
                  process'[w].st \in {"exiting", "dead"} /\ f.last = process'[w].last
        BY <1>2, <4>2, <4>3, Zenon DEF FrameOK
      <4> QED BY <4>1, <4>4, Zenon DEF FrameOK
    <3> QED BY <3>2, <3>3, Zenon
  <2> QED BY <2>1, Zenon DEF FramesOK, FrameOK
<1>10. FreshCode'
  <2>1. ASSUME NEW w \in Worker, worker'[w].call # None
        PROVE  process'[w].loaded >= call'[worker'[w].call].asked
    <3>1. CASE w \in takers
      <4>1. held[w] \in Call /\ worker'[w].call = held[w]
        BY <3>1, Zenon
      <4>2. /\ process'[w].loaded = process[w].loaded
            /\ process[w].loaded >= call[held[w]].asked
            /\ call'[held[w]].asked = call[held[w]].asked
        BY <3>1, <4>1, <1>2, Zenon
      <4> QED BY <4>1, <4>2, Zenon
    <3>2. CASE w \notin takers
      <4>1. worker'[w].call = worker[w].call /\ worker[w].call \in Call
        BY <2>1, <3>2, SMTT(30) DEF TypeOK, WorkerRecord
      <4>2. process[w].loaded >= call[worker[w].call].asked
        BY <1>1, <2>1, <4>1, Zenon DEF FreshCode
      <4>3. /\ process'[w].loaded = process[w].loaded
            /\ call'[worker[w].call].asked = call[worker[w].call].asked
        BY <4>1, <1>2, Zenon
      <4> QED BY <4>1, <4>2, <4>3, Zenon
    <3> QED BY <3>1, <3>2, Zenon
  <2> QED BY <2>1, Zenon DEF FreshCode
<1> QED BY <1>6, <1>7, <1>8, <1>9, <1>10, Zenon DEF CallsOK

\* The slots after completeWalk: an idle worker that was spawned for this version gets
\* a call, the other idle workers are retired, free slots may be filled, and nothing
\* else changes.
WalkSlot(w, version, old, takers, held, spawned) ==
    /\ process'[w].st = process[w].st /\ process'[w].run = process[w].run
    /\ process'[w].last = process[w].last /\ process'[w].loaded = process[w].loaded
    /\ process'[w].out = process[w].out /\ process'[w].mark = process[w].mark
    /\ w \in takers => /\ worker[w].st = "idle" /\ worker[w].ident = version
                       /\ worker'[w].st = "busy" /\ worker'[w].ident = version
                       /\ worker'[w].call = held[w] /\ process'[w].inbox = held[w]
    /\ w \in spawned => /\ worker[w] = NoWorker /\ process'[w] = process[w]
                        /\ process[w] = NoProcess /\ worker'[w].st = "starting"
                        /\ worker'[w].ident = version /\ worker'[w].call = None
    /\ w \notin takers => process'[w].inbox = process[w].inbox
    /\ w \notin takers \union spawned =>
          /\ worker'[w].call = worker[w].call /\ worker'[w].ident = worker[w].ident
          /\ \/ worker'[w] = worker[w] /\ process'[w] = process[w]
             \/ worker[w].st = "idle" /\ worker'[w].st = "retiring"

\* What completeWalk does to workers and processes.
WalkUpdate(version, old, kept, takers, held, spawned) ==
    /\ old = Outdated(version) /\ kept = Retired(worker, old)
    /\ takers \subseteq In(kept, "idle")
    /\ spawned \subseteq {w \in Worker : worker[w] = NoWorker /\ process[w] = NoProcess}
    /\ worker' = [w \in Worker |->
          IF w \in spawned THEN [NoWorker EXCEPT !.st = "starting", !.ident = version]
          ELSE IF w \in takers THEN [kept[w] EXCEPT !.st = "busy", !.call = held[w]]
          ELSE kept[w]]
    /\ process' = [w \in Worker |-> IF w \in takers THEN [process[w] EXCEPT !.inbox = held[w]]
                                     ELSE Killed(process, old)[w]]

\* Every slot then is as WalkSlot says.
LEMMA WalkSlots ==
    ASSUME worker \in [Worker -> WorkerRecord], process \in [Worker -> ProcessRecord],
           NEW version \in Version, NEW old, NEW kept, NEW takers, NEW spawned,
           NEW held \in [takers -> Call],
           WalkUpdate(version, old, kept, takers, held, spawned)
    PROVE  /\ worker' \in [Worker -> WorkerRecord] /\ process' \in [Worker -> ProcessRecord]
           /\ takers \subseteq Worker
           /\ \A w \in Worker : WalkSlot(w, version, old, takers, held, spawned)
<1> USE DEF WalkUpdate
<1>1. /\ old \subseteq Worker
      /\ \A w \in Worker : w \in old <=> worker[w].st = "idle" /\ worker[w].ident # version
  BY Zenon DEF Outdated, In
<1>2. /\ kept \in [Worker -> WorkerRecord]
      /\ \A w \in Worker \ old : kept[w] = worker[w]
      /\ \A w \in old : /\ kept[w].call = worker[w].call /\ kept[w].ident = worker[w].ident
                        /\ kept[w].st = "retiring"
  <2>1. old \in SUBSET Worker
    BY <1>1, Zenon
  <2>2. \A w \in old : kept[w].st
                         = IF worker[w].st = "starting" THEN "starting-retiring" ELSE "retiring"
    BY <2>1, RetiredIs, Zenon
  <2>3. \A w \in old : worker[w].st # "starting"
    BY <1>1, Zenon
  <2> QED BY <2>1, <2>2, <2>3, RetiredIs, Zenon
<1>3. /\ takers \subseteq Worker
      /\ \A w \in takers : w \notin old /\ kept[w] = worker[w] /\ worker[w].st = "idle"
                           /\ worker[w].ident = version
  <2>1. takers \subseteq Worker /\ \A w \in takers : kept[w].st = "idle"
    BY Zenon DEF In
  <2>2. \A w \in takers : w \notin old
    BY <1>2, <2>1, Zenon
  <2>3. \A w \in takers : kept[w] = worker[w]
    BY <1>2, <2>1, <2>2, Zenon
  <2>4. \A w \in takers : worker[w].st = "idle"
    BY <2>1, <2>3, Zenon
  <2>5. \A w \in takers : worker[w].ident = version
    BY <1>1, <2>1, <2>2, <2>4, Zenon
  <2> QED BY <2>1, <2>2, <2>3, <2>4, <2>5, Zenon
<1>4. /\ spawned \subseteq Worker
      /\ \A w \in spawned : /\ worker[w] = NoWorker /\ process[w] = NoProcess
                            /\ w \notin takers /\ w \notin old
  <2>1. /\ spawned \subseteq Worker
        /\ \A w \in spawned : worker[w] = NoWorker /\ process[w] = NoProcess
    BY Zenon
  <2>2. \A w \in spawned : worker[w].st # "idle"
    <3>1. NoWorker.st # "idle"
      BY Zenon DEF NoWorker
    <3> QED BY <2>1, <3>1, Zenon
  <2> QED BY <2>1, <2>2, <1>1, <1>3, Zenon
<1>5. /\ Killed(process, old) \in [Worker -> ProcessRecord]
      /\ \A w \in Worker \ old : Killed(process, old)[w] = process[w]
      /\ \A w \in Worker :
            /\ Killed(process, old)[w].st = process[w].st
            /\ Killed(process, old)[w].loaded = process[w].loaded
            /\ Killed(process, old)[w].inbox = process[w].inbox
            /\ Killed(process, old)[w].run = process[w].run
            /\ Killed(process, old)[w].last = process[w].last
            /\ Killed(process, old)[w].out = process[w].out
            /\ Killed(process, old)[w].mark = process[w].mark
  <2>1. old \in SUBSET Worker
    BY <1>1, Zenon
  <2> QED BY <2>1, KilledIs, Zenon
<1>6. \A w \in Worker :
          /\ w \in spawned => worker'[w] = [NoWorker EXCEPT !.st = "starting", !.ident = version]
          /\ w \notin spawned /\ w \in takers =>
                worker'[w] = [kept[w] EXCEPT !.st = "busy", !.call = held[w]]
          /\ w \notin spawned /\ w \notin takers => worker'[w] = kept[w]
          /\ w \in takers => process'[w] = [process[w] EXCEPT !.inbox = held[w]]
          /\ w \notin takers => process'[w] = Killed(process, old)[w]
  BY Zenon
<1>7. worker' = [w \in Worker |-> worker'[w]] /\ process' = [w \in Worker |-> process'[w]]
  BY Zenon
<1>8. ASSUME NEW w \in spawned
      PROVE  /\ worker'[w] \in WorkerRecord /\ worker'[w].st = "starting"
             /\ worker'[w].ident = version /\ worker'[w].call = None
             /\ process'[w] = process[w]
  <2>1. /\ worker'[w] = [NoWorker EXCEPT !.st = "starting", !.ident = version]
        /\ process'[w] = process[w]
    BY <1>4, <1>5, <1>6, Zenon
  <2> QED BY <2>1, Zenon DEF NoWorker, WorkerRecord
<1>9. ASSUME NEW w \in takers
      PROVE  /\ worker'[w] \in WorkerRecord /\ worker'[w].st = "busy"
             /\ worker'[w].ident = version /\ worker'[w].call = held[w]
             /\ process'[w] \in ProcessRecord /\ process'[w].inbox = held[w]
             /\ process'[w].st = process[w].st /\ process'[w].run = process[w].run
             /\ process'[w].last = process[w].last /\ process'[w].loaded = process[w].loaded
             /\ process'[w].out = process[w].out /\ process'[w].mark = process[w].mark
  <2>1. /\ worker'[w] = [worker[w] EXCEPT !.st = "busy", !.call = held[w]]
        /\ process'[w] = [process[w] EXCEPT !.inbox = held[w]] /\ w \in Worker
        /\ worker[w].ident = version
    BY <1>3, <1>4, <1>6, Zenon
  <2>2. held[w] \in Call /\ worker[w] \in WorkerRecord /\ process[w] \in ProcessRecord
    BY <1>3, Zenon
  <2>3. /\ worker'[w] \in WorkerRecord /\ worker'[w].st = "busy"
        /\ worker'[w].ident = version /\ worker'[w].call = held[w]
    BY <2>1, <2>2, ZenonT(30) DEF WorkerRecord
  <2>4. /\ process'[w] \in ProcessRecord /\ process'[w].inbox = held[w]
        /\ process'[w].st = process[w].st /\ process'[w].run = process[w].run
        /\ process'[w].last = process[w].last /\ process'[w].loaded = process[w].loaded
        /\ process'[w].out = process[w].out /\ process'[w].mark = process[w].mark
    BY <2>1, <2>2, Zenon DEF ProcessRecord
  <2> QED BY <2>3, <2>4, Zenon
<1>10. ASSUME NEW w \in Worker, w \notin takers, w \notin spawned
       PROVE  /\ worker'[w] = kept[w] /\ process'[w] = Killed(process, old)[w]
              /\ w \notin old => worker'[w] = worker[w] /\ process'[w] = process[w]
              /\ w \in old => worker'[w].st = "retiring" /\ worker[w].st = "idle"
              /\ worker'[w].call = worker[w].call /\ worker'[w].ident = worker[w].ident
  <2>1. worker'[w] = kept[w] /\ process'[w] = Killed(process, old)[w]
    BY <1>6, <1>10, Zenon
  <2>2. CASE w \in old
    <3>1. /\ kept[w].call = worker[w].call /\ kept[w].ident = worker[w].ident
          /\ kept[w].st = "retiring"
      BY <2>2, <1>2, Zenon
    <3>2. worker[w].st = "idle"
      BY <2>2, <1>1, Zenon
    <3> QED BY <2>1, <2>2, <3>1, <3>2, ZenonT(30)
  <2>3. CASE w \notin old
    <3>1. kept[w] = worker[w] /\ Killed(process, old)[w] = process[w]
      BY <2>3, <1>2, <1>5, Zenon
    <3> QED BY <2>1, <2>3, <3>1, Zenon
  <2> QED BY <2>1, <2>2, <2>3, Zenon
<1>11. worker' \in [Worker -> WorkerRecord] /\ process' \in [Worker -> ProcessRecord]
  <2>1. ASSUME NEW w \in Worker PROVE worker'[w] \in WorkerRecord /\ process'[w] \in ProcessRecord
    <3>1. worker[w] \in WorkerRecord /\ process[w] \in ProcessRecord /\ kept[w] \in WorkerRecord
          /\ Killed(process, old)[w] \in ProcessRecord
      BY <1>2, <1>5, Zenon
    <3>2. CASE w \in spawned
      BY <3>1, <3>2, <1>8, Zenon
    <3>3. CASE w \in takers
      BY <3>3, <1>9, Zenon
    <3>4. CASE w \notin takers /\ w \notin spawned
      BY <3>1, <3>4, <1>10, Zenon
    <3> QED BY <3>2, <3>3, <3>4, Zenon
  <2> QED BY <1>7, <2>1, Zenon
<1>12. ASSUME NEW w \in Worker PROVE WalkSlot(w, version, old, takers, held, spawned)
  <2>1. CASE w \in takers
    BY <2>1, <1>3, <1>4, <1>9, Zenon DEF WalkSlot
  <2>2. CASE w \in spawned
    BY <2>2, <1>4, <1>8, Zenon DEF WalkSlot
  <2>3. CASE w \notin takers /\ w \notin spawned
    <3>1. /\ process'[w].st = process[w].st /\ process'[w].run = process[w].run
          /\ process'[w].last = process[w].last /\ process'[w].loaded = process[w].loaded
          /\ process'[w].out = process[w].out /\ process'[w].mark = process[w].mark
          /\ process'[w].inbox = process[w].inbox
      BY <2>3, <1>5, <1>10, Zenon
    <3> QED BY <2>3, <3>1, <1>10, Zenon DEF WalkSlot
  <2> QED BY <2>1, <2>2, <2>3, Zenon
<1> QED BY <1>3, <1>11, <1>12, Zenon

\* completeWalk spawns no more workers than size allows.
LEMMA SizeKept ==
    ASSUME WorkersOK, NEW ws, NEW spawned \in SUBSET Worker, NEW wanted \in Int,
           wanted <= Size - Cardinality(Workers(worker)),
           Cardinality(spawned) = IF wanted > 0 THEN wanted ELSE 0,
           \A w \in Worker : ws[w].st # "none" => worker[w].st # "none" \/ w \in spawned
    PROVE  Cardinality(Workers(ws)) <= Size
<1>1. /\ Workers(worker) \in SUBSET Worker /\ Workers(ws) \in SUBSET Worker
      /\ Workers(ws) \in SUBSET (Workers(worker) \union spawned)
  BY Zenon DEF Workers
<1>2. /\ IsFiniteSet(Workers(worker)) /\ IsFiniteSet(Workers(ws)) /\ IsFiniteSet(spawned)
      /\ IsFiniteSet(Workers(worker) \intersect spawned)
  <2>1. Workers(worker) \intersect spawned \in SUBSET Worker
    BY Zenon
  <2> QED BY <1>1, <2>1, WorkerAssumption, FS_Subset, Zenon
<1>3. /\ Cardinality(Workers(worker)) \in Nat /\ Cardinality(Workers(ws)) \in Nat
      /\ Cardinality(spawned) \in Nat /\ Cardinality(Workers(worker) \intersect spawned) \in Nat
  BY <1>2, FS_CardinalityType, Zenon
<1>4. /\ IsFiniteSet(Workers(worker) \union spawned)
      /\ Cardinality(Workers(worker) \union spawned)
           = Cardinality(Workers(worker)) + Cardinality(spawned)
               - Cardinality(Workers(worker) \intersect spawned)
  BY <1>2, FS_Union, Zenon
<1>5. Cardinality(Workers(ws)) <= Cardinality(Workers(worker) \union spawned)
  BY <1>1, <1>4, FS_Subset, Zenon
<1>6. Cardinality(Workers(worker)) <= Size
  BY Zenon DEF WorkersOK
<1> DEFINE a == Cardinality(Workers(worker))
           b == Cardinality(spawned)
           u == Cardinality(Workers(worker) \union spawned)
           x == Cardinality(Workers(worker) \intersect spawned)
           r == Cardinality(Workers(ws))
<1>7. /\ a \in Nat /\ b \in Nat /\ x \in Nat /\ r \in Nat /\ u = a + b - x /\ r <= u /\ a <= Size
      /\ wanted <= Size - a /\ b = IF wanted > 0 THEN wanted ELSE 0
  BY <1>3, <1>4, <1>5, <1>6, Zenon
<1> HIDE DEF a, b, u, x, r
<1>8. r <= Size
  BY <1>7, SizeAssumption, SMTT(30)
<1> QED BY <1>8, Zenon DEF r

\* The workers of completeWalk before it spawns.
BusySlots(version, old, kept, takers, held, busy) ==
    /\ old = Outdated(version) /\ kept = Retired(worker, old)
    /\ takers \subseteq In(kept, "idle")
    /\ busy = [w \in Worker |-> IF w \in takers
                                THEN [kept[w] EXCEPT !.st = "busy", !.call = held[w]]
                                ELSE kept[w]]

\* A busy or retired worker still counts.
LEMMA BusyWorkers ==
    ASSUME worker \in [Worker -> WorkerRecord], NEW version, NEW old, NEW kept, NEW takers,
           NEW held, NEW busy, BusySlots(version, old, kept, takers, held, busy)
    PROVE  Workers(busy) = Workers(worker)
<1>1. old \in SUBSET Worker /\ \A w \in old : worker[w].st = "idle"
  BY Zenon DEF BusySlots, Outdated, In
<1>2. /\ kept \in [Worker -> WorkerRecord] /\ \A w \in Worker \ old : kept[w] = worker[w]
      /\ \A w \in old : kept[w].st
                          = IF worker[w].st = "starting" THEN "starting-retiring" ELSE "retiring"
  <2>1. kept = Retired(worker, old)
    BY Zenon DEF BusySlots
  <2>2. \A w \in old : Retired(worker, old)[w].st
                         = IF worker[w].st = "starting" THEN "starting-retiring" ELSE "retiring"
    BY <1>1, RetiredIs, SMTT(30)
  <2>3. /\ Retired(worker, old) \in [Worker -> WorkerRecord]
        /\ \A w \in Worker \ old : Retired(worker, old)[w] = worker[w]
    BY <1>1, RetiredIs, Zenon
  <2> QED BY <2>1, <2>2, <2>3, Zenon
<1>3. takers \subseteq Worker /\ \A w \in takers : kept[w].st = "idle"
  BY Zenon DEF BusySlots, In
<1>4. \A w \in Worker : kept[w].st # "none" <=> worker[w].st # "none"
  BY <1>1, <1>2, Zenon
<1>5. ASSUME NEW w \in Worker PROVE busy[w].st # "none" <=> kept[w].st # "none"
  <2>1. CASE w \in takers
    <3>1. busy[w] = [kept[w] EXCEPT !.st = "busy", !.call = held[w]]
      BY <2>1, Zenon DEF BusySlots
    <3>2. kept[w] \in WorkerRecord
      BY <1>2, Zenon
    <3>3. busy[w].st = "busy"
      BY <3>1, <3>2, Zenon DEF WorkerRecord
    <3> QED BY <2>1, <3>3, <1>3, Zenon
  <2>2. CASE w \notin takers
    BY <2>2, Zenon DEF BusySlots
  <2> QED BY <2>1, <2>2, Zenon
<1> QED BY <1>4, <1>5, Zenon DEF Workers

\* The queue after completeWalk: what is left are the calls it did not hand out.
LEMMA RestKeeps ==
    ASSUME PInv, NEW n \in 0..Len(queue), NEW rest, rest = SubSeq(queue, n + 1, Len(queue))
    PROVE  /\ rest \in Seq(Call)
           /\ \A i \in 1..Len(rest) : /\ rest[i] \in Call /\ call[rest[i]].st = "queued"
                                      /\ rest[i] \notin {queue[j] : j \in 1..n}
           /\ \A i, j \in 1..Len(rest) : rest[i] = rest[j] => i = j
<1>1. queue \in Seq(Call) /\ QueueOK
  BY Zenon DEF PInv, TypeOK
<1>2. /\ Len(queue) \in Nat /\ n \in Nat /\ n <= Len(queue)
      /\ \A i \in 1..Len(queue) : queue[i] \in Call
  BY <1>1, SeqLen, SeqElement, SMTT(30)
<1>3. /\ rest \in Seq(Call) /\ Len(rest) = Len(queue) - n
      /\ \A i \in 1..Len(rest) : n + i \in 1..Len(queue) /\ rest[i] = queue[n + i]
  <2>1. n + 1 \in 1..(Len(queue) + 1) /\ Len(queue) \in 0..Len(queue)
    BY <1>2, SMTT(30)
  <2>2. /\ rest \in Seq(Call)
        /\ Len(rest) = IF n + 1 <= Len(queue) THEN Len(queue) - (n + 1) + 1 ELSE 0
        /\ \A i \in 1..(Len(queue) - (n + 1) + 1) : rest[i] = queue[(n + 1) + i - 1]
    BY <1>1, <2>1, SeqSub, Zenon
  <2>3. Len(rest) = Len(queue) - n
    BY <1>2, <2>2, SMTT(30)
  <2>4. ASSUME NEW i \in 1..Len(rest) PROVE n + i \in 1..Len(queue) /\ rest[i] = queue[n + i]
    <3>1. /\ i \in 1..(Len(queue) - (n + 1) + 1) /\ (n + 1) + i - 1 = n + i
          /\ n + i \in 1..Len(queue)
      BY <1>2, <2>3, SMTT(30)
    <3> QED BY <2>2, <3>1, Zenon
  <2> QED BY <2>2, <2>3, <2>4, Zenon
<1>4. ASSUME NEW i \in 1..Len(rest)
      PROVE  /\ rest[i] \in Call /\ call[rest[i]].st = "queued"
             /\ rest[i] \notin {queue[j] : j \in 1..n}
  <2> DEFINE k == n + i
  <2>1. k \in 1..Len(queue) /\ rest[i] = queue[k] /\ k > n
    BY <1>2, <1>3, SMTT(30)
  <2> HIDE DEF k
  <2>2. \A j \in 1..n : j \in 1..Len(queue) /\ j # k
    BY <1>2, <2>1, SMTT(30)
  <2>3. \A j \in 1..n : queue[j] # queue[k]
    BY <1>1, <2>1, <2>2, Zenon DEF QueueOK
  <2>4. rest[i] \in Call /\ call[rest[i]].st = "queued"
    BY <1>1, <1>2, <2>1, Zenon DEF QueueOK
  <2>5. rest[i] \notin {queue[j] : j \in 1..n}
    BY <2>1, <2>3, Zenon
  <2> QED BY <2>4, <2>5, SMTT(30)
<1>5. ASSUME NEW i \in 1..Len(rest), NEW j \in 1..Len(rest), rest[i] = rest[j]
      PROVE  i = j
  <2> DEFINE k == n + i
             m == n + j
  <2>1. /\ k \in 1..Len(queue) /\ m \in 1..Len(queue) /\ rest[i] = queue[k] /\ rest[j] = queue[m]
    BY <1>3, Zenon
  <2>2. k = m => i = j
    BY <1>2, <1>3, SMTT(30)
  <2> HIDE DEF k, m
  <2> QED BY <1>1, <1>5, <2>1, <2>2, Zenon DEF QueueOK
<1> QED BY <1>3, <1>4, <1>5, Zenon

\* completeWalk: every call that is handed out is older than the walk, so the worker it
\* goes to, which was spawned for the walk's version, loaded code that is new enough.
LEMMA WalkDoneKeeps == ASSUME PInv, WalkDone PROVE PInv'
<1>1. /\ TypeOK /\ WorkersOK /\ QueueOK /\ CodeOK /\ CallsOK /\ walk.on
      /\ worker \in [Worker -> WorkerRecord] /\ process \in [Worker -> ProcessRecord]
      /\ call \in [Call -> CallRecord] /\ code \in Version
  BY Zenon DEF PInv, TypeOK, WalkDone
<1>2. shut = "no"
  BY <1>1, Zenon DEF WorkersOK
<1>3. deaths' = deaths /\ degraded' = degraded /\ shut' = shut /\ code' = code /\ faults' = faults
  BY Zenon DEF WalkDone, env
<1>4. PICK version \in walk.from..code : CompleteWalk(version)
  BY Zenon DEF WalkDone
<1>5. /\ walk.from \in Nat /\ code \in Nat /\ version \in Version /\ version <= code
      /\ walk.from <= version
  BY <1>1, BoundAssumption, SMTT(30) DEF TypeOK, Version
<1> DEFINE old == Outdated(version)
           kept == Retired(worker, old)
           n == Least(Cardinality(Eligible), Cardinality(In(kept, "idle")))
           sent == {queue[i] : i \in 1..n}
           rest == SubSeq(queue, n + 1, Len(queue))
<1>6. PICK takes \in [sent -> In(kept, "idle")] :
        LET takers == {takes[c] : c \in sent}
            Taken(w) == CHOOSE c \in sent : takes[c] = w
            busy == [w \in Worker |-> IF w \in takers
                                      THEN [kept[w] EXCEPT !.st = "busy", !.call = Taken(w)]
                                      ELSE kept[w]]
            wanted == Least(Len(rest) - Cardinality(In(busy, "starting")),
                            Size - Cardinality(Workers(busy)))
        IN  /\ \E spawned \in SUBSET
                     {w \in Worker : worker[w] = NoWorker /\ process[w] = NoProcess} :
                  /\ Cardinality(spawned) = IF wanted > 0 THEN wanted ELSE 0
                  /\ worker' = [w \in Worker |->
                        IF w \in spawned
                        THEN [NoWorker EXCEPT !.st = "starting", !.ident = version]
                        ELSE busy[w]]
            /\ process' = [w \in Worker |->
                  IF w \in takers THEN [process[w] EXCEPT !.inbox = Taken(w)]
                  ELSE Killed(process, old)[w]]
            /\ call' = [c \in Call |-> IF c \in sent THEN [call[c] EXCEPT !.st = "sent"]
                                       ELSE call[c]]
            /\ queue' = rest /\ failing' = FALSE
            /\ Pump(rest, worker', FALSE, FALSE)
  BY <1>4, Zenon DEF CompleteWalk
<1> DEFINE takers == {takes[c] : c \in sent}
           held == [w \in takers |-> CHOOSE c \in sent : takes[c] = w]
           busy == [w \in Worker |-> IF w \in takers
                                     THEN [kept[w] EXCEPT !.st = "busy", !.call = held[w]]
                                     ELSE kept[w]]
           wanted == Least(Len(rest) - Cardinality(In(busy, "starting")),
                           Size - Cardinality(Workers(busy)))
           free == {w \in Worker : worker[w] = NoWorker /\ process[w] = NoProcess}
<1>7. busy = [w \in Worker |-> IF w \in takers
                  THEN [kept[w] EXCEPT !.st = "busy", !.call = CHOOSE c \in sent : takes[c] = w]
                  ELSE kept[w]]
  BY Zenon
<1>8. PICK spawned \in SUBSET free :
          /\ Cardinality(spawned) = IF wanted > 0 THEN wanted ELSE 0
          /\ worker' = [w \in Worker |->
                IF w \in spawned THEN [NoWorker EXCEPT !.st = "starting", !.ident = version]
                ELSE busy[w]]
  BY <1>6, <1>7, Zenon
<1>9. /\ process' = [w \in Worker |-> IF w \in takers THEN [process[w] EXCEPT !.inbox = held[w]]
                                      ELSE Killed(process, old)[w]]
      /\ call' = [c \in Call |-> IF c \in sent THEN [call[c] EXCEPT !.st = "sent"] ELSE call[c]]
      /\ queue' = rest /\ failing' = FALSE /\ Pump(rest, worker', FALSE, FALSE)
  <2>1. /\ process' = [w \in Worker |->
              IF w \in takers THEN [process[w] EXCEPT !.inbox = CHOOSE c \in sent : takes[c] = w]
              ELSE Killed(process, old)[w]]
        /\ call' = [c \in Call |-> IF c \in sent THEN [call[c] EXCEPT !.st = "sent"] ELSE call[c]]
        /\ queue' = rest /\ failing' = FALSE /\ Pump(rest, worker', FALSE, FALSE)
    BY <1>6, Zenon
  <2>2. [w \in Worker |->
              IF w \in takers THEN [process[w] EXCEPT !.inbox = CHOOSE c \in sent : takes[c] = w]
              ELSE Killed(process, old)[w]]
          = [w \in Worker |-> IF w \in takers THEN [process[w] EXCEPT !.inbox = held[w]]
                              ELSE Killed(process, old)[w]]
    BY Zenon
  <2> QED BY <2>1, <2>2, Zenon
<1>10. /\ In(kept, "idle") \in SUBSET Worker /\ takers \subseteq In(kept, "idle")
       /\ free \subseteq Worker
  BY Zenon DEF In
<1>11. held \in [takers -> sent] /\ \A v, w \in takers : held[v] = held[w] => v = w
  <2>1. ASSUME NEW w \in takers PROVE held[w] \in sent /\ takes[held[w]] = w
    <3>1. \E c \in sent : takes[c] = w
      BY Zenon
    <3>2. held[w] = CHOOSE c \in sent : takes[c] = w
      BY Zenon
    <3> QED BY <3>1, <3>2, Zenon
  <2>2. held = [w \in takers |-> held[w]]
    BY Zenon
  <2> HIDE DEF held
  <2>3. held \in [takers -> sent]
    BY <2>1, <2>2, Zenon
  <2> QED BY <2>1, <2>3, Zenon
<1>12. n \in 0..Len(queue) /\ \A i \in 1..n : i \in 1..Cardinality(Eligible)
  <2>1. Cardinality(In(kept, "idle")) \in Nat
    BY <1>10, WorkerAssumption, FS_Subset, FS_CardinalityType, Zenon
  <2>2. /\ Cardinality(Eligible) \in Nat /\ Cardinality(Eligible) <= Len(queue)
        /\ Len(queue) \in Nat
    BY EligibleFirst, Zenon
  <2>3. n \in Nat /\ n <= Cardinality(Eligible)
    BY <2>1, <2>2, SMTT(30) DEF Least
  <2> HIDE DEF n
  <2> QED BY <2>2, <2>3, SMTT(30)
<1> HIDE DEF n
<1>13. ASSUME NEW c \in sent
       PROVE  /\ c \in Call /\ call[c].st = "queued" /\ call[c].runs = 0
              /\ call[c].asked <= walk.from
              /\ \A w \in Worker : worker[w].call # c /\ ~MayRun(w, c)
  <2>1. PICK i \in 1..n : c = queue[i]
    BY Zenon
  <2>2. i \in 1..Len(queue) /\ queue[i] \notin late
    BY <1>12, EligibleFirst, Zenon
  <2>3. /\ c \in Call /\ call[c].st = "queued" /\ call[c].runs = 0
        /\ \A w \in Worker : worker[w].call # c /\ ~MayRun(w, c)
    BY <2>1, <2>2, QueuedRuns, Zenon
  <2>4. call[c].asked <= walk.from
    BY <1>1, <2>1, <2>2, <2>3, Zenon DEF CodeOK
  <2> QED BY <2>3, <2>4, Zenon
<1>14. /\ rest \in Seq(Call)
       /\ \A i \in 1..Len(rest) : /\ rest[i] \in Call /\ call[rest[i]].st = "queued"
                                  /\ rest[i] \notin sent
       /\ \A i, j \in 1..Len(rest) : rest[i] = rest[j] => i = j
  BY <1>12, RestKeeps, Zenon
<1>15. worker' = [w \in Worker |->
              IF w \in spawned THEN [NoWorker EXCEPT !.st = "starting", !.ident = version]
              ELSE IF w \in takers THEN [kept[w] EXCEPT !.st = "busy", !.call = held[w]]
              ELSE kept[w]]
  BY <1>8, Zenon
<1>16. Workers(busy) = Workers(worker)
  <2>1. BusySlots(version, old, kept, takers, held, busy)
    BY <1>10, Zenon DEF BusySlots
  <2> HIDE DEF old, kept, busy, takers, held
  <2> QED BY <1>1, <2>1, BusyWorkers, Zenon
<1>17. sent \in SUBSET Call
  BY <1>13, Zenon
<1> HIDE DEF busy, held, takers, sent, rest
<1>18. /\ worker' \in [Worker -> WorkerRecord] /\ process' \in [Worker -> ProcessRecord]
       /\ takers \subseteq Worker
       /\ \A w \in Worker : WalkSlot(w, version, old, takers, held, spawned)
  <2>1. WalkUpdate(version, old, kept, takers, held, spawned)
    BY <1>8, <1>9, <1>10, <1>15, Zenon DEF WalkUpdate
  <2>2. held \in [takers -> Call]
    BY <1>11, <1>17, Zenon
  <2> HIDE DEF old, kept
  <2> QED BY <1>1, <1>5, <2>1, <2>2, WalkSlots, Zenon
<1>19. /\ wanted \in Int /\ wanted <= Size - Cardinality(Workers(worker))
  <2>1. In(busy, "starting") \in SUBSET Worker /\ Workers(worker) \in SUBSET Worker
    BY Zenon DEF In, Workers
  <2>2. Cardinality(In(busy, "starting")) \in Nat /\ Cardinality(Workers(worker)) \in Nat
    BY <2>1, WorkerAssumption, FS_Subset, FS_CardinalityType, Zenon
  <2>3. Len(rest) \in Nat
    BY <1>14, SeqLen, Zenon
  <2> QED BY <1>16, <2>2, <2>3, SizeAssumption, SMTT(30) DEF Least
<1> HIDE DEF wanted, kept, old
<1>20. /\ call' \in [Call -> CallRecord]
       /\ \A c \in sent : /\ call'[c].st = "sent" /\ call'[c].runs = call[c].runs
                          /\ call'[c].asked = call[c].asked /\ call'[c].frame = call[c].frame
       /\ \A c \in Call \ sent : call'[c] = call[c]
  BY <1>1, <1>9, <1>17, ZenonT(30) DEF CallRecord
<1>21. /\ walk' \in [on : BOOLEAN, from : Version] /\ late' = {}
       /\ \/ walk' = NoWalk
          \/ walk' = [on |-> TRUE, from |-> code]
       /\ rest # <<>> /\ ~walk'.on => In(worker', "idle") = {} /\ Workers(worker') # {}
  <2>1. ASSUME NEW ws \in [Worker -> WorkerRecord], Pump(rest, ws, FALSE, FALSE)
        PROVE  /\ walk' \in [on : BOOLEAN, from : Version] /\ late' = {}
               /\ \/ walk' = NoWalk
                  \/ walk' = [on |-> TRUE, from |-> code]
               /\ rest # <<>> /\ ~walk'.on => In(ws, "idle") = {} /\ Workers(ws) # {}
    BY <2>1, <1>1, <1>2, <1>14, FreePump, Zenon
  <2> QED BY <2>1, <1>9, <1>18, Zenon
<1>22. TypeOK'
  <2>1. failing' \in BOOLEAN /\ late' \subseteq Call /\ queue' \in Seq(Call)
    BY <1>9, <1>14, <1>21, Zenon
  <2> QED BY <1>1, <1>3, <1>18, <1>20, <1>21, <2>1, Zenon DEF TypeOK
<1>23. ASSUME NEW w \in Worker
       PROVE  /\ worker[w].st = "idle" => process[w].st # "none"
              /\ w \in takers => worker[w].st = "idle" /\ process'[w].st # "none"
  <2>1. WorkerOK(w) /\ WalkSlot(w, version, old, takers, held, spawned)
    BY <1>1, <1>18, Zenon DEF WorkersOK
  <2>2. worker[w].st = "idle" => process[w].st # "none"
    BY <2>1, Zenon DEF WorkerOK
  <2> QED BY <2>1, <2>2, Zenon DEF WalkSlot
<1>24. WorkersOK'
  <2>1. ASSUME NEW w \in Worker PROVE WorkerOK(w)'
    <3>1. WorkerOK(w) /\ WalkSlot(w, version, old, takers, held, spawned)
      BY <1>1, <1>18, Zenon DEF WorkersOK
    <3>2. shut' = "no"
      BY <1>2, <1>3, Zenon
    <3>3. CASE w \in takers
      <4>1. worker'[w].st = "busy" /\ process'[w].st # "none"
        BY <3>1, <3>3, <1>23, Zenon DEF WalkSlot
      <4> QED BY <3>2, <4>1, Zenon DEF WorkerOK
    <3>4. CASE w \in spawned
      <4>1. worker'[w].st = "starting" /\ worker'[w].call = None /\ process'[w] = NoProcess
        BY <3>1, <3>4, Zenon DEF WalkSlot
      <4> QED BY <3>2, <4>1, SMTT(30) DEF WorkerOK, NoProcess
    <3>5. CASE w \notin takers \union spawned /\ worker'[w] = worker[w] /\ process'[w] = process[w]
      BY <3>1, <3>5, <1>3, Zenon DEF WorkerOK
    <3>6. CASE worker[w].st = "idle" /\ worker'[w].st = "retiring"
      <4>1. process'[w].st # "none"
        BY <3>1, <3>6, <1>23, Zenon DEF WalkSlot
      <4> QED BY <3>2, <3>6, <4>1, Zenon DEF WorkerOK
    <3> QED BY <3>1, <3>3, <3>4, <3>5, <3>6, Zenon DEF WalkSlot
  <2>2. Cardinality(Workers(worker')) <= Size
    <3>1. \A w \in Worker : worker'[w].st # "none" => worker[w].st # "none" \/ w \in spawned
      BY <1>18, Zenon DEF WalkSlot
    <3>2. spawned \in SUBSET Worker
      BY <1>10, Zenon
    <3> QED BY <1>1, <1>8, <1>19, <3>1, <3>2, SizeKept, Zenon
  <2>3. Cardinality(Workers(worker))' <= Size
    BY <2>2, Zenon DEF Workers
  <2>4. shut' = "no"
    BY <1>2, <1>3, Zenon
  <2>5. Counted'
    BY <1>1, CountedStays, Zenon DEF WorkersOK
  <2> QED BY <2>1, <2>3, <2>4, <2>5, Zenon DEF WorkersOK
<1>25. QueueOK'
  <2>1. \A i \in 1..Len(queue') : call'[queue'[i]].st = "queued"
    BY <1>9, <1>14, <1>20, Zenon
  <2>2. \A i, j \in 1..Len(queue') : queue'[i] = queue'[j] => i = j
    BY <1>9, <1>14, Zenon
  <2>3. late' = {}
    BY <1>21, Zenon
  <2> QED BY <2>1, <2>2, <2>3, ZenonT(30) DEF QueueOK
<1>26. CodeOK'
  <2>1. ASSUME NEW w \in Worker
        PROVE  /\ worker'[w].ident <= code
               /\ process'[w].st # "none" => worker'[w].ident <= process'[w].loaded
    <3>1. /\ WalkSlot(w, version, old, takers, held, spawned) /\ worker[w].ident <= code
          /\ process[w].st # "none" => worker[w].ident <= process[w].loaded
      BY <1>1, <1>18, Zenon DEF CodeOK
    <3>2. CASE w \in spawned
      <4>1. process'[w].st = "none" /\ worker'[w].ident = version
        BY <3>1, <3>2, SMTT(30) DEF WalkSlot, NoProcess
      <4> QED BY <4>1, <1>5, Zenon
    <3>3. CASE w \notin spawned
      <4>1. /\ worker'[w].ident = worker[w].ident /\ process'[w].st = process[w].st
            /\ process'[w].loaded = process[w].loaded
        BY <3>1, <3>3, Zenon DEF WalkSlot
      <4> QED BY <3>1, <4>1, Zenon
    <3> QED BY <3>2, <3>3, Zenon
  <2>2. \A c \in Call : call'[c].asked <= code
    BY <1>1, <1>20, Zenon DEF CodeOK
  <2> QED BY <1>1, <1>3, <1>21, <1>22, <2>1, <2>2, CodeKept, Zenon
<1>27. CallsOK'
  <2>1. ASSUME NEW w \in takers
        PROVE  /\ worker'[w].call = held[w] /\ process'[w].inbox = held[w]
               /\ process[w].loaded >= call[held[w]].asked
    <3>1. w \in Worker /\ WalkSlot(w, version, old, takers, held, spawned) /\ held[w] \in sent
      BY <1>11, <1>18, Zenon
    <3>2. /\ worker'[w].call = held[w] /\ process'[w].inbox = held[w]
          /\ worker[w].ident = version /\ process[w].st # "none"
      BY <3>1, <1>23, Zenon DEF WalkSlot
    <3>3. version <= process[w].loaded
      BY <1>1, <3>1, <3>2, Zenon DEF CodeOK
    <3>4. held[w] \in Call /\ call[held[w]].asked <= walk.from
      BY <3>1, <1>13, Zenon
    <3>5. process[w].loaded \in Nat /\ call[held[w]].asked \in Nat /\ version \in Nat
      BY <1>1, <1>5, <3>1, <3>4, BoundAssumption, SMTT(30) DEF ProcessRecord, CallRecord, Version
    <3> QED BY <1>5, <3>2, <3>3, <3>4, <3>5, SMTT(30)
  <2>2. \A w \in Worker \ takers : /\ worker'[w].call = worker[w].call
                                   /\ process'[w].inbox = process[w].inbox
    <3>1. ASSUME NEW w \in Worker \ takers
          PROVE  worker'[w].call = worker[w].call /\ process'[w].inbox = process[w].inbox
      <4>1. WalkSlot(w, version, old, takers, held, spawned) /\ NoWorker.call = None
        BY <1>18, Zenon DEF NoWorker
      <4> QED BY <4>1, Zenon DEF WalkSlot
    <3> QED BY <3>1, Zenon
  <2>3. \A w \in Worker : /\ process'[w].st = process[w].st /\ process'[w].run = process[w].run
                          /\ process'[w].last = process[w].last
                          /\ process'[w].loaded = process[w].loaded
                          /\ process'[w].out = process[w].out
    BY <1>18, Zenon DEF WalkSlot
  <2>4. \A c \in sent : /\ call[c].runs = 0 /\ call'[c].st = "sent"
                        /\ call'[c].runs = call[c].runs /\ call'[c].asked = call[c].asked
                        /\ call'[c].frame = call[c].frame
                        /\ \A w \in Worker : worker[w].call # c /\ ~MayRun(w, c)
    BY <1>13, <1>20, Zenon
  <2>5. takers \in SUBSET Worker
    BY <1>18, Zenon
  <2>6. HandOut(takers, sent, held)
    BY <1>11, <1>17, <1>20, <2>1, <2>2, <2>3, <2>4, <2>5, Zenon DEF HandOut
  <2> QED BY <1>1, <1>22, <2>6, HandedOut, Zenon
<1>28. NoStrandedCall'
  <2>1. queue' # <<>> /\ ~walk'.on => In(worker', "idle") = {} /\ Workers(worker') # {}
    BY <1>9, <1>21, Zenon
  <2> QED BY <2>1, Zenon DEF NoStrandedCall, In, Workers
<1> QED BY <1>22, <1>24, <1>25, <1>26, <1>27, <1>28, Zenon DEF PInv

(***************************************************************************)
(* Theorems.                                                               *)
(***************************************************************************)
\* Worker is finite.
LEMMA Counting == Counted
<1>1. ASSUME NEW S \in SUBSET Worker
      PROVE  /\ Cardinality(S) \in Nat
             /\ \A T \in SUBSET S : Cardinality(T) <= Cardinality(S)
  <2>1. IsFiniteSet(S)
    BY WorkerAssumption, FS_Subset, Zenon
  <2> QED BY <2>1, FS_Subset, FS_CardinalityType, Zenon
<1> QED BY <1>1, FS_EmptySet, Zenon DEF Counted

\* The pool starts without calls, workers and processes.
LEMMA InitPInv == Init => PInv
<1> SUFFICES ASSUME Init PROVE PInv
  BY Zenon
<1>1. TypeOK
  <2>1. NoWorker \in WorkerRecord
    BY BoundAssumption, SMTT(30) DEF NoWorker, WorkerRecord, Version
  <2>2. NoProcess \in ProcessRecord
    <3>1. <<>> \in Seq(Frame)
      BY SeqEmpty, Zenon
    <3> QED BY <3>1, BoundAssumption, SMTT(30) DEF NoProcess, ProcessRecord, Version
  <2>3. [st |-> "new", runs |-> 0, asked |-> 0, requeued |-> FALSE, frame |-> FALSE,
         mark |-> FALSE] \in CallRecord
    BY BoundAssumption, SMTT(30) DEF CallRecord, Version
  <2>4. /\ worker \in [Worker -> WorkerRecord] /\ process \in [Worker -> ProcessRecord]
        /\ call \in [Call -> CallRecord]
    BY <2>1, <2>2, <2>3, Zenon DEF Init
  <2>5. /\ queue \in Seq(Call) /\ late \subseteq Call /\ walk \in [on : BOOLEAN, from : Version]
    BY SeqEmpty, BoundAssumption, SMTT(30) DEF Init, NoWalk, Version
  <2>6. /\ failing \in BOOLEAN /\ deaths \in 0..(DeathLimit - 1) /\ degraded \in BOOLEAN
        /\ shut \in {"no", "waiting", "clean", "unclean"}
        /\ code \in Version /\ faults \in 0..MaxFaults
    <3>1. /\ failing = FALSE /\ deaths = 0 /\ degraded = FALSE /\ shut = "no" /\ code = 1
          /\ faults = 0
      BY Zenon DEF Init
    <3>2. 0 \in 0..(DeathLimit - 1) /\ 1 \in 0..MaxCode /\ 0 \in 0..MaxFaults
      BY SizeAssumption, BoundAssumption, SMTT(30)
    <3> QED BY <3>1, <3>2, Zenon DEF Version
  <2> QED BY <2>4, <2>5, <2>6, Zenon DEF TypeOK
<1>2. \A w \in Worker : worker[w] = NoWorker /\ process[w] = NoProcess
  BY Zenon DEF Init
<1>3. /\ NoWorker.st = "none" /\ NoWorker.call = None /\ NoWorker.ident = 0
      /\ NoProcess.st = "none" /\ NoProcess.inbox = None /\ NoProcess.run = None
      /\ NoProcess.out = <<>> /\ NoProcess.mark = None
  BY Zenon DEF NoWorker, NoProcess
<1>4. \A w \in Worker : /\ worker[w].st = "none" /\ worker[w].call = None /\ worker[w].ident = 0
                        /\ process[w].st = "none" /\ process[w].inbox = None
                        /\ process[w].run = None /\ process[w].out = <<>>
                        /\ process[w].mark = None
  BY <1>2, <1>3, Zenon
<1>5. \A c \in Call : /\ call[c].st = "new" /\ call[c].runs = 0 /\ call[c].asked = 0
                      /\ call[c].frame = FALSE
  BY Zenon DEF Init
<1>6. queue = <<>> /\ walk = NoWalk /\ late = {} /\ shut = "no" /\ code = 1
  BY Zenon DEF Init
<1>7. WorkersOK
  <2>1. Workers(worker) = {}
    BY <1>4, Zenon DEF Workers
  <2>2. Cardinality(Workers(worker)) <= Size
    BY <2>1, FS_EmptySet, SizeAssumption, SMTT(30)
  <2>3. \A w \in Worker : WorkerOK(w)
    BY <1>2, <1>4, <1>6, Zenon DEF WorkerOK
  <2> QED BY <1>6, <2>2, <2>3, Counting, Zenon DEF WorkersOK
<1>8. QueueOK
  BY <1>6, SMTT(30) DEF QueueOK
<1>9. CodeOK
  <2>1. walk.from = 0 /\ ~walk.on
    BY <1>6, Zenon DEF NoWalk
  <2> QED BY <1>4, <1>5, <1>6, <2>1, SMTT(30) DEF CodeOK
<1>10. CallsOK
  <2>1. RunsOK
    BY <1>5, SMTT(30) DEF RunsOK
  <2>2. InboxOK
    BY <1>4, Zenon DEF InboxOK, MayRun
  <2>3. SentOK
    BY <1>4, NoneAssumption, Zenon DEF SentOK
  <2>4. FramesOK
    BY <1>4, SMTT(30) DEF FramesOK
  <2>5. FreshCode
    BY <1>4, Zenon DEF FreshCode
  <2> QED BY <2>1, <2>2, <2>3, <2>4, <2>5, Zenon DEF CallsOK
<1>11. NoStrandedCall
  BY <1>6, Zenon DEF NoStrandedCall
<1> QED BY <1>1, <1>7, <1>8, <1>9, <1>10, <1>11, Zenon DEF PInv

\* Every step of the pool and of its processes keeps the invariant.
LEMMA NextPInv == PInv /\ [Next]_vars => PInv'
<1> SUFFICES ASSUME PInv, [Next]_vars PROVE PInv'
  BY Zenon
<1>1. ASSUME NEW c \in Call, Enter(c) \/ QueueTimeout(c) \/ CallTimeout(c) PROVE PInv'
  BY <1>1, EnterKeeps, QueueTimeoutKeeps, CallTimeoutKeeps, Zenon
<1>2. CASE WalkDone \/ WalkFails
  BY <1>2, WalkDoneKeeps, WalkFailsKeeps, Zenon
<1>3. ASSUME NEW w \in Worker,
             \/ LaunchWorker(w) \/ NoSocketDirectory(w) \/ ReadyTimeout(w) \/ WorkerGone(w)
             \/ IdleTimeout(w) \/ ChannelEnd(w) \/ ExitKill(w) \/ StrayOutput(w)
             \/ OnProtocolError(w) \/ OnFrame(w) \/ OnMark(w)
             \/ Ready(w) \/ StartCall(w) \/ FinishCall(w) \/ ExitAfterFlush(w)
             \/ Exits(w) \/ Crashes(w)
      PROVE  PInv'
  <2>1. CASE LaunchWorker(w) \/ NoSocketDirectory(w) \/ WorkerGone(w)
    BY <2>1, GoneKeeps, Zenon
  <2>2. CASE ReadyTimeout(w) \/ IdleTimeout(w) \/ ChannelEnd(w)
    BY <2>2, RetireOnlyKeeps, Zenon
  <2>3. CASE ExitKill(w) \/ StrayOutput(w) \/ OnProtocolError(w)
    BY <2>3, ExitKillKeeps, StrayOutputKeeps, OnProtocolErrorKeeps, Zenon
  <2>4. CASE OnFrame(w) \/ OnMark(w)
    BY <2>4, OnFrameKeeps, OnMarkKeeps, Zenon
  <2>5. CASE Ready(w) \/ StartCall(w) \/ FinishCall(w) \/ ExitAfterFlush(w)
    BY <2>5, ReadyKeeps, StartCallKeeps, FinishCallKeeps, ExitAfterFlushKeeps, Zenon
  <2>6. CASE Exits(w) \/ Crashes(w)
    BY <2>6, ExitsKeeps, Zenon
  <2> QED BY <1>3, <2>1, <2>2, <2>3, <2>4, <2>5, <2>6, Zenon
<1>4. CASE DegradedOver \/ Shutdown \/ ShutdownReturns \/ CodeChanges
  BY <1>4, DegradedOverKeeps, ShutdownKeeps, ShutdownReturnsKeeps, CodeChangesKeeps, Zenon
<1>5. CASE UNCHANGED vars
  <2>1. /\ worker' = worker /\ process' = process /\ call' = call /\ queue' = queue
        /\ walk' = walk /\ late' = late /\ failing' = failing /\ deaths' = deaths
        /\ degraded' = degraded /\ shut' = shut /\ code' = code /\ faults' = faults
    BY <1>5, Zenon DEF vars, pool, env
  <2>2. TypeOK /\ WorkersOK /\ QueueOK /\ CodeOK /\ CallsOK /\ NoStrandedCall
    BY Zenon DEF PInv
  <2>3. TypeOK'
    BY <2>1, <2>2, Zenon DEF TypeOK
  <2>4. WorkersOK'
    <3>1. Counted'
      BY <2>2, CountedStays, Zenon DEF WorkersOK
    <3> QED BY <2>1, <2>2, <3>1, Zenon DEF WorkersOK, WorkerOK, Workers
  <2>5. QueueOK'
    BY <2>1, <2>2, Zenon DEF QueueOK
  <2>6. CodeOK'
    BY <2>1, <2>2, Zenon DEF CodeOK
  <2>7. NoStrandedCall'
    BY <2>1, <2>2, Zenon DEF NoStrandedCall, In, Workers
  <2>8. CallsOK'
    <3>1. (\A w \in Worker : SlotStep(w)) /\ \A c \in Call : CallStep(c)
      BY <2>1, SlotSame, CallSame, Zenon
    <3> QED BY <2>2, <2>3, <3>1, CallsKept, Zenon
  <2> QED BY <2>3, <2>4, <2>5, <2>6, <2>7, <2>8, Zenon DEF PInv
<1> QED BY <1>1, <1>2, <1>3, <1>4, <1>5, Zenon DEF Next

\* The inductive invariant holds in every state of the pool.
THEOREM PoolInvariant == Spec => []PInv
BY InitPInv, NextPInv, PTL DEF Spec

\* Every variable of the pool keeps its type; in particular the count of unproductive
\* deaths stays below UNPRODUCTIVE_DEATH_LIMIT.
THEOREM PoolTypes == Spec => []TypeOK
<1>1. PInv => TypeOK
  BY Zenon DEF PInv
<1> QED BY <1>1, PoolInvariant, PTL

\* completeWalk gives a call only to a worker whose process loaded code at least as
\* new as what was on disk when the call was enqueued.
THEOREM PoolRunsFreshCode == Spec => []FreshCode
<1>1. PInv => FreshCode
  BY Zenon DEF PInv, CallsOK
<1> QED BY <1>1, PoolInvariant, PTL

\* Requeueing after an announced exit, the fallback, and every way a worker can die
\* together start a call at most once, and a call reported done was started.
THEOREM PoolStartsOnce == Spec => []StartedOnce
<1>1. PInv => StartedOnce
  BY Zenon DEF PInv, CallsOK, RunsOK, StartedOnce
<1> QED BY <1>1, PoolInvariant, PTL

\* Whatever frees, retires or loses a worker, pump leaves no queued call beside an idle
\* worker or without any worker, unless a walk is in flight.
THEOREM PoolStrandsNoCall == Spec => []NoStrandedCall
<1>1. PInv => NoStrandedCall
  BY Zenon DEF PInv
<1> QED BY <1>1, PoolInvariant, PTL

\* Every live process belongs to a worker that counts toward size, the pool never has
\* more than size workers, and shutdown reports clean only when no process is left.
THEOREM PoolCountsProcesses == Spec => []ProcessesCounted
<1>1. ASSUME PInv PROVE ProcessesCounted
  <2>1. WorkersOK
    BY <1>1, Zenon DEF PInv
  <2>2. Alive(process) \subseteq Workers(worker)
    BY <2>1, HasWorker, Zenon DEF Alive, Workers
  <2>3. shut = "clean" => Workers(worker) = {}
    BY <2>1, Zenon DEF WorkersOK, WorkerOK, Workers
  <2>4. shut = "clean" => Alive(process) = {}
    BY <2>2, <2>3, Zenon
  <2> QED BY <2>1, <2>2, <2>4, Zenon DEF ProcessesCounted, WorkersOK
<1> QED BY <1>1, PoolInvariant, PTL

=============================================================================

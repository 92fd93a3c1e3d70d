--------------------------- MODULE TaskQueueLemmas ----------------------------
(***************************************************************************)
(* What the operators of TaskQueue leave behind: the queue that processQueue *)
(* starts tasks from, a queue with a task appended or removed, a freed slot; *)
(* and the steps that preserve its inductive invariant and end no task:    *)
(* persisting, pruning and writing the queue file, a crash, a restart.     *)
(***************************************************************************)
EXTENDS TaskQueueInvariant, FiniteSetTheorems, SequenceTheorems, TLAPS

\* The first n members of a sequence without repetition are n elements
\* (what processQueue shifts off the FIFO).
LEMMA PrefixCardinality ==
    ASSUME NEW s \in Seq(Task), NEW n \in 0..Len(s),
           \A i, j \in 1..Len(s) : s[i] = s[j] => i = j
    PROVE  /\ IsFiniteSet({s[i] : i \in 1..n})
           /\ Cardinality({s[i] : i \in 1..n}) = n
<1> DEFINE T == {s[i] : i \in 1..n}
           f == [i \in 1..n |-> s[i]]
<1>0. /\ n \in Nat /\ 1..n \subseteq 1..Len(s)
      /\ s \in [1..Len(s) -> Task]
  BY LenProperties
<1>1. f \in Bijection(1..n, T)
  BY DEF Bijection, Injection, Surjection, IsInjective
<1>2. ExistsBijection(1..n, T)
  BY <1>1 DEF ExistsBijection
<1>3. IsFiniteSet(1..n) /\ Cardinality(1..n) = n
  BY <1>0, FS_Interval
<1> QED
  BY <1>2, <1>3, FS_Bijection

\* Adding to a finite set a finite set disjoint from it.
LEMMA DisjointUnion ==
    ASSUME NEW A, NEW B, IsFiniteSet(A), IsFiniteSet(B), A \intersect B = {}
    PROVE  /\ IsFiniteSet(A \union B)
           /\ Cardinality(A \union B) = Cardinality(A) + Cardinality(B)
<1>1. /\ IsFiniteSet(A \union B)
      /\ Cardinality(A \union B) = Cardinality(A) + Cardinality(B) - Cardinality(A \intersect B)
  BY FS_Union
<1>2. Cardinality(A \intersect B) = 0 /\ Cardinality(A) \in Nat /\ Cardinality(B) \in Nat
  BY Zenon, FS_EmptySet, FS_CardinalityType
<1> QED
  BY <1>1, <1>2

\* processQueue keeps the queue's bookkeeping, starts only pending tasks, never
\* exceeds maxConcurrent, and leaves a task waiting only when every slot is taken.
LEMMA ProcessQueueStep ==
    ASSUME NEW st, NEW pend, NEW run, NEW stopping \in BOOLEAN,
           Consistent(st, pend, run, exec),
           exec \in [Task -> {"none", "running", "draining"}],
           spawns \in [Task -> Nat],
           proc \in [Task -> {"none", "nopid", "leader", "orphans", "gone"}],
           ProcessQueue(st, pend, run, stopping)
    PROVE  /\ Consistent(status', pending', running', exec')
           /\ exec' \in [Task -> {"none", "running", "draining"}]
           /\ \A t \in Task : t \in running' <=> exec'[t] # "none"
           /\ spawns' \in [Task -> Nat]
           /\ proc' \in [Task -> {"none", "nopid", "leader", "orphans", "gone"}]
           /\ \A t \in Task :
                 \/ status'[t] = st[t] /\ spawns'[t] = spawns[t] /\ proc'[t] = proc[t]
                 \/ /\ st[t] = "pending" /\ status'[t] = "running"
                    /\ spawns'[t] = spawns[t] + 1 /\ proc'[t] \in {"leader", "nopid"}
           /\ \A t \in Task : exec'[t] = "draining" => t \in run /\ exec[t] = "draining"
           /\ ~stopping /\ pending' # <<>> => Cardinality(running') = MaxConcurrent
           /\ stopping => pending' = pend /\ running' = run
<1> USE MaxConcurrentAssumption
<1> DEFINE room == Room(run, stopping)
           n == IF room < Len(pend) THEN room ELSE Len(pend)
           first == {pend[i] : i \in 1..n}
           started == {t \in first : st[t] = "pending"}
<1>1. /\ Cardinality(run) \in Nat /\ Len(pend) \in Nat
      /\ pend \in [1..Len(pend) -> Task]
  BY SMTT(30), FS_CardinalityType, LenProperties DEF Consistent
<1>2. /\ room \in Nat /\ n \in 0..Len(pend) /\ n <= room
      /\ ~stopping => room = MaxConcurrent - Cardinality(run)
      /\ stopping => n = 0
  BY <1>1 DEF Consistent, Room
<1>3. IsFiniteSet(first) /\ Cardinality(first) = n
  <2>1. /\ pend \in Seq(Task) /\ n \in 0..Len(pend)
        /\ \A i, j \in 1..Len(pend) : pend[i] = pend[j] => i = j
    BY <1>2 DEF Consistent
  <2> QED
    BY Zenon, <2>1, PrefixCardinality
<1>4. /\ first \in SUBSET Task /\ started = first
      /\ \A t \in first : st[t] = "pending" /\ t \notin run
  <2>1. \A i \in 1..n : i \in 1..Len(pend) /\ pend[i] \in Task
    BY <1>1, <1>2
  <2>2. \A i \in 1..n : st[pend[i]] = "pending" /\ pend[i] \notin run
    BY SMTT(30), <2>1 DEF Consistent
  <2> QED
    BY <2>1, <2>2
<1>5. /\ pending' = SubSeq(pend, n + 1, Len(pend))
      /\ running' = run \union first
      /\ status' = [t \in Task |-> IF t \in first THEN "running" ELSE st[t]]
      /\ exec' = [t \in Task |-> IF t \in first THEN "running"
                                 ELSE IF t \in run THEN exec[t] ELSE "none"]
      /\ spawns' = [t \in Task |-> IF t \in first THEN spawns[t] + 1 ELSE spawns[t]]
      /\ \E pid \in SUBSET first :
             proc' = [t \in Task |-> IF t \in pid THEN "leader"
                                     ELSE IF t \in first THEN "nopid" ELSE proc[t]]
  <2>1. /\ pending' = SubSeq(pend, n + 1, Len(pend))
        /\ running' = run \union started
        /\ status' = [t \in Task |-> IF t \in started THEN "running" ELSE st[t]]
        /\ exec' = [t \in Task |-> IF t \in started THEN "running"
                                   ELSE IF t \in run THEN exec[t] ELSE "none"]
        /\ spawns' = [t \in Task |-> IF t \in started THEN spawns[t] + 1 ELSE spawns[t]]
        /\ \E pid \in SUBSET started :
               proc' = [t \in Task |-> IF t \in pid THEN "leader"
                                       ELSE IF t \in started THEN "nopid" ELSE proc[t]]
    BY Zenon DEF ProcessQueue
  <2>2. started = first
    BY <1>4
  <2> HIDE DEF first, started, n, room
  <2> QED
    BY <2>1, <2>2, ZenonT(60)
<1>6. /\ IsFiniteSet(running') /\ Cardinality(running') = Cardinality(run) + n
  <2>1. IsFiniteSet(run) /\ run \intersect first = {}
    BY <1>4 DEF Consistent
  <2> QED
    BY Zenon, <2>1, <1>3, <1>5, DisjointUnion
<1>7. /\ pending' \in Seq(Task) /\ Len(pending') = Len(pend) - n
      /\ \A i \in 1..(Len(pend) - n) : pending'[i] = pend[n + i]
  <2>1. \A i \in (n + 1)..Len(pend) : pend[i] \in Task
    BY <1>1, <1>2
  <2>2. n + 1 \in Int /\ Len(pend) \in Int
    BY <1>1, <1>2
  <2>3. /\ pending' \in Seq(Task)
        /\ Len(pending') = IF n + 1 <= Len(pend) THEN Len(pend) - (n + 1) + 1 ELSE 0
        /\ \A i \in 1..(Len(pend) - (n + 1) + 1) : pending'[i] = pend[(n + 1) + i - 1]
    BY <2>1, <2>2, <1>5, SubSeqProperties, SMTT(30)
  <2>4. Len(pending') = Len(pend) - n
    BY SMTT(30), <2>3, <1>1, <1>2
  <2>5. ASSUME NEW i \in 1..(Len(pend) - n) PROVE pending'[i] = pend[n + i]
    <3>1. i \in 1..(Len(pend) - (n + 1) + 1) /\ (n + 1) + i - 1 = n + i
      BY SMTT(30), <1>1, <1>2
    <3> QED
      BY <2>3, <3>1
  <2> QED
    BY <2>3, <2>4, <2>5
<1> HIDE DEF n, room, first, started
<1>8. \A t \in Task : t \in first <=> \E i \in 1..n : pend[i] = t
  BY DEF first
<1>9. Consistent(status', pending', running', exec')
  <2>1. status' \in [Task -> Status]
    BY <1>5 DEF Consistent, Status, Live
  <2>2. running' \in SUBSET Task /\ Cardinality(running') <= MaxConcurrent
    BY <1>1, <1>2, <1>4, <1>5, <1>6 DEF Consistent
  <2>3. \A i, j \in 1..Len(pending') : pending'[i] = pending'[j] => i = j
    <3> SUFFICES ASSUME NEW i \in 1..Len(pending'), NEW j \in 1..Len(pending'),
                        pending'[i] = pending'[j]
                 PROVE  i = j
      OBVIOUS
    <3>1. n + i \in 1..Len(pend) /\ n + j \in 1..Len(pend) /\ pend[n + i] = pend[n + j]
      BY <1>1, <1>2, <1>7
    <3>2. n + i = n + j
      BY SMTT(30), <3>1 DEF Consistent
    <3> QED
      BY <3>2, <1>2
  <2>4. \A t \in Task : status'[t] = "pending" <=> \E i \in 1..Len(pending') : pending'[i] = t
    <3> SUFFICES ASSUME NEW t \in Task
                 PROVE  status'[t] = "pending" <=> \E i \in 1..Len(pending') : pending'[i] = t
      OBVIOUS
    <3>1. ASSUME status'[t] = "pending"
          PROVE  \E i \in 1..Len(pending') : pending'[i] = t
      <4>1. st[t] = "pending" /\ t \notin first
        BY <3>1, <1>5
      <4>2. PICK i \in 1..Len(pend) : pend[i] = t
        BY <4>1 DEF Consistent
      <4>3. i \notin 1..n
        BY <4>1, <4>2, <1>8
      <4>4. i - n \in 1..(Len(pend) - n) /\ n + (i - n) = i
        BY <4>3, <1>1, <1>2
      <4> QED
        BY <4>2, <4>4, <1>7
    <3>2. ASSUME NEW i \in 1..Len(pending'), pending'[i] = t
          PROVE  status'[t] = "pending"
      <4>1. n + i \in 1..Len(pend) /\ pend[n + i] = t /\ n + i \notin 1..n
        BY SMTT(30), <3>2, <1>1, <1>2, <1>7
      <4>2. st[t] = "pending"
        BY <4>1 DEF Consistent
      <4>3. \A k \in 1..n : pend[k] # t
        BY <4>1, <1>1, <1>2 DEF Consistent
      <4> QED
        BY Zenon, <4>2, <4>3, <1>5, <1>8
    <3> QED
      BY <3>1, <3>2
  <2>5. \A t \in Task : status'[t] \in {"running", "cancelling"} <=> t \in running'
    BY <1>4, <1>5, Zenon DEF Consistent
  <2>6. \A t \in running' : exec'[t] \in {"running", "draining"}
    BY <1>4, <1>5, Zenon DEF Consistent
  <2> QED
    BY <1>6, <1>7, <2>1, <2>2, <2>3, <2>4, <2>5, <2>6, Zenon DEF Consistent
<1>10. /\ exec' \in [Task -> {"none", "running", "draining"}]
       /\ \A t \in Task : t \in running' <=> exec'[t] # "none"
  BY <1>4, <1>5, Zenon DEF Consistent
<1>11. spawns' \in [Task -> Nat]
  BY <1>5
<1>12. proc' \in [Task -> {"none", "nopid", "leader", "orphans", "gone"}]
  BY <1>5, Zenon
<1>13. \A t \in Task :
          \/ status'[t] = st[t] /\ spawns'[t] = spawns[t] /\ proc'[t] = proc[t]
          \/ /\ st[t] = "pending" /\ status'[t] = "running"
             /\ spawns'[t] = spawns[t] + 1 /\ proc'[t] \in {"leader", "nopid"}
  BY <1>4, <1>5
<1>13a. \A t \in Task : exec'[t] = "draining" => t \in run /\ exec[t] = "draining"
  BY <1>5
<1>14. ~stopping /\ pending' # <<>> => Cardinality(running') = MaxConcurrent
  <2> SUFFICES ASSUME ~stopping, pending' # <<>> PROVE n = room
    BY <1>1, <1>2, <1>6
  <2>1. Len(pending') # 0
    BY <1>7, EmptySeq
  <2>2. n = room \/ n = Len(pend)
    BY DEF n
  <2> QED
    <3>1. Len(pend) - n # 0
      BY <2>1, <1>7
    <3>2. n # Len(pend)
      BY <3>1, <1>1
    <3> QED
      BY <3>2, <2>2
<1>15. stopping => pending' = pend /\ running' = run
  <2> SUFFICES ASSUME stopping PROVE pending' = pend /\ running' = run
    OBVIOUS
  <2>1. n = 0 /\ first = {}
    BY <1>2 DEF first
  <2>2. pending' = SubSeq(pend, 1, Len(pend))
    BY <2>1, <1>5
  <2> QED
    BY <2>1, <2>2, <1>5, SubSeqFull DEF Consistent
<1> QED
  BY <1>9, <1>10, <1>11, <1>12, <1>13, <1>13a, <1>14, <1>15

(***************************************************************************)
(* What enqueueTask, cancelTask and the end of a task hand to processQueue *)
(* is consistent.                                                          *)
(***************************************************************************)
\* enqueueTask: a new id at the end of the FIFO.
LEMMA Appended ==
    ASSUME Consistent(status, pending, running, exec), NEW t \in Task, status[t] = "absent"
    PROVE  Consistent([status EXCEPT ![t] = "pending"], Append(pending, t), running, exec)
<1> DEFINE q == Append(pending, t)
           st == [status EXCEPT ![t] = "pending"]
<1>0. pending \in Seq(Task) /\ status \in [Task -> Status]
  BY DEF Consistent
<1>1. /\ q \in Seq(Task) /\ Len(q) = Len(pending) + 1 /\ Len(pending) \in Nat
      /\ \A i \in 1..Len(pending) : q[i] = pending[i]
      /\ q[Len(pending) + 1] = t
  BY <1>0, AppendProperties, LenProperties
<1>2. st \in [Task -> Status] /\ \A u \in Task : st[u] = IF u = t THEN "pending" ELSE status[u]
  BY <1>0 DEF Status, Live
<1>3. \A i \in 1..Len(pending) : pending[i] # t
  BY DEF Consistent
<1> HIDE DEF q, st
<1>4. \A i, j \in 1..Len(q) : q[i] = q[j] => i = j
  BY <1>1, <1>3 DEF Consistent
<1>5. ASSUME NEW u \in Task
      PROVE  st[u] = "pending" <=> \E i \in 1..Len(q) : q[i] = u
  <2>1. CASE u = t
    BY <2>1, <1>1, <1>2
  <2>2. CASE u # t
    <3>1. st[u] = "pending" <=> \E i \in 1..Len(pending) : pending[i] = u
      BY <2>2, <1>2 DEF Consistent
    <3>2. (\E i \in 1..Len(q) : q[i] = u) <=> \E i \in 1..Len(pending) : pending[i] = u
      BY <2>2, <1>1, SMTT(30)
    <3> QED
      BY <3>1, <3>2
  <2> QED
    BY <2>1, <2>2
<1>6. \A u \in Task : st[u] \in {"running", "cancelling"} <=> u \in running
  BY <1>2 DEF Consistent
<1>7. Consistent(st, q, running, exec)
  BY <1>1, <1>2, <1>4, <1>5, <1>6, Zenon DEF Consistent
<1> QED
  BY <1>7 DEF q, st

\* cancelTask: a pending id leaves the FIFO.
LEMMA Removed ==
    ASSUME Consistent(status, pending, running, exec), NEW t \in Task, status[t] = "pending"
    PROVE  Consistent([status EXCEPT ![t] = "cancelled"], Without(pending, t), running, exec)
<1> DEFINE k == CHOOSE i \in 1..Len(pending) : pending[i] = t
           left == SubSeq(pending, 1, k - 1)
           right == SubSeq(pending, k + 1, Len(pending))
           q == left \o right
           st == [status EXCEPT ![t] = "cancelled"]
<1>0. /\ pending \in Seq(Task) /\ status \in [Task -> Status]
      /\ Len(pending) \in Nat /\ \A i \in 1..Len(pending) : pending[i] \in Task
  BY LenProperties DEF Consistent
<1>1. k \in 1..Len(pending) /\ pending[k] = t
  BY DEF Consistent
<1>2. st \in [Task -> Status] /\ \A u \in Task : st[u] = IF u = t THEN "cancelled" ELSE status[u]
  BY <1>0 DEF Status, Terminal
<1> HIDE DEF k
<1>3. /\ left \in Seq(Task) /\ Len(left) = k - 1
      /\ \A i \in 1..(k - 1) : left[i] = pending[i]
  <2>1. \A i \in 1..(k - 1) : pending[i] \in Task
    BY <1>0, <1>1
  <2>2. 1 \in Int /\ k - 1 \in Int
    BY <1>1
  <2>3. /\ left \in Seq(Task) /\ Len(left) = IF 1 <= k - 1 THEN k - 1 - 1 + 1 ELSE 0
        /\ \A i \in 1..(k - 1 - 1 + 1) : left[i] = pending[1 + i - 1]
    BY <2>1, <2>2, SubSeqProperties
  <2>4. Len(left) = k - 1
    BY <2>3, <1>0, <1>1
  <2>5. ASSUME NEW i \in 1..(k - 1) PROVE left[i] = pending[i]
    <3>1. i \in 1..(k - 1 - 1 + 1) /\ 1 + i - 1 = i
      BY <1>0, <1>1
    <3> QED
      BY <2>3, <3>1
  <2> QED
    BY <2>3, <2>4, <2>5
<1>4. /\ right \in Seq(Task) /\ Len(right) = Len(pending) - k
      /\ \A i \in 1..(Len(pending) - k) : right[i] = pending[k + i]
  <2>1. \A i \in (k + 1)..Len(pending) : pending[i] \in Task
    BY <1>0, <1>1
  <2>2. k + 1 \in Int /\ Len(pending) \in Int
    BY <1>0, <1>1
  <2>3. /\ right \in Seq(Task)
        /\ Len(right) = IF k + 1 <= Len(pending) THEN Len(pending) - (k + 1) + 1 ELSE 0
        /\ \A i \in 1..(Len(pending) - (k + 1) + 1) : right[i] = pending[(k + 1) + i - 1]
    BY <2>1, <2>2, SubSeqProperties, SMTT(30)
  <2>4. Len(right) = Len(pending) - k
    BY <2>3, <1>0, <1>1, SMTT(30)
  <2>5. ASSUME NEW i \in 1..(Len(pending) - k) PROVE right[i] = pending[k + i]
    <3>1. i \in 1..(Len(pending) - (k + 1) + 1) /\ (k + 1) + i - 1 = k + i
      BY <1>0, <1>1
    <3> QED
      BY <2>3, <3>1
  <2> QED
    BY <2>3, <2>4, <2>5
<1> HIDE DEF left, right
<1>5. /\ q \in Seq(Task) /\ Len(q) = Len(pending) - 1
      /\ \A i \in 1..(Len(pending) - 1) :
             q[i] = IF i < k THEN pending[i] ELSE pending[i + 1]
  <2>1. /\ q \in Seq(Task) /\ Len(q) = Len(left) + Len(right)
        /\ \A i \in 1..(Len(left) + Len(right)) :
               q[i] = IF i <= Len(left) THEN left[i] ELSE right[i - Len(left)]
    BY Zenon, <1>3, <1>4, ConcatProperties
  <2>2. Len(left) + Len(right) = Len(pending) - 1
    BY <1>0, <1>1, <1>3, <1>4
  <2>3. ASSUME NEW i \in 1..(Len(pending) - 1)
        PROVE  q[i] = IF i < k THEN pending[i] ELSE pending[i + 1]
    <3>1. CASE i < k
      <4>1. i <= Len(left) /\ i \in 1..(k - 1) /\ i \in 1..(Len(left) + Len(right))
        BY <3>1, <2>2, <1>0, <1>1, <1>3
      <4> QED
        BY <3>1, <4>1, <2>1, <1>3, Zenon
    <3>2. CASE ~(i < k)
      <4>1. /\ ~(i <= Len(left)) /\ i \in 1..(Len(left) + Len(right))
            /\ i - Len(left) \in 1..(Len(pending) - k) /\ k + (i - Len(left)) = i + 1
        BY <3>2, <2>2, <1>0, <1>1, <1>3
      <4> QED
        BY SMTT(30), <3>2, <4>1, <2>1, <1>4
    <3> QED
      BY Zenon, <3>1, <3>2
  <2> QED
    BY <2>1, <2>2, <2>3
<1> HIDE DEF q, st
<1>6. \A i, j \in 1..Len(q) : q[i] = q[j] => i = j
  <2> SUFFICES ASSUME NEW i \in 1..Len(q), NEW j \in 1..Len(q), q[i] = q[j] PROVE i = j
    OBVIOUS
  <2> DEFINE a == IF i < k THEN i ELSE i + 1
             b == IF j < k THEN j ELSE j + 1
  <2>1. a \in 1..Len(pending) /\ b \in 1..Len(pending) /\ pending[a] = pending[b]
    BY <1>0, <1>1, <1>5, SMTT(30)
  <2>2. a = b
    BY <2>1, ZenonT(30) DEF Consistent
  <2> QED
    BY <2>2, <1>0, <1>1, <1>5
<1>7. ASSUME NEW u \in Task
      PROVE  st[u] = "pending" <=> \E i \in 1..Len(q) : q[i] = u
  <2>1. ASSUME st[u] = "pending" PROVE \E i \in 1..Len(q) : q[i] = u
    <3>1. PICK i \in 1..Len(pending) : pending[i] = u
      BY <2>1, <1>2 DEF Consistent
    <3>2. i # k
      BY <2>1, <3>1, <1>1, <1>2, Zenon
    <3>3. CASE i < k
      <4>1. i \in 1..(Len(pending) - 1)
        BY <3>3, <1>0, <1>1
      <4> QED
        BY <4>1, <3>1, <3>3, <1>5
    <3>4. CASE i > k
      <4>1. i - 1 \in 1..(Len(pending) - 1) /\ ~(i - 1 < k) /\ i - 1 + 1 = i
        BY <3>4, <1>0, <1>1
      <4> QED
        BY <4>1, <3>1, <1>5, Zenon
    <3> QED
      BY <3>2, <3>3, <3>4, <1>0, <1>1
  <2>2. ASSUME NEW i \in 1..Len(q), q[i] = u PROVE st[u] = "pending"
    <3> DEFINE a == IF i < k THEN i ELSE i + 1
    <3>1. a \in 1..Len(pending) /\ pending[a] = u /\ a # k
      BY <2>2, <1>0, <1>1, <1>5, SMTT(30)
    <3> HIDE DEF a
    <3>2. status[u] = "pending" /\ u # t
      BY <3>1, <1>1 DEF Consistent
    <3> QED
      BY <3>2, <1>2
  <2> QED
    BY <2>1, <2>2
<1>8. \A u \in Task : st[u] \in {"running", "cancelling"} <=> u \in running
  BY <1>2 DEF Consistent
<1>9. Consistent(st, q, running, exec)
  BY <1>2, <1>5, <1>6, <1>7, <1>8, Zenon DEF Consistent
<1> QED
  BY <1>9 DEF q, st, left, right, k, Without

\* The end of a task: its slot is free again.
LEMMA Freed ==
    ASSUME Consistent(status, pending, running, exec), NEW t \in running,
           NEW outcome \in Terminal
    PROVE  Consistent([status EXCEPT ![t] = outcome], pending, running \ {t}, exec)
<1>1. /\ IsFiniteSet(running \ {t})
      /\ Cardinality(running \ {t}) = Cardinality(running) - 1
      /\ Cardinality(running) \in Nat
  BY FS_RemoveElement, FS_CardinalityType, Zenon DEF Consistent
<1>2. t \in Task /\ status[t] \in {"running", "cancelling"}
  BY Zenon DEF Consistent
<1>3. /\ outcome \in Status
      /\ outcome \notin {"pending", "running", "cancelling"}
  BY DEF Status, Terminal
<1>4. Cardinality(running \ {t}) <= MaxConcurrent
  BY <1>1, MaxConcurrentAssumption DEF Consistent
<1> QED
  BY <1>1, <1>2, <1>3, <1>4, Zenon DEF Consistent

\* The initial state.
LEMMA InitIInv == Init => IInv
<1> SUFFICES ASSUME Init PROVE IInv
  OBVIOUS
<1>1. TypeOK
  <2>1. status \in [Task -> Status] /\ disk \in [Task -> Status]
    BY DEF Init, NoTasks, Status
  <2>2. write \in [by : {"nobody", "timer", "flush"}, snap : [Task -> Status]]
    BY DEF Init, NoTasks, Idle, Status
  <2>3. pending \in Seq(Task)
    BY EmptySeq DEF Init
  <2>4. crashes \in 0..MaxCrashes /\ writeErrors \in 0..MaxWriteErrors
    BY BoundAssumption DEF Init
  <2>5. /\ cancelReq \in [Task -> BOOLEAN] /\ timedOut \in [Task -> BOOLEAN]
        /\ exec \in [Task -> {"none", "running", "draining"}]
        /\ cleanup \in [Task -> {"none", "term", "kill", "done", "failed"}]
        /\ proc \in [Task -> {"none", "nopid", "leader", "orphans", "gone"}]
        /\ spawns \in [Task -> Nat] /\ rejected \in [Task -> BOOLEAN]
    BY DEF Init
  <2> QED
    BY Zenon, <2>1, <2>2, <2>3, <2>4 DEF Init, TypeOK
<1>2. Consistent(status, pending, running, exec)
  <2>1. IsFiniteSet({}) /\ Cardinality({}) = 0 /\ Len(<<>>) = 0
    BY FS_EmptySet, EmptySeq
  <2> QED
    BY <1>1, <2>1, MaxConcurrentAssumption, SMTT(30) DEF Init, TypeOK, Consistent, NoTasks
<1>3. NoStrandedTask /\ RunOnce /\ CancelOK /\ CancelledGroupGone /\ ShutOK
  BY SMTT(30) DEF Init, NoStrandedTask, RunOnce, CancelOK, CancelledGroupGone, ShutOK, NoTasks, Idle
<1>4. DownOK /\ NoLostChange /\ DrainedIsDurable /\ DurableOK
  BY Zenon DEF Init, DownOK, NoLostChange, DrainedIsDurable, DurableOK, Idle
<1> QED
  BY <1>1, <1>2, <1>3, <1>4 DEF Init, IInv

(***************************************************************************)
(* The persistence actions.                                                *)
(***************************************************************************)
\* startPersistWrite changes the queue only by dropping tasks that have ended, and
\* the snapshot it takes is the queue it leaves.
LEMMA Pruned ==
    ASSUME IInv, NEW by \in {"timer", "flush"}, StartPersistWrite(by)
    PROVE  /\ Consistent(status', pending, running, exec)
           /\ \A t \in Task : \/ status'[t] = status[t]
                              \/ status[t] \in Terminal /\ status'[t] = "absent"
           /\ write' = [by |-> by, snap |-> status'] /\ dirty' = FALSE /\ timer' = FALSE
<1>1. PICK dropped \in Prunable :
          /\ status' = [t \in Task |-> IF t \in dropped THEN "absent" ELSE status[t]]
          /\ dirty' = FALSE /\ timer' = FALSE
          /\ write' = [by |-> by,
                       snap |-> [t \in Task |-> IF t \in dropped THEN "absent" ELSE status[t]]]
  BY DEF StartPersistWrite
<1>2. \A t \in dropped : t \in Task /\ status[t] \in Terminal
  BY DEF Prunable
<1>3. status \in [Task -> Status] /\ status' \in [Task -> Status]
  BY <1>1, Zenon DEF IInv, TypeOK, Status
<1>4. \A t \in Task : \/ status'[t] = status[t]
                      \/ status[t] \in Terminal /\ status'[t] = "absent"
  BY <1>1, <1>2
<1>5. \A t \in Task :
          /\ status'[t] = "pending" <=> status[t] = "pending"
          /\ status'[t] \in {"running", "cancelling"} <=> status[t] \in {"running", "cancelling"}
  BY <1>4 DEF Terminal
<1>6. Consistent(status', pending, running, exec)
  BY <1>3, <1>5, Zenon DEF IInv, Consistent
<1> QED
  BY <1>1, <1>4, <1>6

\* What every step that only writes, prunes or moves shutdown on preserves. The
\* file is unchanged or has received the snapshot in flight.
LEMMA PersistStep ==
    ASSUME IInv, up,
           UNCHANGED <<cancelReq, pending, running, exec, timedOut, cleanup, failures,
                       world, up, crashes>>,
           Consistent(status', pending, running, exec),
           \A t \in Task : \/ status'[t] = status[t]
                           \/ status[t] \in Terminal /\ status'[t] = "absent",
           \/ write' = Idle
           \/ write' = write
           \/ \E by \in {"timer", "flush"} : write' = [by |-> by, snap |-> status'],
           \/ disk' = disk
           \/ Writing /\ disk' = write.snap,
           dirty' \in BOOLEAN, timer' \in BOOLEAN, saved' \in BOOLEAN,
           writeErrors' \in 0..MaxWriteErrors,
           shut' \in {"no", "draining", "flushing", "drained", "failed"},
           shut' = "no" <=> shut = "no"
    PROVE  /\ TypeOK' /\ Consistent(status', pending', running', exec')
           /\ \A t \in Task : t \in running' <=> exec'[t] # "none"
           /\ NoStrandedTask' /\ RunOnce' /\ CancelOK' /\ CancelledGroupGone'
           /\ DownOK' /\ DurableOK'
<1>1. status' \in [Task -> Status]
  BY Zenon DEF Consistent
<1>2. /\ write' \in [by : {"nobody", "timer", "flush"}, snap : [Task -> Status]]
      /\ disk' \in [Task -> Status]
  BY <1>1, SMTT(30) DEF IInv, TypeOK, Idle, NoTasks, Status
<1>3. TypeOK'
  BY <1>1, <1>2, Zenon DEF IInv, TypeOK, world
<1>4. Consistent(status', pending', running', exec')
  BY SMTT(30) DEF Consistent
<1>5. NoStrandedTask' /\ \A t \in Task : t \in running' <=> exec'[t] # "none"
  BY Zenon DEF IInv, NoStrandedTask
<1>6. RunOnce'
  <2>1. \A t \in Task : t \notin used => /\ status'[t] = "absent" /\ disk'[t] = "absent"
                                         /\ write'.snap[t] = "absent"
    BY SMTT(30) DEF IInv, RunOnce, Idle, NoTasks
  <2>2. \A t \in Task : status'[t] = "pending" => status[t] = "pending"
    BY Zenon
  <2> QED
    BY <2>1, Zenon DEF IInv, RunOnce, world
<1>7. CancelOK'
  BY Zenon DEF IInv, CancelOK, world
<1>8. CancelledGroupGone'
  BY Zenon DEF IInv, CancelledGroupGone, world
<1>9. DownOK'
  BY Zenon DEF DownOK
<1>10. DurableOK'
  <2> SUFFICES ASSUME NEW t \in Task
               PROVE  /\ disk'[t] \in Terminal => status'[t] \in {disk'[t], "absent"}
                      /\ Writing' /\ disk'[t] \in Terminal =>
                             write'.snap[t] \in {disk'[t], "absent"}
                      /\ Writing' /\ write'.snap[t] \in Terminal =>
                             status'[t] \in {write'.snap[t], "absent"}
    BY Zenon DEF DurableOK
  <2>1. /\ disk[t] \in Terminal => status[t] \in {disk[t], "absent"}
        /\ Writing /\ disk[t] \in Terminal => write.snap[t] \in {disk[t], "absent"}
        /\ Writing /\ write.snap[t] \in Terminal => status[t] \in {write.snap[t], "absent"}
    BY Zenon DEF IInv, DurableOK
  <2>2. status'[t] = status[t] \/ status'[t] = "absent"
    BY Zenon
  <2>3. disk'[t] \in Terminal => status'[t] \in {disk'[t], "absent"}
    BY <2>1, <2>2, Zenon DEF Terminal
  <2>4. CASE write' = Idle
    BY <2>3, <2>4, Zenon DEF Writing, Idle
  <2>5. CASE write' = write
    BY <2>1, <2>5, ZenonT(30) DEF Writing
  <2>6. CASE \E by \in {"timer", "flush"} : write' = [by |-> by, snap |-> status']
    BY <2>3, <2>6, SMTT(30)
  <2> QED
    BY <2>4, <2>5, <2>6, Zenon
<1> QED
  BY <1>3, <1>4, <1>5, <1>6, <1>7, <1>8, <1>9, <1>10, Zenon

\* The debounce timer, the end of a write, and a round of shutdown's drain loop.
LEMMA WriteStep ==
    ASSUME IInv,
           PersistTimer \/ ShutdownPoll \/ \E ok \in BOOLEAN : WriteDone(ok)
    PROVE  IInv'
<1> DEFINE Kept == /\ Consistent(status', pending, running, exec)
                   /\ \A t \in Task : \/ status'[t] = status[t]
                                      \/ status[t] \in Terminal /\ status'[t] = "absent"
           Base == /\ TypeOK' /\ Consistent(status', pending', running', exec')
                   /\ \A t \in Task : t \in running' <=> exec'[t] # "none"
                   /\ NoStrandedTask' /\ RunOnce' /\ CancelOK' /\ CancelledGroupGone'
                   /\ DownOK' /\ DurableOK'
<1>0. /\ dirty \in BOOLEAN /\ timer \in BOOLEAN /\ saved \in BOOLEAN
      /\ writeErrors \in 0..MaxWriteErrors /\ MaxWriteErrors \in Nat
      /\ shut \in {"no", "draining", "flushing", "drained", "failed"}
      /\ Consistent(status, pending, running, exec)
  BY BoundAssumption, Zenon DEF IInv, TypeOK
<1>1. up
  BY Zenon DEF PersistTimer, ShutdownPoll, WriteDone
<1>2. CASE PersistTimer
  <2>1. UNCHANGED <<cancelReq, pending, running, exec, timedOut, cleanup, failures, shut,
                    file, world, env>> /\ timer
    BY <1>2, Zenon DEF PersistTimer
  <2>2. CASE Writing \/ ~dirty
    <3>1. timer' = FALSE /\ UNCHANGED <<status, dirty, write>>
      BY <1>2, <2>2, Zenon DEF PersistTimer
    <3>2. Base
      BY Zenon, <1>0, <1>1, <2>1, <3>1, PersistStep DEF file, env
    <3>3. ShutOK' /\ NoLostChange' /\ DrainedIsDurable'
      BY <2>1, <2>2, <3>1, Zenon DEF IInv, ShutOK, NoLostChange, DrainedIsDurable, Writing, file,
         env
    <3> QED
      BY <3>2, <3>3 DEF IInv
  <2>3. CASE ~(Writing \/ ~dirty)
    <3>1. StartPersistWrite("timer")
      BY <1>2, <2>3, Zenon DEF PersistTimer
    <3>2. /\ Kept /\ dirty' = FALSE /\ timer' = FALSE
          /\ write' = [by |-> "timer", snap |-> status']
      BY <3>1, Pruned, Zenon
    <3>3. Base
      BY Zenon, <1>0, <1>1, <2>1, <3>2, PersistStep DEF file, env
    <3>4. ShutOK' /\ NoLostChange' /\ DrainedIsDurable'
      BY <2>1, <3>2, Zenon DEF IInv, ShutOK, NoLostChange, DrainedIsDurable, Writing
    <3> QED
      BY <3>3, <3>4 DEF IInv
  <2> QED
    BY <2>2, <2>3
<1>3. CASE ShutdownPoll
  <2>1. UNCHANGED <<cancelReq, pending, running, exec, timedOut, cleanup, failures,
                    file, world, env>> /\ shut = "draining"
    BY <1>3, Zenon DEF ShutdownPoll
  <2>2. CASE shut' = "failed" /\ UNCHANGED <<status, persist>>
    <3>1. Base
      BY <1>0, <1>1, <2>1, <2>2, PersistStep, Zenon DEF file, env, persist
    <3>2. ShutOK' /\ NoLostChange' /\ DrainedIsDurable'
      BY <2>1, <2>2, Zenon DEF IInv, ShutOK, NoLostChange, DrainedIsDurable, Writing, file, env,
         persist
    <3> QED
      BY <3>1, <3>2 DEF IInv
  <2>3. CASE /\ running = {} /\ Writing
             /\ shut' = "flushing" /\ timer' = FALSE /\ UNCHANGED <<status, dirty, write>>
    <3>1. Base
      BY Zenon, <1>0, <1>1, <2>1, <2>3, PersistStep DEF file, env
    <3>2. ShutOK' /\ NoLostChange' /\ DrainedIsDurable'
      BY <2>1, <2>3, Zenon DEF IInv, ShutOK, NoLostChange, DrainedIsDurable, Writing, env
    <3> QED
      BY <3>1, <3>2 DEF IInv
  <2>4. CASE running = {} /\ ~Writing /\ FlushPersist(dirty)
    <3>1. CASE dirty /\ StartPersistWrite("flush") /\ shut' = "flushing"
      <4>1. /\ Kept /\ dirty' = FALSE /\ timer' = FALSE
            /\ write' = [by |-> "flush", snap |-> status']
        BY <3>1, Pruned, Zenon
      <4>2. Base
        BY Zenon, <1>0, <1>1, <2>1, <3>1, <4>1, PersistStep DEF file, env
      <4>3. ShutOK' /\ NoLostChange' /\ DrainedIsDurable'
        BY <2>1, <2>4, <3>1, <4>1, Zenon DEF IInv, ShutOK, NoLostChange, DrainedIsDurable, Writing
      <4> QED
        BY <4>2, <4>3 DEF IInv
    <3>2. CASE /\ ~dirty /\ shut' = "drained" /\ dirty' = FALSE /\ timer' = FALSE
               /\ write' = Idle /\ UNCHANGED status
      <4>1. Base
        BY Zenon, <1>0, <1>1, <2>1, <3>2, PersistStep DEF file, env
      <4>2. disk = status /\ pending = <<>>
        BY <1>1, <2>1, <2>4, <3>2, Zenon DEF IInv, NoLostChange, ShutOK
      <4>3. \A t \in Task : status[t] \in Terminal \union {"absent"}
        BY <1>0, <2>4, <4>2, SMTT(30) DEF Consistent, Status, Live
      <4>4. ShutOK' /\ NoLostChange' /\ DrainedIsDurable'
        BY <2>1, <2>4, <3>2, <4>2, <4>3, Zenon DEF ShutOK, NoLostChange, DrainedIsDurable, Writing,
           Idle, file
      <4> QED
        BY <4>1, <4>4 DEF IInv
    <3> QED
      BY Zenon, <2>4, <3>1, <3>2 DEF FlushPersist
  <2> QED
    BY Zenon, <1>3, <2>2, <2>3, <2>4 DEF ShutdownPoll
<1>4. ASSUME NEW ok \in BOOLEAN, WriteDone(ok) PROVE IInv'
  <2>1. /\ Writing
        /\ UNCHANGED <<cancelReq, pending, running, exec, timedOut, cleanup, failures,
                       world, up, crashes>>
    BY <1>4, Zenon DEF WriteDone
  <2>2. \/ ok /\ disk' = write.snap /\ saved' = TRUE /\ writeErrors' = writeErrors
        \/ ~ok /\ writeErrors' = writeErrors + 1 /\ disk' = disk /\ saved' = saved
    BY <1>4, Zenon DEF WriteDone, file
  <2>3. saved' \in BOOLEAN /\ writeErrors' \in 0..MaxWriteErrors
    <3>1. ~ok => writeErrors < MaxWriteErrors
      BY <1>4, Zenon DEF WriteDone
    <3>2. writeErrors' \in 0..MaxWriteErrors
      BY <1>0, <2>2, <3>1
    <3> QED
      BY Zenon, <1>0, <2>2, <3>2
  <2>4. CASE /\ shut # "flushing" /\ write' = Idle /\ dirty' = (dirty \/ ~ok)
             /\ timer' = Rearmed(ok) /\ UNCHANGED <<status, shut>>
    <3>0. dirty' \in BOOLEAN /\ timer' \in BOOLEAN
      BY <1>0, <2>4 DEF Rearmed
    <3>1. Base
      BY <1>0, <1>1, <2>1, <2>2, <2>3, <2>4, <3>0, PersistStep, Zenon
    <3>2. ShutOK' /\ DrainedIsDurable'
      BY <2>1, <2>4, Zenon DEF IInv, ShutOK, DrainedIsDurable
    <3>3. NoLostChange'
      <4>1. ~dirty => status = write.snap
        BY <1>1, <2>1, Zenon DEF IInv, NoLostChange
      <4>2. ~Writing' /\ up' = up /\ status' = status
        BY <2>1, <2>4, Zenon DEF Writing, Idle
      <4>3. CASE ok
        BY Zenon, <2>2, <2>4, <4>1, <4>2, <4>3 DEF NoLostChange, Rearmed
      <4>4. CASE ~ok
        <5>1. dirty' = TRUE /\ writeErrors' = writeErrors + 1
          BY Zenon, <2>2, <2>4, <4>4
        <5>2. writeErrors' > 0
          BY <1>0, <5>1
        <5> QED
          BY <4>2, <5>1, <5>2 DEF NoLostChange
      <4> QED
        BY <4>3, <4>4
    <3> QED
      BY <3>1, <3>2, <3>3, Zenon DEF IInv
  <2>5. CASE shut = "flushing" /\ FlushPersist(dirty \/ ~ok)
    <3>0. running = {} /\ pending = <<>>
      BY <2>5 DEF IInv, ShutOK
    <3>1. CASE StartPersistWrite("flush") /\ shut' = "flushing"
      <4>1. /\ Kept /\ dirty' = FALSE /\ timer' = FALSE
            /\ write' = [by |-> "flush", snap |-> status']
        BY <3>1, Pruned, Zenon
      <4>2. disk' = disk \/ (Writing /\ disk' = write.snap)
        BY <2>1, <2>2, Zenon
      <4>3. Base
        BY Zenon, <1>0, <1>1, <2>1, <2>3, <2>5, <3>1, <4>1, <4>2, PersistStep
      <4>4. ShutOK' /\ NoLostChange' /\ DrainedIsDurable'
        BY <2>1, <3>0, <3>1, <4>1, Zenon DEF ShutOK, NoLostChange, DrainedIsDurable, Writing
      <4> QED
        BY <4>3, <4>4, Zenon DEF IInv
    <3>2. CASE /\ ~(dirty \/ ~ok) /\ shut' = "drained" /\ dirty' = FALSE /\ timer' = FALSE
               /\ write' = Idle /\ UNCHANGED status
      <4>1. Base
        BY Zenon, <1>0, <1>1, <2>1, <2>2, <2>3, <2>5, <3>2, PersistStep
      <4>2. disk' = status
        BY <1>1, <2>1, <2>2, <3>2, Zenon DEF IInv, NoLostChange
      <4>3. \A t \in Task : status[t] \in Terminal \union {"absent"}
        BY <1>0, <3>0, SMTT(30) DEF Consistent, Status, Live
      <4>4. ShutOK' /\ NoLostChange' /\ DrainedIsDurable'
        BY <2>1, <3>0, <3>2, <4>2, <4>3, Zenon DEF ShutOK, NoLostChange, DrainedIsDurable, Writing,
           Idle
      <4> QED
        BY <4>1, <4>4 DEF IInv
    <3> QED
      BY Zenon, <2>5, <3>1, <3>2 DEF FlushPersist
  <2>6. CASE /\ shut = "flushing" /\ ~ok /\ shut' = "failed" /\ write' = Idle /\ dirty' = TRUE
             /\ UNCHANGED <<status, timer>>
    <3>1. Base
      BY <1>0, <1>1, <2>1, <2>2, <2>3, <2>6, PersistStep, ZenonT(30)
    <3>2. ShutOK' /\ NoLostChange' /\ DrainedIsDurable'
      BY <1>0, <2>1, <2>2, <2>6, SMTT(30) DEF IInv, ShutOK, NoLostChange, DrainedIsDurable
    <3> QED
      BY <3>1, <3>2 DEF IInv
  <2> QED
    BY Zenon, <1>4, <2>4, <2>5, <2>6 DEF WriteDone
<1> QED
  BY <1>2, <1>3, <1>4

\* A timeout, a control record, the escalation to SIGKILL, an exit in the process
\* group and the deadline of shutdown move no task.
LEMMA QuietStep ==
    ASSUME IInv, NEW t \in Task,
           \/ TaskTimeout(t) \/ OnControl(t) \/ CleanupKill(t)
           \/ LeaderExits(t) \/ OrphansExit(t) \/ ShutdownTimeout
    PROVE  IInv'
<1>1. CASE TaskTimeout(t)
  <2>1. /\ timedOut' = [timedOut EXCEPT ![t] = TRUE]
        /\ UNCHANGED <<status, cancelReq, pending, running, exec, cleanup, failures, shut,
                       persist, file, world, env>>
    BY <1>1, Zenon DEF TaskTimeout
  <2>2. TypeOK'
    BY <2>1, Zenon DEF IInv, TypeOK, persist, file, world, env
  <2>3. Consistent(status', pending', running', exec')
    BY Zenon, <2>1 DEF IInv
  <2>4. NoStrandedTask' /\ RunOnce' /\ CancelOK' /\ CancelledGroupGone' /\ ShutOK'
    BY Zenon, <2>1 DEF IInv, NoStrandedTask, RunOnce, CancelOK, CancelledGroupGone, ShutOK,
              Writing, persist, file, world, env
  <2>5. DownOK' /\ NoLostChange' /\ DrainedIsDurable' /\ DurableOK'
    BY Zenon, <2>1 DEF IInv, DownOK, NoLostChange, DrainedIsDurable, DurableOK, Writing,
              persist, file, world, env
  <2> QED
    BY <2>1, <2>2, <2>3, <2>4, <2>5, Zenon DEF IInv
<1>2. CASE OnControl(t)
  <2>1. /\ up /\ exec[t] = "running" /\ dirty' = TRUE /\ timer' = (timer \/ ~Writing)
        /\ write' = write
        /\ UNCHANGED <<memory, file, world, env>>
    BY Zenon, <1>2 DEF OnControl, PersistTasks
  <2>2. t \in running
    BY <2>1, Zenon DEF IInv
  <2>3. TypeOK' /\ Consistent(status', pending', running', exec')
    <3>1. TypeOK'
      BY <2>1, Zenon DEF IInv, TypeOK, memory, file, world, env
    <3>2. Consistent(status', pending', running', exec')
      BY Zenon, <2>1 DEF IInv, memory
    <3> QED
      BY <3>1, <3>2
  <2>4. NoStrandedTask' /\ RunOnce' /\ CancelOK' /\ CancelledGroupGone' /\ ShutOK'
    BY Zenon, <2>1 DEF IInv, NoStrandedTask, RunOnce, CancelOK, CancelledGroupGone, ShutOK, Writing,
                memory, file, world, env
  <2>5. DownOK' /\ NoLostChange' /\ DurableOK'
    BY Zenon, <2>1 DEF IInv, DownOK, NoLostChange, DurableOK, Writing, memory, file, world, env
  <2>6. DrainedIsDurable'
    BY Zenon, <2>1, <2>2 DEF IInv, ShutOK, DrainedIsDurable, memory
  <2> QED
    BY <2>1, <2>3, <2>4, <2>5, <2>6, Zenon DEF IInv, memory
<1>3. CASE CleanupKill(t)
  <2>1. /\ up /\ cleanup[t] = "term" /\ cleanup' = [cleanup EXCEPT ![t] = "kill"]
        /\ UNCHANGED <<status, cancelReq, pending, running, exec, timedOut, failures, shut,
                       persist, file, world, env>>
    BY <1>3, Zenon DEF CleanupKill
  <2>2. /\ cleanup' \in [Task -> {"none", "term", "kill", "done", "failed"}]
        /\ \A u \in Task : cleanup'[u] = IF u = t THEN "kill" ELSE cleanup[u]
    BY <2>1, Zenon DEF IInv, TypeOK
  <2>3. TypeOK' /\ Consistent(status', pending', running', exec')
    <3>1. TypeOK'
      BY <2>1, <2>2, Zenon DEF IInv, TypeOK, persist, file, world, env
    <3>2. Consistent(status', pending', running', exec')
      BY Zenon, <2>1 DEF IInv
    <3> QED
      BY <3>1, <3>2
  <2>4. RunOnce' /\ CancelOK'
    <3>1. RunOnce'
      BY <2>1, <2>2, Zenon DEF IInv, RunOnce, persist, file, world
    <3>2. CancelOK'
      BY <2>1, <2>2, Zenon DEF IInv, CancelOK, world, env
    <3> QED
      BY <3>1, <3>2
  <2>5. NoStrandedTask' /\ CancelledGroupGone' /\ ShutOK'
    BY Zenon, <2>1 DEF IInv, NoStrandedTask, CancelledGroupGone, ShutOK, Writing,
                persist, file, world, env
  <2>6. DownOK' /\ NoLostChange' /\ DrainedIsDurable' /\ DurableOK'
    BY <2>1, Zenon DEF IInv, DownOK, NoLostChange, DrainedIsDurable, DurableOK, Writing, persist,
       file, world, env
  <2> QED
    BY <2>1, <2>3, <2>4, <2>5, <2>6, Zenon DEF IInv
<1>4. CASE LeaderExits(t) \/ OrphansExit(t)
  <2>1. /\ proc[t] \in {"leader", "orphans"}
        /\ \E left \in {"orphans", "gone"} : proc' = [proc EXCEPT ![t] = left]
        /\ UNCHANGED <<memory, persist, file, spawns, rejected, used, env>>
    BY <1>4, Zenon DEF LeaderExits, OrphansExit
  <2>2. /\ proc' \in [Task -> {"none", "nopid", "leader", "orphans", "gone"}]
        /\ \A u \in Task : u # t => proc'[u] = proc[u]
        /\ proc'[t] \in {"orphans", "gone"}
    BY <2>1, SMTT(30) DEF IInv, TypeOK
  <2>3. TypeOK' /\ Consistent(status', pending', running', exec')
    <3>1. TypeOK'
      BY <2>1, <2>2, Zenon DEF IInv, TypeOK, memory, persist, file, env
    <3>2. Consistent(status', pending', running', exec')
      BY Zenon, <2>1 DEF IInv, memory
    <3> QED
      BY <3>1, <3>2
  <2>4. RunOnce' /\ CancelOK' /\ CancelledGroupGone'
    <3>1. RunOnce'
      BY <2>1, <2>2, Zenon DEF IInv, RunOnce, memory, persist, file
    <3>2. CancelOK'
      BY <2>1, <2>2, Zenon DEF IInv, CancelOK, memory, env
    <3>3. CancelledGroupGone'
      BY <2>1, <2>2, Zenon DEF IInv, CancelOK, CancelledGroupGone, memory
    <3> QED
      BY <3>1, <3>2, <3>3
  <2>5. NoStrandedTask' /\ ShutOK' /\ DownOK' /\ NoLostChange' /\ DrainedIsDurable' /\ DurableOK'
    BY <2>1, Zenon DEF IInv, NoStrandedTask, ShutOK, DownOK, NoLostChange, DrainedIsDurable,
       DurableOK, Writing, memory, persist, file, env
  <2> QED
    BY <2>1, <2>3, <2>4, <2>5, Zenon DEF IInv, memory
<1>5. CASE ShutdownTimeout
  <2>1. /\ up /\ shut = "draining" /\ shut' = "failed"
        /\ UNCHANGED <<status, cancelReq, pending, running, exec, timedOut, cleanup, failures,
                       persist, file, world, env>>
    BY <1>5, Zenon DEF ShutdownTimeout
  <2>2. TypeOK'
    BY <2>1, Zenon DEF IInv, TypeOK, persist, file, world, env
  <2>3. Consistent(status', pending', running', exec')
    BY Zenon, <2>1 DEF IInv
  <2>4. NoStrandedTask' /\ RunOnce' /\ CancelOK' /\ CancelledGroupGone'
    BY Zenon, <2>1 DEF IInv, NoStrandedTask, RunOnce, CancelOK, CancelledGroupGone,
              persist, file, world, env
  <2>5. ShutOK' /\ DownOK' /\ NoLostChange' /\ DrainedIsDurable' /\ DurableOK'
    BY Zenon, <2>1 DEF IInv, ShutOK, DownOK, NoLostChange, DrainedIsDurable, DurableOK, Writing,
              persist, file, world, env
  <2> QED
    BY <2>1, <2>2, <2>3, <2>4, <2>5, Zenon DEF IInv
<1> QED
  BY <1>1, <1>2, <1>3, <1>4, <1>5

(***************************************************************************)
(* A crash and the restart after it.                                       *)
(***************************************************************************)
\* A crash.
LEMMA CrashStep ==
    ASSUME IInv, Crash
    PROVE  IInv'
<1>1. /\ ~up' /\ up' \in BOOLEAN /\ crashes < MaxCrashes /\ crashes' = crashes + 1
      /\ status' = NoTasks /\ pending' = <<>> /\ running' = {} /\ failures' = {}
      /\ cancelReq' = [t \in Task |-> FALSE] /\ timedOut' = [t \in Task |-> FALSE]
      /\ exec' = [t \in Task |-> "none"] /\ cleanup' = [t \in Task |-> "none"]
      /\ shut' = "no" /\ ~dirty' /\ ~timer' /\ dirty' \in BOOLEAN /\ timer' \in BOOLEAN
      /\ write' = Idle
      /\ proc' = proc /\ spawns' = spawns /\ rejected' = rejected /\ used' = used
      /\ writeErrors' = writeErrors
  BY Zenon DEF Crash, world
<1>2. disk' = disk \/ disk' = write.snap
  BY Zenon DEF Crash, file
<1>3. saved' \in BOOLEAN
  BY Zenon DEF Crash, file, IInv, TypeOK
<1>4. TypeOK'
  <2>1. status' \in [Task -> Status] /\ disk' \in [Task -> Status]
        /\ write' \in [by : {"nobody", "timer", "flush"}, snap : [Task -> Status]]
    BY <1>1, <1>2, Zenon DEF IInv, TypeOK, NoTasks, Idle, Status
  <2>2. pending' \in Seq(Task)
    BY <1>1, SMTT(30)
  <2>3. crashes' \in 0..MaxCrashes
    BY <1>1, BoundAssumption, SMTT(30) DEF IInv, TypeOK
  <2>4. /\ cancelReq' \in [Task -> BOOLEAN] /\ timedOut' \in [Task -> BOOLEAN]
        /\ exec' \in [Task -> {"none", "running", "draining"}]
        /\ cleanup' \in [Task -> {"none", "term", "kill", "done", "failed"}]
        /\ running' \subseteq Task /\ failures' \subseteq Task
        /\ shut' \in {"no", "draining", "flushing", "drained", "failed"}
    BY <1>1, Zenon
  <2>5. /\ proc' \in [Task -> {"none", "nopid", "leader", "orphans", "gone"}]
        /\ spawns' \in [Task -> Nat] /\ rejected' \in [Task -> BOOLEAN] /\ used' \subseteq Task
        /\ writeErrors' \in 0..MaxWriteErrors
    BY <1>1, Zenon DEF IInv, TypeOK
  <2> QED
    BY <1>1, <1>3, <2>1, <2>2, <2>3, <2>4, <2>5, Zenon DEF TypeOK
<1>5. Consistent(status', pending', running', exec')
  <2>1. IsFiniteSet({}) /\ Cardinality({}) = 0 /\ Len(<<>>) = 0
    BY FS_EmptySet
  <2> QED
    BY <1>1, <1>4, <2>1, MaxConcurrentAssumption, SMTT(30) DEF TypeOK, Consistent, NoTasks
<1>6. NoStrandedTask' /\ \A t \in Task : t \in running' <=> exec'[t] # "none"
  BY <1>1, Zenon DEF NoStrandedTask
<1>7. RunOnce' /\ CancelOK' /\ CancelledGroupGone'
  BY <1>1, <1>2, ZenonT(30) DEF IInv, RunOnce, CancelOK, CancelledGroupGone, NoTasks, Idle
<1>8. ShutOK' /\ DownOK' /\ NoLostChange' /\ DrainedIsDurable' /\ DurableOK'
  BY <1>1, Zenon DEF ShutOK, DownOK, NoLostChange, DrainedIsDurable, DurableOK
<1> QED
  BY <1>4, <1>5, <1>6, <1>7, <1>8, Zenon DEF IInv

\* What a restart relies on: without a queue file nothing was ever written, and a
\* dead process holds no cancellation. Inductive by itself.
RestartOK ==
    /\ ~saved => disk = NoTasks
    /\ ~up => cancelReq = [t \in Task |-> FALSE]

\* RestartOK is inductive by itself: only persisting writes the file, and a crash
\* forgets all cancellations.
LEMMA RestartOKHolds ==
    ASSUME RestartOK, [Next]_vars
    PROVE  RestartOK'
<1>1. CASE UNCHANGED vars
  BY <1>1, Zenon DEF RestartOK, vars, memory, file, env
<1>2. ASSUME NEW t \in Task,
             \/ EnqueueTask(t) \/ CancelTask(t) \/ TaskTimeout(t) \/ OnControl(t)
             \/ CleanupKill(t) \/ LeaderExits(t) \/ OrphansExit(t)
      PROVE  RestartOK'
  <2>1. up' = up /\ (up \/ cancelReq' = cancelReq) /\ UNCHANGED <<saved, disk>>
    BY Zenon, <1>2 DEF EnqueueTask, CancelTask, TaskTimeout, OnControl, CleanupKill, LeaderExits,
           OrphansExit, memory, file, env
  <2> QED
    BY <2>1, Zenon DEF RestartOK
<1>3. ASSUME NEW t \in Task,
             \/ ExecutorResolves(t) \/ ExecutorRejects(t) \/ CleanupAbsent(t) \/ CleanupFails(t)
      PROVE  RestartOK'
  <2>1. UNCHANGED <<cancelReq, up, saved, disk>>
    BY Zenon, <1>3 DEF ExecutorResolves, ExecutorRejects, CleanupAbsent, CleanupFails, Finish,
           file, env
  <2> QED
    BY <2>1 DEF RestartOK
<1>4. CASE PersistTimer \/ ShutdownPoll \/ \E ok \in BOOLEAN : WriteDone(ok)
  <2>1. cancelReq' = cancelReq /\ up' = up /\ (saved' = TRUE \/ UNCHANGED <<saved, disk>>)
    BY <1>4, Zenon DEF PersistTimer, ShutdownPoll, WriteDone, file, env
  <2> QED
    BY <2>1, Zenon DEF RestartOK
<1>5. CASE Shutdown \/ ShutdownTimeout
  BY <1>5, SMTT(30) DEF RestartOK, Shutdown, ShutdownTimeout, file, env
<1>6. CASE Crash \/ Initialize
  BY <1>6, Zenon DEF RestartOK, Crash, Initialize, file
<1> QED
  BY <1>1, <1>2, <1>3, <1>4, <1>5, <1>6, Zenon DEF Next

\* A restart.
LEMMA InitializeStep ==
    ASSUME IInv, RestartOK, Initialize
    PROVE  IInv'
<1>1. /\ ~up /\ up' = TRUE /\ dirty' = saved /\ timer' = saved
      /\ status' = [t \in Task |-> Restored(disk[t])]
      /\ UNCHANGED <<cancelReq, pending, running, exec, timedOut, cleanup, failures, shut,
                     write, disk, saved, proc, spawns, rejected, used, crashes, writeErrors>>
  BY Zenon DEF Initialize, file, world
<1>2. /\ pending = <<>> /\ running = {} /\ shut = "no" /\ write = Idle
      /\ exec = [t \in Task |-> "none"] /\ cancelReq = [t \in Task |-> FALSE]
  BY <1>1, Zenon DEF IInv, DownOK, RestartOK
<1>3. /\ status' \in [Task -> Status]
      /\ \A t \in Task : status'[t] \in Terminal \union {"absent"}
      /\ \A t \in Task : disk[t] \in Terminal \union {"absent"} => status'[t] = disk[t]
  BY <1>1, Zenon DEF IInv, TypeOK, Restored, Status, Live, Terminal
<1>4. TypeOK'
  BY <1>1, <1>3, Zenon DEF IInv, TypeOK
<1>5. Consistent(status', pending', running', exec')
  <2>1. Len(<<>>) = 0
    OBVIOUS
  <2> QED
    BY <1>1, <1>2, <1>3, SMTT(30) DEF IInv, Consistent, Terminal
<1>6. NoStrandedTask' /\ \A t \in Task : t \in running' <=> exec'[t] # "none"
  BY <1>1, <1>2, Zenon DEF NoStrandedTask
<1>7. RunOnce'
  BY <1>1, <1>3, Zenon DEF IInv, RunOnce, Terminal
<1>8. CancelOK'
  BY <1>1, <1>2, <1>3, Zenon DEF IInv, CancelOK, Terminal
<1>9. CancelledGroupGone' /\ ShutOK' /\ DownOK' /\ DrainedIsDurable'
  BY <1>1, <1>2, Zenon DEF CancelledGroupGone, ShutOK, DownOK, DrainedIsDurable
<1>10. NoLostChange'
  <2>1. CASE saved
    BY <1>1, <2>1, Zenon DEF NoLostChange
  <2>2. CASE ~saved
    <3>1. disk = NoTasks
      BY <2>2 DEF RestartOK
    <3>2. status' = disk
      BY <1>1, <3>1, Zenon DEF NoTasks, Restored
    <3> QED
      BY <1>1, <1>2, <3>2, Zenon DEF NoLostChange, Writing, Idle
  <2> QED
    BY <2>1, <2>2
<1>11. DurableOK'
  BY <1>1, <1>2, <1>3, Zenon DEF DurableOK, Writing, Idle
<1> QED
  BY <1>4, <1>5, <1>6, <1>7, <1>8, <1>9, <1>10, <1>11, Zenon DEF IInv
===============================================================================

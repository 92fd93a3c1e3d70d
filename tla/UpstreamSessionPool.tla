-------------------------- MODULE UpstreamSessionPool --------------------------
(***************************************************************************)
(* The Router's pool of upstream MCP sessions                              *)
(* (cli/server/mcp-proxy/upstreamSessionPool.js), its caller withPool in   *)
(* mcp-proxy/index.js, and the sessions of the agents it talks to          *)
(* (Agent/server/AgentServer.mjs).                                         *)
(*                                                                         *)
(* An action is one callback of the Router's event loop up to its next     *)
(* await.  A promise that is settled and not yet resumed is a state of its *)
(* own ("opened", "acquired", "granted", "lost"), so another callback may  *)
(* come between: the event loop runs such resumptions first, and the model *)
(* has more interleavings than the code, never fewer.  Timers (deadlines,  *)
(* idle times) may fire whenever they are armed.                           *)
(*                                                                         *)
(* The edge generation is the number of its activation; a later activation *)
(* may select earlier contents again, and the pool key holds the contents  *)
(* only, so two activations can share a key.                               *)
(***************************************************************************)
EXTENDS Naturals, Sequences, FiniteSets

CONSTANTS
    Request,      \* proxied MCP requests
    Tool,         \* those that call a tool; the others are idempotent
    Route,        \* agent routes, one agent process each
    Entry,        \* pool entries, reused once nothing refers to them
    Session,      \* session ids, reused once nobody knows them
    None,
    MaxEntries,   \* pool option maxEntries
    MaxInflight,  \* MAX_INFLIGHT_PER_ENTRY
    Generation,   \* the edge generation that each activation selects
    MaxFaults     \* bound: agent restarts, sessions the agent collects, invalidations

ASSUME PoolAssumption ==
    /\ Tool \subseteq Request /\ None \notin Session \union Entry
    /\ MaxEntries \in Nat \ {0} /\ MaxInflight \in Nat \ {0} /\ MaxFaults \in Nat
    /\ Generation \in Seq(Nat) /\ Generation # <<>>

VARIABLES
    pool,     \* entries, maps and requests of the pool
    act,      \* the current activation of the edge generation
    session,  \* the agents: the route whose agent keeps a session, or None
    faults

vars == <<pool, act, session, faults>>

Key == Route \X {Generation[a] : a \in DOMAIN Generation}
NoEntry == [key |-> None, sid |-> None, ack |-> FALSE, opening |-> "no", opener |-> 0,
            inflight |-> 0, active |-> 0, waiters |-> <<>>, closed |-> FALSE,
            clean |-> "no", del |-> None]
NewRequest == [st |-> "idle", err |-> "none", route |-> None, act |-> 0, e |-> None,
               tries |-> 0, round |-> 0, on |-> None, exec |-> "no", runs |-> 0]
EntryState == [key : Key \union {None}, sid : Session \union {None}, ack : BOOLEAN,
               opening : {"no", "init", "ack"}, opener : Nat, inflight : Nat, active : Nat,
               waiters : Seq(Request), closed : BOOLEAN,
               clean : {"no", "deleting", "done"}, del : Session \union {None}]
RequestState == [st : {"idle", "opening", "opened", "acquired", "waiting", "granted", "posted",
                       "lost", "ensuring", "sdk", "done", "failed"},
                 err : {"none", "retry", "fatal", "mismatch"}, route : Route \union {None},
                 act : Nat, e : Entry \union {None}, tries : 0..1, round : 0..2,
                 on : Session \union {None}, exec : {"no", "sent", "running", "reset"},
                 runs : Nat]
TypeOK ==
    /\ pool \in [entry : [Entry -> EntryState], lru : Seq(Entry), slots : Seq(Key),
                 ready : SUBSET Key, fallback : Seq(Key), req : [Request -> RequestState],
                 known : SUBSET Session, shut : {"no", "closing", "closed"},
                 retiring : SUBSET Entry]
    /\ act \in DOMAIN Generation
    /\ session \in [Session -> Route \union {None}]
    /\ faults \in 0..MaxFaults

Init ==
    /\ pool = [entry |-> [e \in Entry |-> NoEntry], lru |-> <<>>, slots |-> <<>>,
               ready |-> {}, fallback |-> <<>>, req |-> [r \in Request |-> NewRequest],
               known |-> {}, shut |-> "no", retiring |-> {}]
    /\ act = 1 /\ session = [s \in Session |-> None] /\ faults = 0

-----------------------------------------------------------------------------
(* The pool's functions.  Each takes the pool p before it and is the pool  *)
(* after it.                                                               *)

Without(seq, x) == SelectSeq(seq, LAMBDA y : y # x)
KeyOf(p, r) == <<p.req[r].route, Generation[p.req[r].act]>>
Open(p) == p.shut = "no"

\* Objects nobody refers to any more are reused.
Collected(p) ==
    LET dead(e) == p.entry[e].clean = "done" /\ \A r \in Request : p.req[r].e # e
    IN  [p EXCEPT !.entry = [e \in Entry |-> IF dead(e) THEN NoEntry ELSE p.entry[e]]]

\* Mutant: an entry is cleaned up while its opening is under way.
FinishCloseWhileOpening(p, e) ==
    LET en == p.entry[e]
    IN  IF ~en.closed \/ en.inflight > 0 \/ en.clean # "no" THEN p
        ELSE [p EXCEPT
                !.entry[e] = [en EXCEPT !.sid = None, !.ack = FALSE, !.del = en.sid,
                                        !.clean = IF en.sid = None THEN "done" ELSE "deleting"],
                !.known = @ \ {en.sid}]

\* Mutant: an entry is cleaned up at once, whatever is in flight on it.
FinishCloseAtOnce(p, e) ==
    LET en == p.entry[e]
    IN  IF ~en.closed \/ en.opening # "no" \/ en.clean # "no" THEN p
        ELSE [p EXCEPT
                !.entry[e] = [en EXCEPT !.sid = None, !.ack = FALSE, !.del = en.sid,
                                        !.clean = IF en.sid = None THEN "done" ELSE "deleting"],
                !.known = @ \ {en.sid}]

\* known is a history variable: the ids received and not yet handed to a DELETE.
FinishClose(p, e) ==
    LET en == p.entry[e]
    IN  IF ~en.closed \/ en.opening # "no" \/ en.inflight > 0 \/ en.clean # "no" THEN p
        ELSE [p EXCEPT
                !.entry[e] = [en EXCEPT !.sid = None, !.ack = FALSE, !.del = en.sid,
                                        !.clean = IF en.sid = None THEN "done" ELSE "deleting"],
                !.known = @ \ {en.sid}]

\* evict with rejectWaiters: a waiting request is rejected and resumes later.
EvictAs(p, e, waiterError) ==
    LET en == p.entry[e]
        q == [p EXCEPT !.ready = @ \ {en.key}, !.lru = Without(@, e)]
        rejected == {en.waiters[i] : i \in DOMAIN en.waiters}
    IN  IF en.closed THEN q
        ELSE FinishClose(
               [q EXCEPT !.entry[e] = [en EXCEPT !.closed = TRUE, !.waiters = <<>>],
                         !.req = [r \in Request |->
                            IF r \in rejected
                            THEN [q.req[r] EXCEPT !.st = "lost", !.err = waiterError]
                            ELSE q.req[r]]], e)
Evict(p, e) == EvictAs(p, e, "retry")

\* Mutant: a freed slot is left for the next newcomer.
ReleaseSlotOnly(p, e) == [p EXCEPT !.entry[e].active = @ - 1]

\* releaseSlot: hand free slots to the requests that wait longest.
ReleaseSlot(p, e) ==
    LET en == p.entry[e]
        free == MaxInflight - (en.active - 1)
        n == IF free < Len(en.waiters) THEN free ELSE Len(en.waiters)
        granted == {en.waiters[i] : i \in 1..n}
    IN  [p EXCEPT !.entry[e] = [en EXCEPT !.active = @ - 1 + n,
                                          !.waiters = SubSeq(@, n + 1, Len(@))],
                  !.req = [r \in Request |-> IF r \in granted
                                             THEN [p.req[r] EXCEPT !.st = "granted"]
                                             ELSE p.req[r]]]
Release(p, e) == FinishClose([p EXCEPT !.entry[e].inflight = @ - 1], e)

MarkFallback(p, k) ==
    IF ~Open(p) THEN p
    ELSE LET all == Append(Without(p.fallback, k), k)
         IN  [p EXCEPT !.fallback =
                SubSeq(all, IF Len(all) > MaxEntries THEN 2 ELSE 1, Len(all))]

\* handleFailure: every error of the pool's own codes evicts; a mismatch also sends
\* the key to the per-call client.
HandleFailure(p, e, err) ==
    IF err = "mismatch" THEN MarkFallback(Evict(p, e), p.entry[e].key) ELSE Evict(p, e)

\* A new key of the route evicts the entry and the readiness of the previous key.
ClaimSlot(p, k) ==
    LET old == {q \in {p.slots[i] : i \in DOMAIN p.slots} : q[1] = k[1]}
        stale == {e \in {p.lru[i] : i \in DOMAIN p.lru} : p.entry[e].key \in old \ {k}}
        evicted == IF stale = {} THEN p ELSE Evict(p, CHOOSE e \in stale : TRUE)
        slots == Append(SelectSeq(p.slots, LAMBDA q : q[1] # k[1]), k)
    IN  [evicted EXCEPT
            !.ready = @ \ (old \ {k}),
            !.fallback = SelectSeq(@, LAMBDA q : q \notin old \ {k}),
            !.slots = SubSeq(slots, IF Len(slots) > MaxEntries THEN 2 ELSE 1, Len(slots))]

\* A request that has left the pool, after n more runs.
Over(q, st, n) == [NewRequest EXCEPT !.st = st, !.runs = q.runs + n]

\* Mutant: any failure but a mismatch is retried once.
CaughtRetryAll(p, r, err) ==
    LET st == IF ~Open(p) THEN "failed"
              ELSE IF err # "mismatch" /\ p.req[r].tries = 0 THEN "ensuring"
              ELSE IF err = "mismatch" THEN "sdk"
              ELSE "failed"
    IN  [p EXCEPT !.req[r] = IF st = "ensuring"
                             THEN [@ EXCEPT !.st = st, !.err = "none", !.e = None, !.round = 0,
                                            !.on = None, !.exec = "no"]
                             ELSE Over(@, st, 0)]

\* The catch of request(), and withPool around it: a failure before the dispatch is
\* retried once, after ensureReady; a mismatch takes the per-call client when nothing
\* ran or the method is idempotent; every other error is the caller's.
Caught(p, r, err) ==
    LET st == IF ~Open(p) THEN "failed"
              ELSE IF err = "retry" /\ p.req[r].tries = 0 THEN "ensuring"
              ELSE IF err = "mismatch" THEN "sdk"
              ELSE "failed"
    IN  [p EXCEPT !.req[r] = IF st = "ensuring"
                             THEN [@ EXCEPT !.st = st, !.err = "none", !.e = None, !.round = 0,
                                            !.on = None, !.exec = "no"]
                             ELSE Over(@, st, 0)]

\* beforeDial: the lease of the route plan is the selected activation.
BeforeDial(a) == a = act

\* The end of openSession, whatever ended it: the catch, the finally and the
\* resumption of the requests that await entry.opening.
OpeningEnds(p, e, err) ==
    LET evicted == IF err = "none" THEN p ELSE Evict(HandleFailure(p, e, err), e)
        cleared == FinishClose([evicted EXCEPT !.entry[e].opening = "no",
                                               !.entry[e].opener = 0], e)
    IN  [cleared EXCEPT !.req = [r \in Request |->
            IF cleared.req[r].st = "opening" /\ cleared.req[r].e = e
            THEN [cleared.req[r] EXCEPT !.st = "opened", !.err = err] ELSE cleared.req[r]]]

\* entries.get(key), and whether acquire may use the entry found: it is not past its idle
\* time, and has no session id that was never acknowledged.
Found(p, k) == {e \in {p.lru[i] : i \in DOMAIN p.lru} : p.entry[e].key = k}
Usable(p, k, idle) ==
    {e \in Found(p, k) : ~idle /\ (p.entry[e].opening # "no" \/ p.entry[e].sid = None
                                      \/ p.entry[e].ack)}

\* One round of acquire up to its await.  idle: the entry found is past its idle time.
AcquireRound(p, r, idle, fresh) ==
    LET k == KeyOf(p, r)
        found == Found(p, k)
        usable == Usable(p, k, idle)
        kept == IF found = usable THEN p ELSE Evict(p, CHOOSE e \in found : TRUE)
        e == IF usable = {} THEN fresh ELSE CHOOSE x \in usable : TRUE
        placed == IF usable # {} THEN [kept EXCEPT !.lru = Append(Without(@, e), e)]
                  ELSE LET added == [kept EXCEPT !.entry[e] = [NoEntry EXCEPT !.key = k],
                                                 !.lru = Append(@, e)]
                       IN  IF Len(added.lru) > MaxEntries THEN Evict(added, added.lru[1])
                           ELSE added
        held == [placed EXCEPT !.req[r].e = e]
    IN  IF held.entry[e].opening # "no" THEN [held EXCEPT !.req[r].st = "opening"]
        ELSE IF held.entry[e].ack THEN [held EXCEPT !.req[r].st = "acquired"]
        ELSE LET opened == [held EXCEPT !.req[r].st = "opening",
                                        !.entry[e].opening = "init",
                                        !.entry[e].opener = p.req[r].act]
             IN  IF BeforeDial(p.req[r].act) THEN opened ELSE OpeningEnds(opened, e, "fatal")

\* Acquire from request r; an entry that has to be created is a free object.
Acquire(p, r) ==
    LET k == KeyOf(p, r)
    IN  \E idle \in BOOLEAN, fresh \in Entry :
            /\ Usable(p, k, idle) = {} => p.entry[fresh] = NoEntry
            /\ idle => \E e \in Found(p, k) : /\ p.entry[e].inflight = 0
                                              /\ p.entry[e].opening = "no"
            /\ pool' = Collected(AcquireRound(p, r, idle, fresh))

-----------------------------------------------------------------------------
(* request() *)

\* withPool: a key with a recorded mismatch goes to the per-call client; any other
\* claims the slot of its route and makes its first attempt.
Start(r, route, a) ==
    /\ pool.req[r].st = "idle" /\ a <= act
    /\ LET p == [pool EXCEPT !.req[r] = [@ EXCEPT !.route = route, !.act = a]]
           k == <<route, Generation[a]>>
       IN  IF \E i \in DOMAIN p.fallback : p.fallback[i] = k
           THEN pool' = [p EXCEPT !.req[r] = Over(@, "sdk", 0)]
           ELSE IF Open(p) THEN Acquire(ClaimSlot(p, k), r)
           ELSE pool' = [p EXCEPT !.req[r] = Over(@, "failed", 0)]
    /\ UNCHANGED <<act, session, faults>>

\* The await of entry.opening resumes: its error is thrown to request(); otherwise the
\* entry is served if it is still live, and looked up again for at most three rounds.
OpeningResumed(r) ==
    /\ pool.req[r].st = "opened"
    /\ LET q == pool.req[r]
           en == pool.entry[q.e]
       IN  IF q.err # "none" THEN pool' = Collected(Caught(pool, r, q.err))
           ELSE IF ~Open(pool) THEN pool' = Collected(Caught(pool, r, "fatal"))
           ELSE IF ~en.closed /\ en.sid # None /\ en.ack
                THEN pool' = [pool EXCEPT !.req[r].st = "acquired"]
           ELSE IF q.round = 2 THEN pool' = Collected(Caught(pool, r, "fatal"))
           ELSE Acquire(Collected([pool EXCEPT !.req[r].round = @ + 1, !.req[r].e = None]), r)
    /\ UNCHANGED <<act, session, faults>>

\* attempt() after an await that left it with a slot: what follows the checks, up to the
\* POST, is synchronous.  late: the deadline passed; refuses: beforeDispatch or the mint
\* threw, which is the caller's error and leaves the session alone.
Dispatched(p, r, late, refuses) ==
    LET e == p.req[r].e
        en == p.entry[e]
        left(q, err) == Caught(Release(ReleaseSlot(q, e), e), r, err)
    IN  IF ~Open(p) THEN left(Evict(p, e), "fatal")
        ELSE IF late THEN left([p EXCEPT !.ready = @ \ {en.key}], "fatal")
        ELSE IF en.closed \/ en.sid = None \/ ~en.ack THEN left(Evict(p, e), "retry")
        ELSE IF ~BeforeDial(p.req[r].act) THEN left(Evict(p, e), "fatal")
        ELSE IF refuses THEN left(p, "fatal")
        ELSE [p EXCEPT !.req[r] = [@ EXCEPT !.st = "posted", !.on = en.sid, !.exec = "sent"]]

\* attempt() once acquire returned: takeSlot, at once or in the entry's queue.
TakeSlot(r, late, refuses) ==
    /\ pool.req[r].st = "acquired"
    /\ LET e == pool.req[r].e
           en == pool.entry[e]
           counted == [pool EXCEPT !.entry[e].inflight = @ + 1]
       IN  pool' = Collected(
             IF ~Open(pool) THEN Caught(pool, r, "fatal")
             ELSE IF en.active < MaxInflight /\ en.waiters = <<>>
             THEN Dispatched([counted EXCEPT !.entry[e].active = @ + 1], r, late, refuses)
             ELSE [counted EXCEPT !.entry[e].waiters = Append(@, r),
                                  !.req[r].st = "waiting"])
    /\ UNCHANGED <<act, session, faults>>

\* A queued request resumes with the slot that releaseSlot took for it.
SlotGranted(r, late, refuses) ==
    /\ pool.req[r].st = "granted"
    /\ pool' = Collected(Dispatched(pool, r, late, refuses))
    /\ UNCHANGED <<act, session, faults>>

\* The waiter's timer: it leaves the queue, and the failure drops the readiness only.
WaiterTimesOut(r) ==
    /\ pool.req[r].st = "waiting"
    /\ LET e == pool.req[r].e
           left == [pool EXCEPT !.entry[e].waiters = Without(@, r),
                                !.ready = @ \ {pool.entry[e].key}]
       IN  pool' = Collected(Caught(Release(left, e), r, "fatal"))
    /\ UNCHANGED <<act, session, faults>>

\* A waiter rejected by an eviction resumes without a slot.
WaiterRejected(r) ==
    /\ pool.req[r].st = "lost"
    /\ LET e == pool.req[r].e
       IN  pool' = Collected(Caught(Release(Evict(pool, e), e), r, pool.req[r].err))
    /\ UNCHANGED <<act, session, faults>>

\* ensureReady, then the one retry; no slot is claimed again.
EnsureReady(r, ready) ==
    /\ pool.req[r].st = "ensuring"
    /\ IF ready /\ Open(pool) THEN Acquire([pool EXCEPT !.req[r].tries = 1], r)
       ELSE pool' = [pool EXCEPT !.req[r] = Over(@, "failed", 0)]
    /\ UNCHANGED <<act, session, faults>>

\* The per-call client runs the request outside the pool, or fails to.
PerCallClient(r) ==
    /\ pool.req[r].st = "sdk"
    /\ \/ pool' = [pool EXCEPT !.req[r] = Over(@, "done", 1)]
       \/ pool' = [pool EXCEPT !.req[r] = Over(@, "failed", 0)]
    /\ UNCHANGED <<act, session, faults>>

-----------------------------------------------------------------------------
(* The answers to a POST of a request *)

\* The agent takes the request up if it knows the session.
AgentRuns(r) ==
    /\ pool.req[r].st = "posted" /\ pool.req[r].exec = "sent"
    /\ session[pool.req[r].on] # None
    /\ pool' = [pool EXCEPT !.req[r].exec = "running", !.req[r].runs = @ + 1]
    /\ UNCHANGED <<act, session, faults>>

\* What follows the await of post() when it ends with err, and the finally of attempt().
PostFails(p, r, err) ==
    LET e == p.req[r].e
    IN  Collected(Caught(Release(ReleaseSlot(HandleFailure(p, e, err), e), e), r,
                         IF err = "mismatch" /\ r \in Tool THEN "fatal" ELSE err))

\* Mutant: the key becomes ready even when its entry has left the pool.
AnsweredReady(r) ==
    /\ pool.req[r].st = "posted" /\ pool.req[r].exec = "running"
    /\ LET e == pool.req[r].e
           read == [pool EXCEPT !.ready = @ \union {KeyOf(pool, r)},
                                !.req[r] = Over(@, "done", 0)]
       IN  pool' = Collected(Release(ReleaseSlot(read, e), e))
    /\ UNCHANGED <<act, session, faults>>

\* The JSON-RPC answer arrives: the key is ready while the entry is in the pool.
Answered(r) ==
    /\ pool.req[r].st = "posted" /\ pool.req[r].exec = "running"
    /\ LET e == pool.req[r].e
           read == [pool EXCEPT !.ready = IF pool.entry[e].closed THEN @
                                          ELSE @ \union {KeyOf(pool, r)},
                                !.req[r] = Over(@, "done", 0)]
       IN  pool' = Collected(Release(ReleaseSlot(read, e), e))
    /\ UNCHANGED <<act, session, faults>>

\* A 404 or "Missing session", or a refused connection: nothing was dispatched.
NotDispatched(r) ==
    /\ pool.req[r].st = "posted" /\ pool.req[r].exec = "sent"
    /\ session[pool.req[r].on] = None
    /\ pool' = PostFails(pool, r, "retry")
    /\ UNCHANGED <<act, session, faults>>

\* An HTTP error, an aborted connection, or an answer that is not the JSON-RPC answer.
BadAnswer(r, err) ==
    /\ pool.req[r].st = "posted" /\ pool.req[r].exec \in {"running", "reset"}
    /\ err = "mismatch" => pool.req[r].exec = "running"
    /\ pool' = PostFails(pool, r, err)
    /\ UNCHANGED <<act, session, faults>>

\* The deadline passes first; a request not yet taken up may still be.
PostTimesOut(r, taken) ==
    /\ pool.req[r].st = "posted"
    /\ taken => pool.req[r].exec = "sent" /\ session[pool.req[r].on] # None
    /\ pool' = PostFails([pool EXCEPT !.req[r].runs = IF taken THEN @ + 1 ELSE @], r, "fatal")
    /\ UNCHANGED <<act, session, faults>>

-----------------------------------------------------------------------------
(* openSession *)

\* The answer to initialize.  A usable one leads to the notification, under the lease of
\* the request that opened the entry; the id is recorded before the answer is judged.
InitializeAnswered(e, s, err) ==
    /\ pool.entry[e].opening = "init"
    /\ session[s] = None /\ s \notin pool.known /\ \A x \in Entry : pool.entry[x].del # s
    /\ session' = [session EXCEPT ![s] = pool.entry[e].key[1]]
    /\ LET p == [pool EXCEPT !.entry[e].sid = s, !.known = @ \union {s}]
       IN  pool' = Collected(
             IF ~Open(p) THEN OpeningEnds(p, e, "fatal")
             ELSE IF err # "none" THEN OpeningEnds(p, e, err)
             ELSE IF BeforeDial(p.entry[e].opener) THEN [p EXCEPT !.entry[e].opening = "ack"]
             ELSE OpeningEnds(p, e, "fatal"))
    /\ UNCHANGED <<act, faults>>

\* initialize ends without an id the pool knows of: a refused connection, a 404, a
\* timeout, an error answer, or an answer without an id.
InitializeFails(e, err) ==
    /\ pool.entry[e].opening = "init"
    /\ pool' = Collected(OpeningEnds(pool, e, err))
    /\ UNCHANGED <<act, session, faults>>

\* The answer to notifications/initialized.
InitializedAnswered(e, err) ==
    /\ pool.entry[e].opening = "ack"
    /\ err = "none" => session[pool.entry[e].sid] # None
    /\ err = "retry" => session[pool.entry[e].sid] = None
    /\ pool' = Collected(
         IF ~Open(pool) THEN OpeningEnds(pool, e, "fatal")
         ELSE IF err = "none" THEN OpeningEnds([pool EXCEPT !.entry[e].ack = TRUE], e, "none")
         ELSE OpeningEnds(pool, e, err))
    /\ UNCHANGED <<act, session, faults>>

-----------------------------------------------------------------------------
(* Retirement, sweep, invalidation and shutdown *)

\* The DELETE ends, at the latest by its timeout.  The agent forgets the session, or, if the
\* DELETE was lost, keeps one that nobody refers to, which its own collector closes.
DeleteEnds(e) ==
    /\ pool.entry[e].clean = "deleting"
    /\ session' = [session EXCEPT ![pool.entry[e].del] = None]
    /\ pool' = Collected([pool EXCEPT !.entry[e] = [@ EXCEPT !.clean = "done", !.del = None]])
    /\ UNCHANGED <<act, faults>>

\* sweepIdle finds the entry past its idle time.
SweepIdle(e) ==
    /\ \E i \in DOMAIN pool.lru : pool.lru[i] = e
    /\ pool.entry[e].inflight = 0 /\ pool.entry[e].opening = "no"
    /\ pool' = Collected(Evict(pool, e))
    /\ UNCHANGED <<act, session, faults>>

Invalidate(e) ==
    /\ faults < MaxFaults /\ faults' = faults + 1
    /\ \E i \in DOMAIN pool.lru : pool.lru[i] = e
    /\ pool' = Collected([Evict(pool, e) EXCEPT
                            !.fallback = Without(@, pool.entry[e].key)])
    /\ UNCHANGED <<act, session>>

\* Mutant: only the entries still in the map are waited for.
CloseAllInMap ==
    /\ Open(pool)
    /\ LET EvictAll[n \in 0..Len(pool.lru)] ==
               IF n = 0 THEN [pool EXCEPT !.shut = "closing"]
               ELSE EvictAs(EvictAll[n - 1], pool.lru[n], "fatal")
           p == EvictAll[Len(pool.lru)]
       IN  pool' = Collected([p EXCEPT
                     !.slots = <<>>, !.ready = {}, !.fallback = <<>>,
                     !.retiring = {pool.lru[i] : i \in DOMAIN pool.lru}])
    /\ UNCHANGED <<act, session, faults>>

\* closeAll: every entry is evicted, its waiters are not retried, and the promise waits
\* for the retirements pending now.
CloseAll ==
    /\ Open(pool)
    /\ LET EvictAll[n \in 0..Len(pool.lru)] ==
               IF n = 0 THEN [pool EXCEPT !.shut = "closing"]
               ELSE EvictAs(EvictAll[n - 1], pool.lru[n], "fatal")
           p == EvictAll[Len(pool.lru)]
       IN  pool' = Collected([p EXCEPT
                     !.slots = <<>>, !.ready = {}, !.fallback = <<>>,
                     !.retiring = {e \in Entry : p.entry[e].closed /\ p.entry[e].clean # "done"}])
    /\ UNCHANGED <<act, session, faults>>
CloseReturns ==
    /\ pool.shut = "closing"
    /\ \A e \in pool.retiring : pool.entry[e].clean = "done" \/ pool.entry[e] = NoEntry
    /\ pool' = [pool EXCEPT !.shut = "closed", !.retiring = {}]
    /\ UNCHANGED <<act, session, faults>>

-----------------------------------------------------------------------------
(* Outside the pool *)

\* Another generation is selected.
Activate ==
    /\ act < Len(Generation) /\ act' = act + 1
    /\ UNCHANGED <<pool, session, faults>>

\* The agent process restarts: it knows no session, and its connections break.
AgentRestarts(route) ==
    /\ faults < MaxFaults /\ faults' = faults + 1
    /\ \E s \in Session : session[s] = route
    /\ session' = [s \in Session |-> IF session[s] = route THEN None ELSE session[s]]
    /\ pool' = [pool EXCEPT !.req = [r \in Request |->
                  IF pool.req[r].route = route /\ pool.req[r].exec = "running"
                  THEN [pool.req[r] EXCEPT !.exec = "reset"] ELSE pool.req[r]]]
    /\ UNCHANGED act

\* The agent collects a session that has had no active request for its idle time.
AgentCollects(s) ==
    /\ faults < MaxFaults /\ faults' = faults + 1
    /\ session[s] # None
    /\ \A r \in Request : pool.req[r].on = s => pool.req[r].exec # "running"
    /\ session' = [session EXCEPT ![s] = None]
    /\ UNCHANGED <<pool, act>>

Next ==
    \/ \E r \in Request, route \in Route, a \in DOMAIN Generation : Start(r, route, a)
    \/ \E r \in Request :
          \/ OpeningResumed(r) \/ WaiterTimesOut(r) \/ WaiterRejected(r) \/ PerCallClient(r)
          \/ \E late, refuses \in BOOLEAN :
                TakeSlot(r, late, refuses) \/ SlotGranted(r, late, refuses)
          \/ \E ready \in BOOLEAN : EnsureReady(r, ready)
          \/ AgentRuns(r) \/ Answered(r) \/ NotDispatched(r)
          \/ \E err \in {"fatal", "mismatch"} : BadAnswer(r, err)
          \/ \E taken \in BOOLEAN : PostTimesOut(r, taken)
    \/ \E e \in Entry :
          \/ \E s \in Session, err \in {"none", "fatal", "mismatch"} :
                InitializeAnswered(e, s, err)
          \/ \E err \in {"retry", "fatal", "mismatch"} : InitializeFails(e, err)
          \/ \E err \in {"none", "retry", "fatal"} : InitializedAnswered(e, err)
          \/ DeleteEnds(e) \/ SweepIdle(e) \/ Invalidate(e)
    \/ CloseAll \/ CloseReturns \/ Activate
    \/ \E route \in Route : AgentRestarts(route)
    \/ \E s \in Session : AgentCollects(s)

Spec == Init /\ [][Next]_vars

-----------------------------------------------------------------------------
(* Properties *)

Live(e) == \E i \in DOMAIN pool.lru : pool.lru[i] = e

\* "Never reopen over an allocated but unacknowledged session: that would overwrite (and
\* leak) its id" (acquire): every session id the pool received and has not DELETEd is
\* held by exactly one entry, which is in the map or waits to finish its close.
NoSessionLeaked ==
    /\ \A s \in pool.known : Cardinality({e \in Entry : pool.entry[e].sid = s}) = 1
    /\ \A e \in Entry : pool.entry[e].sid # None =>
          Live(e) \/ (pool.entry[e].closed
                        /\ (pool.entry[e].opening # "no" \/ pool.entry[e].inflight > 0))

\* closeAll "is DELETEd after their last call finishes, so a running tool's reply is never
\* cut off": a call the agent is running, and that the pool still waits for, has its
\* session, unless the agent itself restarted.
NotCutOff ==
    \A r \in Request : pool.req[r].exec = "running" => session[pool.req[r].on] # None

\* "At most one retry, and only for failures that happened before the agent dispatched the
\* request": whatever fails, is retried or falls back to the per-call client, a tool call
\* runs at most once.
NeverReplayed == \A r \in Tool : pool.req[r].runs <= 1

\* The slots of an entry: active and inflight count exactly the requests that hold a slot
\* or a reference, so none is lost or granted twice by a timeout, an eviction or a late
\* grant; and nobody waits for nothing: a queued request waits for a request that holds a
\* slot, one that awaits the opening of its entry for an opening under way, and closeAll
\* for an entry with an opening, a call or a DELETE that will end.
NobodyStranded ==
    /\ \A e \in Entry :
          LET of(states) == {r \in Request : pool.req[r].e = e /\ pool.req[r].st \in states}
          IN  /\ pool.entry[e].active = Cardinality(of({"granted", "posted"}))
              /\ pool.entry[e].inflight = Cardinality(of({"waiting", "granted", "posted", "lost"}))
              /\ of({"waiting"}) # {} => pool.entry[e].active = MaxInflight
              /\ of({"opening"}) # {} => pool.entry[e].opening # "no"
    /\ \A e \in pool.retiring : pool.entry[e].closed /\ pool.entry[e].clean = "no" =>
          pool.entry[e].opening # "no" \/ pool.entry[e].inflight > 0

\* The maps keep their bounds, and hold exactly the entries that are not closed; a key is
\* ready only while its entry can serve it.
MapsBounded ==
    /\ Len(pool.lru) <= MaxEntries /\ Len(pool.slots) <= MaxEntries
    /\ Len(pool.fallback) <= MaxEntries
    /\ \A e \in Entry : Live(e) <=> pool.entry[e].key # None /\ ~pool.entry[e].closed
    /\ \A k \in pool.ready : \E e \in Entry : Live(e) /\ pool.entry[e].key = k
                                                /\ pool.entry[e].ack

\* closeAll resolves only when no call, opening or DELETE is left: nothing the pool opened
\* outlives the shutdown of the Router unasked.
ClosedClean ==
    pool.shut = "closed" =>
        /\ pool.known = {}
        /\ \A r \in Request : pool.req[r].st # "posted"
        /\ \A e \in Entry : pool.entry[e].opening = "no" /\ pool.entry[e].clean # "deleting"
=============================================================================

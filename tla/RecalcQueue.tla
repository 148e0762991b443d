------------------------------ MODULE RecalcQueue ------------------------------
(***************************************************************************)
(* Recalculation of one revision: the pass queue of each gateway process   *)
(* (internal/calculation/queue.go), the pass lock the gateways share in    *)
(* the database, what a pass does to the stored results and the partition  *)
(* states of its metrics, and the counters a grid read reports as          *)
(* recalc_pending.                                                         *)
(*                                                                         *)
(* A request is one write and the recalculation it asks for. A stored      *)
(* result is abstracted to the set of writes its calculation has seen, so  *)
(* "is this value current" and "did this step put an older value back" are *)
(* questions about sets. Metrics do not read one another here; the order   *)
(* of dependent metrics is metricformula.Plan's.                           *)
(***************************************************************************)
EXTENDS Naturals

CONSTANTS
    Gateways,   \* processes that recalculate; each has its own queue
    Requests,   \* writes and the recalculation each asks for
    GatewayOf,  \* the gateway that serves the request
    Metrics,    \* the calculated metrics of the revision
    Cells,      \* the cells of a metric
    Workloads,  \* what the requests ask for, as functions on Requests
    Keep,       \* how many passes an error outlives its own (64 in the code)
    Faults,     \* the kinds of failure the environment may inject
    MaxFaults   \* bound: how many of them

NoOne == "nobody"

\* The metrics a write reaches and the cells it names, {} when it names none;
\* whether it is counted for the grid; whether it marked its metrics dirty in
\* its own transaction (an approval's copy of a revision).
AskType == [ids : SUBSET Metrics, cells : SUBSET Cells, counted : BOOLEAN, durable : BOOLEAN]

FaultKinds == {"crash", "db", "timeout", "panic"}

ASSUME RecalcAssumption ==
    /\ GatewayOf \in [Requests -> Gateways]
    /\ NoOne \notin Gateways
    /\ Workloads \subseteq [Requests -> AskType]
    /\ Keep \in Nat
    /\ Faults \subseteq FaultKinds
    /\ MaxFaults \in Nat

VARIABLES
    \* the database
    wrote,      \* the requests whose write is committed
    stored,     \* per metric and cell: the writes its stored result has seen
    status,     \* metric_partition_state.status
    lock,       \* the gateway that holds the revision's pass lock
    requested,  \* revision_recalc_state.requested
    done,       \* revision_recalc_state.done
    \* the queue of each gateway
    running,    \* passQueue.running
    batch,      \* pending, forced and cells: what the next pass calculates
    next,       \* the number of the pass that takes the batch
    last,       \* passQueue.done, the last pass finished
    failed,     \* the passes whose error is kept
    \* the pass of each gateway
    stage,      \* "none", "lock", "plan" or "calc"
    taken,      \* the batch it took
    seen,       \* the writes committed when it began to read
    clean,      \* the metrics whose partition was clean then
    left,       \* metrics it has not come to yet
    doing,      \* metrics its workers are calculating
    cut,        \* its 30 minutes are over
    short,      \* history: it skipped a metric or could not record one
    \* the requests
    ask,        \* what each asks for (the workload, fixed)
    pc,         \* where the caller is
    mine,       \* the pass it waits for
    seq,        \* the number RequestRecalc gave it, 0 without one
    err,        \* it was answered with an error
    verdict,    \* history: how its pass ended
    raced,      \* history: dirty marks made while a pass calculated the metric
    budget      \* failures the environment may still inject

dbVars    == <<wrote, stored, status, lock, requested, done>>
queueVars == <<running, batch, next, last, failed>>
passVars  == <<stage, taken, seen, clean, left, doing, cut, short>>
reqVars   == <<ask, pc, mine, seq, err, verdict, raced>>
vars      == <<dbVars, queueVars, passVars, reqVars, budget>>

Places   == {"idle", "mark", "load", "wait", "run", "woken", "finish", "over", "lost"}
Statuses == {"dirty", "calculating", "clean", "error"}
Verdicts == {"none", "ok", "short", "error", "panic"}

NoBatch  == [ids |-> {}, forced |-> {}, cells |-> {}]
BatchType == [ids : SUBSET Metrics, forced : SUBSET Metrics, cells : SUBSET (Metrics \X Cells)]

\* The cells that request r's write made stale, in each metric it reaches.
Touched(r) == IF ask[r].cells = {} THEN Cells ELSE ask[r].cells

Init ==
    /\ wrote = {}
    /\ stored = [m \in Metrics |-> [c \in Cells |-> {}]]
    /\ status = [m \in Metrics |-> "clean"]
    /\ lock = NoOne
    /\ requested = 0
    /\ done = 0
    /\ running = [g \in Gateways |-> FALSE]
    /\ batch = [g \in Gateways |-> NoBatch]
    /\ next = [g \in Gateways |-> 1]
    /\ last = [g \in Gateways |-> 0]
    /\ failed = [g \in Gateways |-> {}]
    /\ stage = [g \in Gateways |-> "none"]
    /\ taken = [g \in Gateways |-> NoBatch]
    /\ seen = [g \in Gateways |-> {}]
    /\ clean = [g \in Gateways |-> {}]
    /\ left = [g \in Gateways |-> {}]
    /\ doing = [g \in Gateways |-> {}]
    /\ cut = [g \in Gateways |-> FALSE]
    /\ short = [g \in Gateways |-> FALSE]
    /\ ask \in Workloads
    /\ pc = [r \in Requests |-> "idle"]
    /\ mine = [r \in Requests |-> 0]
    /\ seq = [r \in Requests |-> 0]
    /\ err = [r \in Requests |-> FALSE]
    /\ verdict = [r \in Requests |-> "none"]
    /\ raced = {}
    /\ budget = MaxFaults

Goto(r, place) == pc' = [pc EXCEPT ![r] = place]

\* Every failure uses up one of the failures the run may inject.
Fault(kind) ==
    /\ kind \in Faults
    /\ budget > 0
    /\ budget' = budget - 1

-----------------------------------------------------------------------------
(* A request, up to the queue. *)

\* The metrics a pass of some gateway is calculating or about to.
UnderWay == UNION {left[g] \cup doing[g] : g \in Gateways}

\* Mutant: the partitions are not marked in the write's transaction.
WriteUnmarked(r) ==
    /\ pc[r] = "idle"
    /\ ask[r].ids # {}
    /\ wrote' = wrote \cup {r}
    /\ UNCHANGED status
    /\ raced' = IF ask[r].durable /\ UnderWay \cap ask[r].ids # {} THEN raced \cup {r} ELSE raced
    /\ Goto(r, IF ask[r].counted THEN "mark" ELSE "load")
    /\ UNCHANGED <<stored, lock, requested, done, queueVars, passVars, ask, mine, seq, err, verdict, budget>>

\* The write commits, with its metrics' partitions marked dirty (MarkDirtyTx)
\* when it is one that does so. One that reaches no metric asks for nothing.
Write(r) ==
    /\ pc[r] = "idle"
    /\ ask[r].ids # {}
    /\ wrote' = wrote \cup {r}
    /\ status' = [m \in Metrics |-> IF ask[r].durable /\ m \in ask[r].ids THEN "dirty" ELSE status[m]]
    /\ raced' = IF ask[r].durable /\ UnderWay \cap ask[r].ids # {} THEN raced \cup {r} ELSE raced
    /\ Goto(r, IF ask[r].counted THEN "mark" ELSE "load")
    /\ UNCHANGED <<stored, lock, requested, done, queueVars, passVars, ask, mine, seq, err, verdict, budget>>

\* RequestRecalc counts it, for a caller that recalculates after answering.
Mark(r) ==
    /\ pc[r] = "mark"
    /\ requested' = requested + 1
    /\ seq' = [seq EXCEPT ![r] = requested + 1]
    /\ Goto(r, "load")
    /\ UNCHANGED <<wrote, stored, status, lock, done, queueVars, passVars, ask, mine, err, verdict, raced, budget>>

\* The statement fails: logged, and the recalculation runs uncounted.
MarkFails(r) ==
    /\ Fault("db")
    /\ pc[r] = "mark"
    /\ Goto(r, "load")
    /\ UNCHANGED <<dbVars, queueVars, passVars, ask, mine, seq, err, verdict, raced>>

\* The metrics cannot be loaded: an error, and no pass.
LoadFails(r) ==
    /\ Fault("db")
    /\ pc[r] = "load"
    /\ err' = [err EXCEPT ![r] = TRUE]
    /\ Goto(r, "finish")
    /\ UNCHANGED <<dbVars, queueVars, passVars, ask, mine, seq, verdict, raced>>

-----------------------------------------------------------------------------
(* The queue: passQueue.runRequest and runPass. Each action is one section *)
(* of code under the queue's mutex.                                        *)

\* A request's metrics and cells join what the next pass calculates; metrics
\* asked for without cells are forced.
Join(b, a) ==
    [ids    |-> b.ids \cup a.ids,
     forced |-> IF a.cells = {} THEN b.forced \cup a.ids ELSE b.forced,
     cells  |-> b.cells \cup (a.ids \X a.cells)]

\* Caller r starts the next pass, with everything asked for so far.
Take(r, b) ==
    LET g == GatewayOf[r] IN
    /\ running' = [running EXCEPT ![g] = TRUE]
    /\ taken' = [taken EXCEPT ![g] = b]
    /\ batch' = [batch EXCEPT ![g] = NoBatch]
    /\ next' = [next EXCEPT ![g] = @ + 1]
    /\ stage' = [stage EXCEPT ![g] = "lock"]
    /\ Goto(r, "run")

\* Mutant: counted from the last pass finished, one too few.
TurnBehind(g) == last[g] - 1

\* Mutant: a request that finds a pass running is content with that one.
TurnOfRunning(g) == IF running[g] THEN next[g] - 1 ELSE next[g]

\* The pass a request waits for: the next one to start.
Turn(g) == next[g]

\* A request enters the queue: it runs the next pass if none is running, and
\* waits otherwise.
Enter(r) ==
    LET g == GatewayOf[r]
        b == Join(batch[g], ask[r])
    IN
    /\ pc[r] = "load"
    /\ mine' = [mine EXCEPT ![r] = Turn(g)]
    /\ \/ /\ running[g]
          /\ batch' = [batch EXCEPT ![g] = b]
          /\ Goto(r, "wait")
          /\ UNCHANGED <<running, next, stage, taken>>
       \/ /\ ~running[g]
          /\ Take(r, b)
    /\ UNCHANGED <<dbVars, last, failed, seen, clean, left, doing, cut, short>>
    /\ UNCHANGED <<ask, seq, err, verdict, raced, budget>>

\* A woken caller looks again: it returns the kept error of its pass, waits
\* on, or starts the pass it waits for.
Return(r) ==
    /\ pc[r] = "woken"
    /\ last[GatewayOf[r]] >= mine[r]
    /\ err' = [err EXCEPT ![r] = mine[r] \in failed[GatewayOf[r]]]
    /\ Goto(r, "finish")
    /\ UNCHANGED <<dbVars, queueVars, passVars, ask, mine, seq, verdict, raced, budget>>

WaitOn(r) ==
    /\ pc[r] = "woken"
    /\ last[GatewayOf[r]] < mine[r]
    /\ running[GatewayOf[r]]
    /\ Goto(r, "wait")
    /\ UNCHANGED <<dbVars, queueVars, passVars, ask, mine, seq, err, verdict, raced, budget>>

RunNext(r) ==
    /\ pc[r] = "woken"
    /\ last[GatewayOf[r]] < mine[r]
    /\ ~running[GatewayOf[r]]
    /\ Take(r, batch[GatewayOf[r]])
    /\ UNCHANGED <<dbVars, last, failed, seen, clean, left, doing, cut, short>>
    /\ UNCHANGED <<ask, mine, seq, err, verdict, raced, budget>>

Loop(r) == Return(r) \/ WaitOn(r) \/ RunNext(r)

Here(r, g)    == GatewayOf[r] = g
Queued(r)     == pc[r] \in {"wait", "run", "woken"}
Served(r, g)  == Here(r, g) /\ Queued(r) /\ mine[r] = next[g] - 1

\* Mutant: no Broadcast.
WokenRunner(g, q) == pc[q] = "run"

\* Who goes on when a pass ends: its runner, and by Broadcast every waiter.
Woken(g, q) == pc[q] \in {"run", "wait"}

\* Mutant: an error is forgotten one pass too early.
KeptTooBriefly(g, gen) == {n \in failed[g] \cup {gen} : n + Keep > gen}

\* The errors kept when pass gen of g has failed, older ones dropped.
Kept(g, gen) == {n \in failed[g] \cup {gen} : n + Keep >= gen}

\* The pass of g is over: runPass's deferred function, after the pass has
\* given the lock back. A panic leaves no error for the other callers, and
\* reaches its own as one.
EndPass(g, how) ==
    LET gen == next[g] - 1 IN
    /\ failed' = [failed EXCEPT ![g] = IF how = "error" THEN Kept(g, gen) ELSE Kept(g, gen) \ {gen}]
    /\ last' = [last EXCEPT ![g] = gen]
    /\ running' = [running EXCEPT ![g] = FALSE]
    /\ lock' = IF lock = g THEN NoOne ELSE lock
    /\ stage' = [stage EXCEPT ![g] = "none"]
    /\ taken' = [taken EXCEPT ![g] = NoBatch]
    /\ seen' = [seen EXCEPT ![g] = {}]
    /\ clean' = [clean EXCEPT ![g] = {}]
    /\ left' = [left EXCEPT ![g] = {}]
    /\ doing' = [doing EXCEPT ![g] = {}]
    /\ cut' = [cut EXCEPT ![g] = FALSE]
    /\ short' = [short EXCEPT ![g] = FALSE]
    /\ verdict' = [q \in Requests |-> IF Served(q, g) /\ verdict[q] = "none" THEN how ELSE verdict[q]]
    /\ pc' = [q \in Requests |->
                IF Here(q, g) /\ pc[q] = "run" /\ how = "panic" THEN "finish"
                ELSE IF Here(q, g) /\ Woken(g, q) THEN "woken" ELSE pc[q]]
    /\ err' = [q \in Requests |-> err[q] \/ (Here(q, g) /\ pc[q] = "run" /\ how = "panic")]
    /\ UNCHANGED <<wrote, stored, status, requested, done, batch, next, ask, mine, seq, raced>>

-----------------------------------------------------------------------------
(* A pass: the function recalcRequest gives the queue, and recalcPass. *)

\* Mutant: the gateways do not wait for one another.
LockUnasked(g) ==
    /\ stage[g] = "lock"
    /\ lock' = g
    /\ stage' = [stage EXCEPT ![g] = "plan"]
    /\ UNCHANGED <<wrote, stored, status, requested, done, queueVars>>
    /\ UNCHANGED <<taken, seen, clean, left, doing, cut, short, reqVars, budget>>

\* lockPasses: the advisory lock, which one gateway holds at a time. It lasts as
\* long as the pass: that its connection is lost in the middle of one, which
\* nothing in the pass would notice, is left out.
Lock(g) ==
    /\ stage[g] = "lock"
    /\ lock = NoOne
    /\ lock' = g
    /\ stage' = [stage EXCEPT ![g] = "plan"]
    /\ UNCHANGED <<wrote, stored, status, requested, done, queueVars>>
    /\ UNCHANGED <<taken, seen, clean, left, doing, cut, short, reqVars, budget>>

\* No connection, or another gateway held the lock for too long.
LockFails(g) ==
    /\ Fault("db")
    /\ stage[g] = "lock"
    /\ EndPass(g, "error")

\* The metrics are ordered and the partitions' states read; states that cannot
\* be read count as not clean.
Plan(g) ==
    /\ stage[g] = "plan"
    /\ stage' = [stage EXCEPT ![g] = "calc"]
    /\ seen' = [seen EXCEPT ![g] = wrote]
    /\ clean' = [clean EXCEPT ![g] = {m \in Metrics : status[m] = "clean"}]
    /\ left' = [left EXCEPT ![g] = taken[g].ids]
    /\ UNCHANGED <<dbVars, queueVars, taken, doing, cut, short, reqVars, budget>>

PlanFails(g) ==
    /\ Fault("db")
    /\ stage[g] = "plan"
    /\ EndPass(g, "error")

Panics(g) ==
    /\ Fault("panic")
    /\ stage[g] = "plan"
    /\ EndPass(g, "panic")

\* The 30 minutes of the pass are over: every statement from here on fails.
TimesOut(g) ==
    /\ Fault("timeout")
    /\ stage[g] = "calc"
    /\ ~cut[g]
    /\ cut' = [cut EXCEPT ![g] = TRUE]
    /\ UNCHANGED <<dbVars, queueVars, stage, taken, seen, clean, left, doing, short, reqVars>>

\* A worker comes to metric m and marks its partition.
Begin(g, m) ==
    /\ m \in left[g]
    /\ ~cut[g]
    /\ left' = [left EXCEPT ![g] = @ \ {m}]
    /\ doing' = [doing EXCEPT ![g] = @ \cup {m}]
    /\ status' = [status EXCEPT ![m] = "calculating"]
    /\ UNCHANGED <<wrote, stored, lock, requested, done, queueVars>>
    /\ UNCHANGED <<stage, taken, seen, clean, cut, short, reqVars, budget>>

\* It cannot mark it: the metric is left as it is, and the pass goes on.
Skip(g, m) ==
    /\ m \in left[g]
    /\ IF cut[g] THEN UNCHANGED budget ELSE Fault("db")
    /\ left' = [left EXCEPT ![g] = @ \ {m}]
    /\ short' = [short EXCEPT ![g] = TRUE]
    /\ UNCHANGED <<dbVars, queueVars, stage, taken, seen, clean, doing, cut, reqVars>>

\* Mutant: a metric in error is only recalculated where it was written.
RegionTrusting(g, m) ==
    IF taken[g].cells = {} \/ m \in taken[g].forced
    THEN Cells ELSE {c \in Cells : <<m, c>> \in taken[g].cells}

\* The cells of m the pass evaluates (incremental.plan): every one when no
\* request named cells, when m is forced or when its partition was not clean.
Region(g, m) ==
    IF taken[g].cells = {} \/ m \in taken[g].forced \/ m \notin clean[g]
    THEN Cells ELSE {c \in Cells : <<m, c>> \in taken[g].cells}

\* The results of m, from inputs read as late as now or as early as the
\* pass's first read (the pass cache), replace those of its region.
Store(g, m, read) ==
    stored' = [stored EXCEPT ![m] = [c \in Cells |-> IF c \in Region(g, m) THEN read ELSE @[c]]]

Complete(g, m) ==
    /\ m \in doing[g]
    /\ ~cut[g]
    /\ \E read \in {seen[g], wrote} : Store(g, m, read)
    /\ status' = [status EXCEPT ![m] = "clean"]
    /\ doing' = [doing EXCEPT ![g] = @ \ {m}]
    /\ UNCHANGED <<wrote, lock, requested, done, queueVars>>
    /\ UNCHANGED <<stage, taken, seen, clean, left, cut, short, reqVars, budget>>

\* Some cells fail to evaluate, or the evaluation panics: the metric's own
\* error, with the results that could be had or with the old ones.
Errs(g, m) ==
    /\ m \in doing[g]
    /\ ~cut[g]
    /\ UNCHANGED stored \/ \E read \in {seen[g], wrote} : Store(g, m, read)
    /\ status' = [status EXCEPT ![m] = "error"]
    /\ doing' = [doing EXCEPT ![g] = @ \ {m}]
    /\ UNCHANGED <<wrote, lock, requested, done, queueVars>>
    /\ UNCHANGED <<stage, taken, seen, clean, left, cut, short, reqVars, budget>>

\* The context ends under the worker, or MarkClean or MarkError fails, whose
\* errors are dropped: the partition stays "calculating".
Unrecorded(g, m) ==
    /\ m \in doing[g]
    /\ IF cut[g] THEN UNCHANGED budget ELSE Fault("db")
    /\ UNCHANGED stored \/ \E read \in {seen[g], wrote} : Store(g, m, read)
    /\ doing' = [doing EXCEPT ![g] = @ \ {m}]
    /\ short' = [short EXCEPT ![g] = TRUE]
    /\ UNCHANGED <<wrote, status, lock, requested, done, queueVars>>
    /\ UNCHANGED <<stage, taken, seen, clean, left, cut, reqVars>>

\* Every metric has had its turn: recalcPass returns no error.
PassEnds(g) ==
    /\ stage[g] = "calc"
    /\ left[g] = {}
    /\ doing[g] = {}
    /\ EndPass(g, IF short[g] THEN "short" ELSE "ok")
    /\ UNCHANGED budget

-----------------------------------------------------------------------------
(* After the queue. *)

\* Mutant: the last to finish decides.
RaisePlain(old, n) == n

\* GREATEST(done, n).
Raise(old, n) == IF n > old THEN n ELSE old

\* The caller has its answer; nothing is left of the call.
Leave(r) ==
    /\ Goto(r, "over")
    /\ mine' = [mine EXCEPT ![r] = 0]
    /\ err' = [err EXCEPT ![r] = FALSE]

\* A counted recalculation is recorded finished, failed or not.
Finish(r) ==
    /\ pc[r] = "finish"
    /\ done' = IF seq[r] > 0 THEN Raise(done, seq[r]) ELSE done
    /\ Leave(r)
    /\ UNCHANGED <<wrote, stored, status, lock, requested, queueVars, passVars>>
    /\ UNCHANGED <<ask, seq, verdict, raced, budget>>

FinishFails(r) ==
    /\ Fault("db")
    /\ pc[r] = "finish"
    /\ seq[r] > 0
    /\ seq' = [seq EXCEPT ![r] = 0]
    /\ Leave(r)
    /\ UNCHANGED <<dbVars, queueVars, passVars, ask, verdict, raced>>

\* A gateway stops and starts again: its requests are gone, its queue is
\* empty, and the end of its connection frees the lock.
Crash(g) ==
    /\ Fault("crash")
    /\ pc' = [r \in Requests |-> IF Here(r, g) /\ pc[r] \notin {"idle", "over"} THEN "lost" ELSE pc[r]]
    /\ mine' = [r \in Requests |-> IF Here(r, g) THEN 0 ELSE mine[r]]
    /\ err' = [r \in Requests |-> err[r] /\ ~Here(r, g)]
    /\ running' = [running EXCEPT ![g] = FALSE]
    /\ batch' = [batch EXCEPT ![g] = NoBatch]
    /\ next' = [next EXCEPT ![g] = 1]
    /\ last' = [last EXCEPT ![g] = 0]
    /\ failed' = [failed EXCEPT ![g] = {}]
    /\ stage' = [stage EXCEPT ![g] = "none"]
    /\ taken' = [taken EXCEPT ![g] = NoBatch]
    /\ seen' = [seen EXCEPT ![g] = {}]
    /\ clean' = [clean EXCEPT ![g] = {}]
    /\ left' = [left EXCEPT ![g] = {}]
    /\ doing' = [doing EXCEPT ![g] = {}]
    /\ cut' = [cut EXCEPT ![g] = FALSE]
    /\ short' = [short EXCEPT ![g] = FALSE]
    /\ lock' = IF lock = g THEN NoOne ELSE lock
    /\ UNCHANGED <<wrote, stored, status, requested, done, ask, seq, verdict, raced>>

-----------------------------------------------------------------------------

Call(r) == Mark(r) \/ Enter(r) \/ Loop(r) \/ Finish(r)

Work(g) ==
    \/ Plan(g) \/ PassEnds(g)
    \/ \E m \in Metrics : Begin(g, m) \/ Complete(g, m) \/ Errs(g, m)
    \/ \E m \in Metrics : Skip(g, m) \/ Unrecorded(g, m)

Next ==
    \/ \E r \in Requests : Write(r) \/ Call(r)
    \/ \E r \in Requests : MarkFails(r) \/ LoadFails(r) \/ FinishFails(r)
    \/ \E g \in Gateways : Lock(g) \/ Work(g)
    \/ \E g \in Gateways : LockFails(g) \/ PlanFails(g) \/ Panics(g) \/ TimesOut(g)
    \/ \E g \in Gateways : Crash(g)

Spec == Init /\ [][Next]_vars

\* The system does not stand still while a caller or a pass can go on; that
\* is enough, for every request takes finitely many steps. Users and failures
\* owe nothing.
Step ==
    \/ \E r \in Requests : Call(r)
    \/ \E g \in Gateways : Lock(g) \/ Work(g)

Fairness == WF_vars(Step)

FairSpec == Spec /\ Fairness

-----------------------------------------------------------------------------
(* Properties. *)

\* Every variable has the shape of the column or field it stands for.
TypeOK ==
    /\ wrote \subseteq Requests
    /\ stored \in [Metrics -> [Cells -> SUBSET Requests]]
    /\ status \in [Metrics -> Statuses]
    /\ lock \in Gateways \cup {NoOne}
    /\ requested \in Nat
    /\ done \in Nat
    /\ running \in [Gateways -> BOOLEAN]
    /\ batch \in [Gateways -> BatchType]
    /\ next \in [Gateways -> Nat \ {0}]
    /\ last \in [Gateways -> Nat]
    /\ failed \in [Gateways -> SUBSET Nat]
    /\ stage \in [Gateways -> {"none", "lock", "plan", "calc"}]
    /\ taken \in [Gateways -> BatchType]
    /\ seen \in [Gateways -> SUBSET Requests]
    /\ clean \in [Gateways -> SUBSET Metrics]
    /\ left \in [Gateways -> SUBSET Metrics]
    /\ doing \in [Gateways -> SUBSET Metrics]
    /\ cut \in [Gateways -> BOOLEAN]
    /\ short \in [Gateways -> BOOLEAN]
    /\ ask \in Workloads
    /\ pc \in [Requests -> Places]
    /\ mine \in [Requests -> Nat]
    /\ seq \in [Requests -> Nat]
    /\ err \in [Requests -> BOOLEAN]
    /\ verdict \in [Requests -> Verdicts]
    /\ raced \subseteq Requests
    /\ budget \in 0..MaxFaults

\* A caller whose pass ran to its end finds its write in every result it
\* reaches, or the metric not clean (so that the console shows its error and
\* the next pass calculates it whole): although its request was merged with
\* others, calculated by another caller, and passes of other gateways, and
\* failed ones, have stored results before and since.
Recalculated ==
    \A r \in Requests : verdict[r] = "ok" =>
        \A m \in ask[r].ids : status[m] = "clean" => \A c \in Touched(r) : r \in stored[m][c]

\* No pass puts back a result older than the one it replaces: the writes a
\* stored result has seen are never taken out of it (the pass lock: "the pass
\* that read its inputs first could write last").
NeverStaler ==
    [][\A m \in Metrics, c \in Cells : stored[m][c] \subseteq stored'[m][c]]_vars

\* A pass that returns an error has every caller it served return it, not
\* just the one that ran it, unless the caller slept through more than Keep
\* later passes; a pass that returns none has nobody return one.
ErrorReachesAll ==
    \A r \in Requests : pc[r] = "finish" =>
        /\ verdict[r] = "error" /\ last[GatewayOf[r]] <= mine[r] + Keep => err[r]
        /\ verdict[r] \in {"ok", "short"} => ~err[r]

\* A write that marked its metrics dirty in its own transaction is not lost
\* with its gateway: until some pass has calculated it, the metric is not
\* clean. (A write that lands while a pass calculates the metric is excepted:
\* that pass's MarkClean wipes the mark.)
DirtyOutlivesGateway ==
    \A r \in wrote \ raced : ask[r].durable =>
        \A m \in ask[r].ids : status[m] = "clean" => \A c \in Touched(r) : r \in stored[m][c]

\* When every counted recalculation has been recorded finished, the grid
\* reports nothing pending, in whatever order they finished.
GapCloses ==
    (\A r \in Requests : seq[r] > 0 => pc[r] = "over")
    /\ (\A n \in 1..requested : \E r \in Requests : seq[r] = n)
    => done = requested

\* Every request is answered, or goes with its gateway: no caller waits for a
\* pass that is gone (runPass records a pass finished even when it panics,
\* and wakes every waiter).
EveryRequestReturns ==
    \A r \in Requests : pc[r] \in {"mark", "load"} ~> pc[r] \in {"over", "lost"}

-----------------------------------------------------------------------------
(* What the queue promises its callers. *)

PhaseOf(r) ==
    CASE pc[r] \in {"idle", "mark", "load"} -> "new"
      [] pc[r] \in {"wait", "run", "woken"} /\ verdict[r] = "none" -> "asked"
      [] pc[r] \in {"wait", "run", "woken"} /\ verdict[r] # "none" -> "served"
      [] pc[r] \in {"finish", "over"} -> "answered"
      [] OTHER -> "lost"

Promise == INSTANCE RecalcPromise WITH
    phase   <- [r \in Requests |-> PhaseOf(r)],
    serving <- [g \in Gateways |-> {r \in Requests : running[g] /\ Served(r, g) /\ verdict[r] = "none"}]

\* The queue keeps its promise: a pass serves exactly the requests that were
\* waiting when it began, and a request returns only when its pass has ended.
KeepsPromise == Promise!PromiseSpec

-----------------------------------------------------------------------------
(* What makes the properties above inductive. *)

\* The numbers of a queue: the pass under way is the one after the last
\* finished, and a request waits for one of the two that come next.
QueueInv ==
    /\ \A g \in Gateways :
        /\ running[g] <=> stage[g] # "none"
        /\ next[g] = last[g] + (IF running[g] THEN 2 ELSE 1)
    /\ \A r \in Requests :
        LET g == GatewayOf[r] IN
        /\ Queued(r) => /\ mine[r] \in 1..next[g]
                        /\ verdict[r] = "none" <=> mine[r] > last[g]
        /\ pc[r] = "run" => running[g] /\ mine[r] = next[g] - 1
        /\ pc[r] \in {"idle", "mark", "load"} => verdict[r] = "none"
        /\ pc[r] # "idle" => r \in wrote
    /\ \A q, r \in Requests :
        pc[q] = "run" /\ pc[r] = "run" /\ GatewayOf[q] = GatewayOf[r] => q = r
    /\ \A g \in Gateways : running[g] => \E r \in Requests : pc[r] = "run" /\ GatewayOf[r] = g

\* What a request asked for is in the batch b.
Covers(b, r) ==
    /\ ask[r].ids \subseteq b.ids
    /\ ask[r].cells = {} => ask[r].ids \subseteq b.forced
    /\ ask[r].ids \X ask[r].cells \subseteq b.cells

\* A request is in the batch of the pass it waits for.
BatchInv ==
    \A r \in Requests : Queued(r) =>
        LET g == GatewayOf[r] IN
        /\ mine[r] = next[g] => Covers(batch[g], r)
        /\ running[g] /\ mine[r] = next[g] - 1 => Covers(taken[g], r)

\* A pass holds the lock from its plan to its end, and calculates a metric
\* once.
LockInv ==
    \A g \in Gateways :
        /\ stage[g] \in {"plan", "calc"} <=> lock = g
        /\ stage[g] # "calc" => left[g] = {} /\ doing[g] = {} /\ ~short[g]
        /\ left[g] \cap doing[g] = {}

\* Request r's write is in the results of m.
Landed(r, m) == \A c \in Touched(r) : r \in stored[m][c]

\* A result has seen committed writes only, and one the pass under way has yet
\* to replace has seen no more than that pass.
SeenInv ==
    /\ \A m \in Metrics, c \in Cells : stored[m][c] \subseteq wrote
    /\ \A g \in Gateways : stage[g] = "calc" =>
        /\ seen[g] \subseteq wrote
        /\ \A m \in left[g] \cup doing[g], c \in Cells : stored[m][c] \subseteq seen[g]

\* Recalculated, and how it stands in the middle of a pass.
RecalcInv ==
    /\ \A r \in Requests : verdict[r] = "ok" => r \in wrote
    /\ Recalculated
    /\ \A g \in Gateways : stage[g] = "calc" =>
        /\ \A r \in Requests : verdict[r] = "ok" =>
            /\ r \in seen[g]
            /\ \A m \in (left[g] \cup doing[g]) \cap clean[g] : m \in ask[r].ids => Landed(r, m)
        /\ \A r \in Requests : Served(r, g) =>
            /\ r \in seen[g]
            /\ ~short[g] => \A m \in ask[r].ids \ (left[g] \cup doing[g]) :
                                status[m] = "clean" => Landed(r, m)

\* The same for the writes that left a dirty mark.
DirtyInv ==
    /\ DirtyOutlivesGateway
    /\ \A g \in Gateways : stage[g] = "calc" =>
        \A r \in wrote \ raced : ask[r].durable =>
            \A m \in (left[g] \cup doing[g]) \cap ask[r].ids :
                r \in seen[g] /\ (m \in clean[g] => Landed(r, m))

\* The errors kept are those of finished passes, and a caller finds its own.
ErrorInv ==
    /\ \A g \in Gateways : \A n \in failed[g] : n <= last[g]
    /\ \A r \in Requests : Queued(r) =>
        /\ verdict[r] = "error" /\ last[GatewayOf[r]] <= mine[r] + Keep => mine[r] \in failed[GatewayOf[r]]
        /\ mine[r] \in failed[GatewayOf[r]] => verdict[r] = "error"
    /\ ErrorReachesAll

\* The counters bound the numbers given out and recorded.
GapInv ==
    /\ done <= requested
    /\ \A r \in Requests :
        /\ seq[r] <= requested
        /\ pc[r] = "over" => seq[r] <= done
        /\ pc[r] \in {"idle", "mark"} => seq[r] = 0

=============================================================================

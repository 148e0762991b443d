------------------------------- MODULE RunQueue -------------------------------
(***************************************************************************)
(* The integration run queue: the rows of model.integration_run, the       *)
(* processes that claim them under a lease (the integration worker, and    *)
(* the gateway for model links), and what one attempt at a run does from   *)
(* the claim to the event it dispatches.                                   *)
(*                                                                         *)
(* One action is one SQL statement or transaction of the code, or one      *)
(* request to the remote system; everything between two such points can    *)
(* interleave with every other process, with a cancel request and with a   *)
(* failure.                                                                *)
(*                                                                         *)
(* Data is abstracted: a run is a number (its creation order), a page or a *)
(* batch is a number, and what an attempt writes is counted, not kept.     *)
(***************************************************************************)
EXTENDS Naturals, Sequences

CONSTANTS
    Procs,      \* processes: one identity per start (a restart gets a new one)
    Gateways,   \* the processes that claim model links, and nothing else
    Slots,      \* claim loops; a process may have several
    ProcOf,     \* the process of each slot
    Jobs,       \* the kinds of run that are enqueued
    MaxRuns,    \* bound: runs ever enqueued
    MaxPages,   \* pages of a pull, batches or records of a push
    Faults,     \* the kinds of failure the environment may inject
    MaxFaults   \* bound: how many of them

\* A pull pages through HTTP; "model" reads another model in one request;
\* a push sends batches, or one record at a time.
Connectors == {"pull", "model", "batch", "record"}

\* A real run, a dry run (validates, writes nothing) or a connection test. A
\* job with no data finds nothing to move, which is a success.
Modes == {"real", "dry", "test"}

FaultKinds == {"heartbeat", "crash", "timeout", "shutdown", "claimread", "db"}

ASSUME RunQueueAssumption ==
    /\ Gateways \subseteq Procs
    /\ ProcOf \in [Slots -> Procs]
    /\ Jobs \subseteq [conn : Connectors, mode : Modes, data : BOOLEAN]
    /\ MaxRuns \in Nat \ {0}
    /\ MaxPages \in Nat \ {0}
    /\ Faults \subseteq FaultKinds
    /\ MaxFaults \in Nat

Runs == 1..MaxRuns

VARIABLES
    \* the rows
    status,     \* "absent" before the INSERT, then the status column
    job,        \* connector, mode and data of the run (the workload, fixed)
    owner,      \* claimed_by
    lease,      \* lease_until: NULL, in the future, or in the past
    cancel,     \* meta.cancel_requested
    \* the attempts
    pc,         \* where the slot's attempt is
    run,        \* the run it executes
    page,       \* the page, batch or record it is at
    sent,       \* RecordsWritten > 0 (push)
    errs,       \* some record could not be mapped or sent (push)
    result,     \* RunResult.Status
    live,       \* the attempt's context: FALSE once timed out or shut down
    told,       \* history: the row asked for cancellation when it was claimed
    \* the world
    proc,       \* "new", "up", "stopping" (context cancelled), "down"
    writes,     \* how often a run's data reached the model or the remote
    events,     \* integration_completed / integration_failed, as dispatched
    budget      \* failures the environment may still inject

rowVars  == <<status, job, owner, lease, cancel>>
slotVars == <<pc, run, page, sent, errs, result, live, told>>
vars     == <<rowVars, slotVars, proc, writes, events, budget>>

Settled == {"success", "partial", "failed", "cancelled"}
Results == Settled
Steps   == {"idle", "load", "check", "request", "commit", "written", "finish", "event"}

NoProc == "none"
NoRun  == 0

Busy(s)     == pc[s] # "idle"
Job(s)      == job[run[s]]
IsPush(c)   == c \in {"batch", "record"}
\* The loops that look at cancel_requested before every page or batch.
Checked(c)  == c \in {"pull", "batch", "record"}

Init ==
    /\ status   = [r \in Runs |-> "absent"]
    /\ job      \in [Runs -> Jobs]
    /\ owner    = [r \in Runs |-> NoProc]
    /\ lease    = [r \in Runs |-> "null"]
    /\ cancel   = [r \in Runs |-> FALSE]
    /\ pc       = [s \in Slots |-> "idle"]
    /\ run      = [s \in Slots |-> NoRun]
    /\ page     = [s \in Slots |-> 1]
    /\ sent     = [s \in Slots |-> FALSE]
    /\ errs     = [s \in Slots |-> FALSE]
    /\ result   = [s \in Slots |-> "failed"]
    /\ live     = [s \in Slots |-> FALSE]
    /\ told     = [s \in Slots |-> FALSE]
    /\ proc     = [p \in Procs |-> "new"]
    /\ writes   = [r \in Runs |-> 0]
    /\ events   = [r \in Runs |-> <<>>]
    /\ budget   = MaxFaults

-----------------------------------------------------------------------------
(* The queue. *)

\* The gateway's run / test / dry-run routes and the scheduler's INSERT.
Enqueue(r) ==
    /\ status[r] = "absent"
    /\ \A q \in Runs : q < r => status[q] # "absent"
    /\ status' = [status EXCEPT ![r] = "queued"]
    /\ UNCHANGED <<job, owner, lease, cancel, slotVars, proc, writes, events, budget>>

\* A queued run is cancelled at once; a running one is only flagged.
Cancel(r) ==
    /\ status[r] \in {"queued", "running"}
    /\ ~cancel[r]
    /\ status' = [status EXCEPT ![r] = IF @ = "queued" THEN "cancelled" ELSE @]
    /\ cancel' = [cancel EXCEPT ![r] = TRUE]
    /\ UNCHANGED <<job, owner, lease, slotVars, proc, writes, events, budget>>

\* Mutants: the lease is not looked at; a crashed worker's run is not reclaimed.
ClaimableIgnoringLease(r, p) ==
    /\ status[r] \in {"queued", "running"}
    /\ (job[r].conn = "model") = (p \in Gateways)

ClaimableQueuedOnly(r, p) ==
    /\ status[r] = "queued"
    /\ (job[r].conn = "model") = (p \in Gateways)

Claimable(r, p) ==
    /\ \/ status[r] = "queued" /\ lease[r] # "held"
       \/ status[r] = "running" /\ lease[r] = "lapsed"
    /\ (job[r].conn = "model") = (p \in Gateways)

\* Mutant: the claim resets meta.
LeaseResettingMeta(r, p) ==
    /\ Claimable(r, p)
    /\ \A q \in Runs : Claimable(q, p) => r <= q
    /\ status' = [status EXCEPT ![r] = "running"]
    /\ owner' = [owner EXCEPT ![r] = p]
    /\ lease' = [lease EXCEPT ![r] = "held"]
    /\ cancel' = [cancel EXCEPT ![r] = FALSE]
    /\ UNCHANGED job

\* The claim transaction: the oldest claimable row, leased to the process.
Lease(r, p) ==
    /\ Claimable(r, p)
    /\ \A q \in Runs : Claimable(q, p) => r <= q
    /\ status' = [status EXCEPT ![r] = "running"]
    /\ owner' = [owner EXCEPT ![r] = p]
    /\ lease' = [lease EXCEPT ![r] = "held"]
    /\ UNCHANGED <<job, cancel>>

\* A slot of a running process claims a run and starts an attempt at it.
Claim(s, r) ==
    /\ pc[s] = "idle"
    /\ proc[ProcOf[s]] = "up"
    /\ Lease(r, ProcOf[s])
    /\ pc'     = [pc EXCEPT ![s] = "load"]
    /\ run'    = [run EXCEPT ![s] = r]
    /\ page'   = [page EXCEPT ![s] = 1]
    /\ sent'   = [sent EXCEPT ![s] = FALSE]
    /\ errs'   = [errs EXCEPT ![s] = FALSE]
    /\ result' = [result EXCEPT ![s] = "failed"]
    /\ live'   = [live EXCEPT ![s] = TRUE]
    /\ told'   = [told EXCEPT ![s] = cancel[r]]
    /\ UNCHANGED <<proc, writes, events, budget>>

\* Every failure uses up one of the failures the run may inject.
Fault(kind) ==
    /\ kind \in Faults
    /\ budget > 0
    /\ budget' = budget - 1

\* The claim commits but the read of the claimed row fails: leased, not run.
ClaimUnread(s, r) ==
    /\ Fault("claimread")
    /\ pc[s] = "idle"
    /\ proc[ProcOf[s]] = "up"
    /\ Lease(r, ProcOf[s])
    /\ UNCHANGED <<slotVars, proc, writes, events>>

\* The slots whose heartbeat keeps r's lease: they execute it with a live
\* context, for the process that claimed it.
Beats(s, r) == Busy(s) /\ live[s] /\ run[s] = r /\ ProcOf[s] = owner[r]

\* A heartbeat renews the lease, an expired one too, while the row is still
\* claimed by the process. Its result is not looked at.
Heartbeat(s, r) ==
    /\ Beats(s, r)
    /\ status[r] = "running"
    /\ lease[r] = "lapsed"
    /\ lease' = [lease EXCEPT ![r] = "held"]
    /\ UNCHANGED <<status, job, owner, cancel, slotVars, proc, writes, events, budget>>

\* lease_until passes because no heartbeat is left to renew it ...
LapseUnattended(r) ==
    /\ lease[r] = "held"
    /\ ~ \E s \in Slots : Beats(s, r)
    /\ lease' = [lease EXCEPT ![r] = "lapsed"]
    /\ UNCHANGED <<status, job, owner, cancel, slotVars, proc, writes, events, budget>>

\* ... or although one is: the renewals failed, or the process was paused.
LapseAttended(r) ==
    /\ Fault("heartbeat")
    /\ lease[r] = "held"
    /\ \E s \in Slots : Beats(s, r)
    /\ lease' = [lease EXCEPT ![r] = "lapsed"]
    /\ UNCHANGED <<status, job, owner, cancel, slotVars, proc, writes, events>>

-----------------------------------------------------------------------------
(* One attempt: Runner.Execute. *)

Goto(s, step) == pc' = [pc EXCEPT ![s] = step]

\* The attempt's result is known; Execute goes on to persist it.
Ends(s, res) ==
    /\ result' = [result EXCEPT ![s] = res]
    /\ Goto(s, "finish")
    /\ UNCHANGED <<run, page, sent, errs, live, told>>

\* Mutant: record errors are forgotten once something was written.
PushResultLenient(s, wrote, failed) == IF wrote \/ ~failed THEN "success" ELSE "failed"

\* The end of a push: partial with record errors, failed when they are all
\* there is (but not for a test).
PushResult(s, wrote, failed) ==
    IF ~failed THEN "success"
    ELSE IF ~wrote /\ Job(s).mode = "real" THEN "failed" ELSE "partial"

\* execute's prelude: load and validate the definition, check ownership and
\* the switches, open the credential; a push also loads and maps its rows. Any
\* of them can end the run, a push with no row to send as well.
Load(s) ==
    /\ pc[s] = "load"
    /\ \/ Ends(s, "failed")
       \/ \E bad \in BOOLEAN :
            /\ live[s]
            /\ IsPush(Job(s).conn)
            /\ ~Job(s).data \/ bad
            /\ Ends(s, PushResult(s, FALSE, bad))
       \/ \E bad \in BOOLEAN :
            /\ live[s]
            /\ IF IsPush(Job(s).conn) THEN Job(s).data ELSE ~bad
            /\ errs' = [errs EXCEPT ![s] = bad]
            /\ Goto(s, IF Checked(Job(s).conn) THEN "check" ELSE "request")
            /\ UNCHANGED <<run, page, sent, result, live, told>>
    /\ UNCHANGED <<rowVars, proc, writes, events, budget>>

\* Before each page or batch. A query that fails reads as "not requested".
CheckCancel(s) ==
    /\ pc[s] = "check"
    /\ IF live[s] /\ cancel[run[s]]
       THEN Ends(s, "cancelled")
       ELSE /\ Goto(s, "request")
            /\ UNCHANGED <<run, page, sent, errs, result, live, told>>
    /\ UNCHANGED <<rowVars, proc, writes, events, budget>>

CheckUnread(s) ==
    /\ Fault("db")
    /\ pc[s] = "check"
    /\ Goto(s, "request")
    /\ UNCHANGED <<run, page, sent, errs, result, live, told>>
    /\ UNCHANGED <<rowVars, proc, writes, events>>

\* Mutant: one page too many.
MorePagesOffByOne(s) == page[s] <= MaxPages

\* The loop's bound: the pagination's page limit, the rows of a push.
MorePages(s) == page[s] < MaxPages

\* One page of a pull. A test stops after the first.
FetchPage(s) ==
    /\ pc[s] = "request"
    /\ Job(s).conn = "pull"
    /\ \/ Ends(s, "failed")
       \/ /\ live[s]
          /\ Job(s).mode # "test"
          /\ MorePages(s)
          /\ page' = [page EXCEPT ![s] = @ + 1]
          /\ Goto(s, "check")
          /\ UNCHANGED <<run, sent, errs, result, live, told>>
       \/ /\ live[s]
          /\ Goto(s, "commit")
          /\ UNCHANGED <<run, page, sent, errs, result, live, told>>
    /\ UNCHANGED <<rowVars, proc, writes, events, budget>>

\* The one read of a model link, for which no cancel request is looked at.
ReadModel(s) ==
    /\ pc[s] = "request"
    /\ Job(s).conn = "model"
    /\ \/ Ends(s, "failed")
       \/ /\ live[s]
          /\ Goto(s, "commit")
          /\ UNCHANGED <<run, page, sent, errs, result, live, told>>
    /\ UNCHANGED <<rowVars, proc, writes, events, budget>>

Fetch(s) == FetchPage(s) \/ ReadModel(s)

\* A test or dry run ends without writing, and so does one without data. A
\* real run's commit fails or skips every row, or starts writing; a context
\* that is gone writes nothing.
Commit(s) ==
    /\ pc[s] = "commit"
    /\ \/ Job(s).mode = "test" /\ Ends(s, "success") /\ UNCHANGED writes
       \/ Job(s).mode # "test" /\ Ends(s, "failed") /\ UNCHANGED writes
       \/ Job(s).mode # "test" /\ Ends(s, "partial") /\ UNCHANGED writes
       \/ Job(s).mode = "dry" /\ live[s] /\ Ends(s, "success") /\ UNCHANGED writes
       \/ Job(s).mode = "real" /\ ~Job(s).data /\ Ends(s, "success") /\ UNCHANGED writes
       \/ /\ Job(s).mode = "real" /\ Job(s).data /\ live[s]
          /\ writes' = [writes EXCEPT ![run[s]] = @ + 1]
          /\ Goto(s, "written")
          /\ UNCHANGED <<run, page, sent, errs, result, live, told>>
    /\ UNCHANGED <<rowVars, proc, events, budget>>

\* What is written stays written, whatever the commit then reports.
Written(s) ==
    /\ pc[s] = "written"
    /\ \/ live[s] /\ Ends(s, "success")
       \/ Ends(s, "partial")
       \/ Ends(s, "failed")
    /\ UNCHANGED <<rowVars, proc, writes, events, budget>>

\* The body of a batch cannot be built, which ends the run whatever was sent
\* before it; or the batch or record is sent. It reaches the remote system
\* (delivered, at least once) and the answer is good or not (ok); without a
\* live context nothing is sent. A dry run sends nothing, a test only until
\* the first one is accepted.
Send(s) ==
    /\ pc[s] = "request"
    /\ IsPush(Job(s).conn)
    /\ \/ Job(s).conn = "batch" /\ Ends(s, "failed") /\ UNCHANGED writes
       \/ Job(s).mode = "dry" /\ Ends(s, PushResult(s, FALSE, errs[s])) /\ UNCHANGED writes
       \/ \E ok, delivered \in BOOLEAN :
            LET wrote  == sent[s] \/ ok
                failed == errs[s] \/ ~ok
                stops  == IF ok THEN Job(s).mode = "test" ELSE Job(s).conn = "batch"
            IN
            /\ Job(s).mode # "dry"
            /\ ok => delivered
            /\ delivered => live[s]
            /\ writes' = IF delivered THEN [writes EXCEPT ![run[s]] = @ + 1] ELSE writes
            /\ \/ /\ stops \/ ~MorePages(s)
                  /\ Ends(s, IF Job(s).conn = "batch" /\ ~ok
                             THEN IF sent[s] THEN "partial" ELSE "failed"
                             ELSE PushResult(s, wrote, failed))
               \/ /\ ~stops /\ MorePages(s)
                  /\ page' = [page EXCEPT ![s] = @ + 1]
                  /\ sent' = [sent EXCEPT ![s] = wrote]
                  /\ errs' = [errs EXCEPT ![s] = failed]
                  /\ Goto(s, "check")
                  /\ UNCHANGED <<run, result, live, told>>
    /\ UNCHANGED <<rowVars, proc, events, budget>>

\* Mutant: the result is written on a context of its own.
FinishDetached(s) ==
    /\ pc[s] = "finish"
    /\ status' = [status EXCEPT ![run[s]] = result[s]]
    /\ lease' = [lease EXCEPT ![run[s]] = "null"]
    /\ cancel' = [cancel EXCEPT ![run[s]] = FALSE]
    /\ Goto(s, "event")
    /\ UNCHANGED <<job, owner, run, page, sent, errs, result, live, told>>
    /\ UNCHANGED <<proc, writes, events, budget>>

\* Finish writes the result by run id alone, replaces meta and drops the
\* lease. It uses the attempt's own context, so a dead one persists nothing.
Finish(s) ==
    /\ pc[s] = "finish"
    /\ IF live[s]
       THEN /\ status' = [status EXCEPT ![run[s]] = result[s]]
            /\ lease' = [lease EXCEPT ![run[s]] = "null"]
            /\ cancel' = [cancel EXCEPT ![run[s]] = FALSE]
       ELSE UNCHANGED <<status, lease, cancel>>
    /\ Goto(s, "event")
    /\ UNCHANGED <<job, owner, run, page, sent, errs, result, live, told>>
    /\ UNCHANGED <<proc, writes, events, budget>>

\* The UPDATE itself fails; the error is only logged.
FinishFails(s) ==
    /\ Fault("db")
    /\ pc[s] = "finish"
    /\ Goto(s, "event")
    /\ UNCHANGED <<rowVars, run, page, sent, errs, result, live, told, proc, writes, events>>

\* The slots of S are free: nothing is left of their attempts.
Free(S) ==
    /\ pc'     = [s \in Slots |-> IF s \in S THEN "idle" ELSE pc[s]]
    /\ run'    = [s \in Slots |-> IF s \in S THEN NoRun ELSE run[s]]
    /\ page'   = [s \in Slots |-> IF s \in S THEN 1 ELSE page[s]]
    /\ sent'   = [s \in Slots |-> sent[s] /\ s \notin S]
    /\ errs'   = [s \in Slots |-> errs[s] /\ s \notin S]
    /\ result' = [s \in Slots |-> IF s \in S THEN "failed" ELSE result[s]]
    /\ live'   = [s \in Slots |-> live[s] /\ s \notin S]
    /\ told'   = [s \in Slots |-> told[s] /\ s \notin S]

EventOf(res) == IF res = "failed" THEN "integration_failed" ELSE "integration_completed"

\* Mutant: the event is dispatched on a context of its own.
DispatchDetached(s) ==
    /\ pc[s] = "event"
    /\ events' = IF Job(s).mode = "real" /\ result[s] # "cancelled"
                 THEN [events EXCEPT ![run[s]] = Append(@, EventOf(result[s]))]
                 ELSE events
    /\ Free({s})
    /\ UNCHANGED <<rowVars, proc, writes, budget>>

\* OnFinished of a real run, then the slot is free again.
Dispatch(s) ==
    /\ pc[s] = "event"
    /\ events' = IF live[s] /\ Job(s).mode = "real" /\ result[s] # "cancelled"
                 THEN [events EXCEPT ![run[s]] = Append(@, EventOf(result[s]))]
                 ELSE events
    /\ Free({s})
    /\ UNCHANGED <<rowVars, proc, writes, budget>>

-----------------------------------------------------------------------------
(* Processes and their failures. *)

Start(p) ==
    /\ proc[p] = "new"
    /\ proc' = [proc EXCEPT ![p] = "up"]
    /\ UNCHANGED <<rowVars, slotVars, writes, events, budget>>

\* Another process that serves the same runs is up or will be started.
Replaceable(p) ==
    \E q \in Procs \ {p} : /\ (q \in Gateways) = (p \in Gateways)
                           /\ proc[q] \in {"new", "up"}

\* The 30 minutes of an attempt are over: its context is dead, and with it
\* the heartbeat.
Timeout(s) ==
    /\ Fault("timeout")
    /\ Busy(s) /\ live[s]
    /\ live' = [live EXCEPT ![s] = FALSE]
    /\ UNCHANGED <<rowVars, pc, run, page, sent, errs, result, told, proc, writes, events>>

\* SIGTERM: every attempt's context is cancelled, the attempts run out, and
\* the process ends when the last slot has returned.
Shutdown(p) ==
    /\ Fault("shutdown")
    /\ proc[p] = "up"
    /\ Replaceable(p)
    /\ proc' = [proc EXCEPT ![p] = "stopping"]
    /\ live' = [s \in Slots |-> live[s] /\ ProcOf[s] # p]
    /\ UNCHANGED <<rowVars, pc, run, page, sent, errs, result, told, writes, events>>

Exit(p) ==
    /\ proc[p] = "stopping"
    /\ \A s \in Slots : ProcOf[s] = p => ~Busy(s)
    /\ proc' = [proc EXCEPT ![p] = "down"]
    /\ UNCHANGED <<rowVars, slotVars, writes, events, budget>>

\* The process is gone between any two statements.
Crash(p) ==
    /\ Fault("crash")
    /\ proc[p] \in {"up", "stopping"}
    /\ Replaceable(p)
    /\ proc' = [proc EXCEPT ![p] = "down"]
    /\ Free({s \in Slots : ProcOf[s] = p})
    /\ UNCHANGED <<rowVars, writes, events>>

-----------------------------------------------------------------------------

Attempt(s) ==
    \/ Load(s) \/ CheckCancel(s) \/ Fetch(s) \/ Commit(s) \/ Written(s)
    \/ Send(s) \/ Finish(s) \/ Dispatch(s)

Next ==
    \/ \E r \in Runs : Enqueue(r)
    \/ \E r \in Runs : Cancel(r)
    \/ \E s \in Slots, r \in Runs : Claim(s, r)
    \/ \E s \in Slots, r \in Runs : ClaimUnread(s, r)
    \/ \E s \in Slots, r \in Runs : Heartbeat(s, r)
    \/ \E r \in Runs : LapseUnattended(r)
    \/ \E r \in Runs : LapseAttended(r)
    \/ \E s \in Slots : Attempt(s)
    \/ \E s \in Slots : CheckUnread(s)
    \/ \E s \in Slots : FinishFails(s)
    \/ \E s \in Slots : Timeout(s)
    \/ \E p \in Procs : Start(p)
    \/ \E p \in Procs : Shutdown(p)
    \/ \E p \in Procs : Exit(p)
    \/ \E p \in Procs : Crash(p)

Spec == Init /\ [][Next]_vars

\* What the code's own loops guarantee: a claim loop polls again, an attempt
\* goes on to its end, a pod is started, and time passes for an unattended
\* lease. Users (Enqueue, Cancel) and failures are under no obligation.
Fairness ==
    /\ \A s \in Slots : WF_vars(Attempt(s))
    /\ \A s \in Slots : WF_vars(\E r \in Runs : Claim(s, r))
    /\ \A r \in Runs : WF_vars(LapseUnattended(r))
    /\ \A p \in Procs : WF_vars(Start(p))

FairSpec == Spec /\ Fairness

-----------------------------------------------------------------------------
(* Properties. *)

\* Every variable has the shape of the column or field it stands for.
TypeOK ==
    /\ status   \in [Runs -> Settled \cup {"absent", "queued", "running"}]
    /\ job      \in [Runs -> Jobs]
    /\ owner    \in [Runs -> Procs \cup {NoProc}]
    /\ lease    \in [Runs -> {"null", "held", "lapsed"}]
    /\ cancel   \in [Runs -> BOOLEAN]
    /\ pc       \in [Slots -> Steps]
    /\ run      \in [Slots -> Runs \cup {NoRun}]
    /\ page     \in [Slots -> 1..MaxPages]
    /\ sent     \in [Slots -> BOOLEAN]
    /\ errs     \in [Slots -> BOOLEAN]
    /\ result   \in [Slots -> Results]
    /\ live     \in [Slots -> BOOLEAN]
    /\ told     \in [Slots -> BOOLEAN]
    /\ proc     \in [Procs -> {"new", "up", "stopping", "down"}]
    /\ writes   \in [Runs -> Nat]
    /\ events   \in [Runs -> Seq({"integration_completed", "integration_failed"})]
    /\ budget   \in 0..MaxFaults
    /\ \A s \in Slots : Busy(s) => run[s] \in Runs

\* No two attempts that can still write anything execute the same run: the
\* point of claiming under a lease (Claim, Heartbeat). It is what the code
\* promises as long as heartbeats get through ("heartbeat" \notin Faults).
ExclusiveAttempt ==
    \A s, t \in Slots :
        /\ Busy(s) /\ live[s]
        /\ Busy(t) /\ live[t]
        /\ run[s] = run[t]
        => s = t

\* A run that has ended keeps the status it ended with, although Finish
\* updates by run id alone and a reclaimed run has had other attempts.
SettledIsFinal ==
    [][\A r \in Runs : status[r] \in Settled => status'[r] = status[r]]_vars

\* A cancel request outlives the worker that was to honour it: an attempt
\* claimed after the request was recorded (a crash, a reclaim) and able to
\* write never gets past the check at the head of its page or batch loop.
CancelOutlivesWorker ==
    \A s \in Slots :
        Busy(s) /\ live[s] /\ told[s] /\ Checked(Job(s).conn)
        => pc[s] \in {"load", "check", "finish", "event"}

\* However often a run is reclaimed, the application's rules see one event for
\* it at most, and that event agrees with the status the row ends with
\* (Execute calls OnFinished even when Finish failed).
OneEventPerRun ==
    \A r \in Runs :
        events[r] # <<>> => /\ Len(events[r]) = 1
                            /\ status[r] \in Settled \ {"cancelled"}
                            /\ events[r][1] = EventOf(status[r])

\* How often a run's data has to be written for all of it to have been.
Needed(r) == IF IsPush(job[r].conn) THEN MaxPages ELSE 1

\* The status is earned: a real run recorded as a success has had its data, if
\* there is any, written (a push: all of its batches delivered), and a dry run,
\* or a test of a pull, never writes anything at all, whatever failed on the way.
EffectsMatchStatus ==
    \A r \in Runs :
        /\ status[r] = "success" /\ job[r].mode = "real" /\ job[r].data => writes[r] >= Needed(r)
        /\ job[r].mode = "dry" => writes[r] = 0
        /\ job[r].mode = "test" /\ ~IsPush(job[r].conn) => writes[r] = 0

\* A run that was enqueued is eventually settled: crashes, shutdowns, timed
\* out attempts and failed statements delay it and cannot lose it.
EveryRunSettles ==
    \A r \in Runs : status[r] = "queued" ~> status[r] \in Settled

\* The slots that can still do something to r.
HoldersOf(r) == {s \in Slots : Busy(s) /\ live[s] /\ run[s] = r}

Ledger == INSTANCE RunLedger WITH
    Holders <- Slots,
    state   <- status,
    held    <- [r \in Runs |-> HoldersOf(r)],
    effects <- writes,
    told    <- events

\* The queue implements RunLedger as long as heartbeats get through and
\* statements do not fail: every run has one holder at a time, the attempt
\* whose context lives, and that one alone writes its data, settles it
\* (Finish, which names no owner) and announces it (OnFinished). In particular
\* a run that has settled stays as it is.
KeepsLedger == Ledger!LedgerSpec

-----------------------------------------------------------------------------
(* What makes the properties above inductive. *)

\* Only a running row is leased.
LeaseMeansRunning ==
    \A r \in Runs : lease[r] # "null" => status[r] = "running"

\* An attempt that can still write holds the lease of its run, until Finish
\* has settled the run.
AttemptHoldsLease ==
    \A s \in Slots :
        Busy(s) /\ live[s]
        => \/ /\ status[run[s]] = "running"
              /\ owner[run[s]] = ProcOf[s]
              /\ lease[run[s]] = "held"
           \/ pc[s] = "event" /\ status[run[s]] \in Settled

LeaseInv == LeaseMeansRunning /\ AttemptHoldsLease /\ ExclusiveAttempt

\* The request an attempt was claimed with is still on the row when the
\* attempt comes to look at it.
RequestStays ==
    \A s \in Slots :
        Busy(s) /\ live[s] /\ told[s] /\ pc[s] \in {"load", "check"} => cancel[run[s]]

CancelInv == RequestStays /\ CancelOutlivesWorker

\* Nothing has been dispatched for a run that is not settled, or whose attempt
\* has yet to dispatch; and what it will dispatch is what Finish persisted.
EventPending ==
    /\ \A r \in Runs : status[r] \notin Settled => events[r] = <<>>
    /\ \A s \in Slots :
        Busy(s) /\ live[s]
        => /\ events[run[s]] = <<>>
           /\ (pc[s] = "event" => status[run[s]] = result[s])

EventInv == EventPending /\ OneEventPerRun

\* An attempt earns the success it will record: a push without errors so far
\* has delivered every batch before its page, and a pull has committed.
Earning(s) ==
    /\ pc[s] = "load" => page[s] = 1
    /\ pc[s] \in {"check", "request"} /\ IsPush(Job(s).conn) /\ Job(s).mode = "real" /\ ~errs[s]
       => page[s] <= writes[run[s]] + 1
    /\ pc[s] \in {"commit", "written"} => ~IsPush(Job(s).conn)
    /\ pc[s] = "written" => writes[run[s]] >= 1
    /\ pc[s] = "finish" /\ result[s] = "success" /\ Job(s).mode = "real" /\ Job(s).data
       => writes[run[s]] >= Needed(run[s])

EffectsInv == EffectsMatchStatus /\ \A s \in Slots : Earning(s)

=============================================================================

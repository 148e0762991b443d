---------------------------- MODULE WorkflowEngine ----------------------------
(***************************************************************************)
(* One workflow instance and the request handlers that drive it: starting  *)
(* it, deciding a step, cancelling the run.                                *)
(*                                                                         *)
(* Deciding a step is one transaction; the routing cascade that follows it *)
(* (activate the next steps, rework, reconcile, close) is a recursion over *)
(* separate SQL statements with no transaction around them. Each handler   *)
(* is therefore a stack of what it has left to do, and one action is one   *)
(* statement: it pops a frame, reads or updates the rows, and pushes what  *)
(* the code calls next. Between two statements any other handler may run.  *)
(*                                                                         *)
(* Steps are numbered in document order, and End stands for "end-*".       *)
(* A workflow is [type, routes, test, rule]: the type of each step, its    *)
(* routes (a function from decision, or from any key of a fan-out, to a    *)
(* target), whether the instance is a test run, and whether an automation  *)
(* rule starts it.                                                         *)
(***************************************************************************)
EXTENDS Integers, SequencesExt

CONSTANTS
    Workflows,    \* the definitions an instance may be started from
    Handlers,     \* the requests that can be in progress at the same time
    Direct,       \* do callers use the API beyond what their inbox offers?
    Patient,      \* do callers wait until the start of the run has returned?
    MaxReworks,   \* maxReworks (20 in the code)
    MaxRequests,  \* bound: requests made in a run (0: no bound)
    MaxFaults     \* bound: handlers abandoned and statements that fail

End == 0

StepTypes == {"task", "approval", "condition", "notification", "join"}

ASSUME WorkflowAssumption ==
    /\ \A w \in Workflows :
        /\ w.type \in Seq(StepTypes) /\ Len(w.type) > 0
        /\ DOMAIN w.routes = 1..Len(w.type)
        /\ \A s \in 1..Len(w.type) : \A k \in DOMAIN w.routes[s] : w.routes[s][k] \in 0..Len(w.type)
        /\ w.test \in BOOLEAN /\ w.rule \in BOOLEAN
    /\ Direct \in BOOLEAN /\ Patient \in BOOLEAN
    /\ MaxReworks \in Nat
    /\ MaxRequests \in Nat
    /\ MaxFaults \in Nat

VARIABLES
    wf,         \* the definition the instance keeps (steps_snapshot)
    status,     \* workflow_step.status, "absent" before its INSERT
    decision,   \* workflow_step.decision, "" for NULL
    rework,     \* workflow_step.rework_count
    earlier,    \* completed_at: the standing approvals and rejects before a step's own
    instance,   \* workflow_instance.status
    execution,  \* status of the automation execution that started it
    record,     \* status of the record the run is about
    copies,     \* history: on_approve copies since the step was last opened
    reopened,   \* history: the steps a rework has opened again
    stack,      \* what each handler has left to do, next first
    requests,   \* requests made so far
    faults      \* failures so far

rows == <<status, decision, rework, earlier, copies, reopened>>
bounds == <<requests, faults>>
vars == <<wf, rows, instance, execution, record, stack, bounds>>

Steps    == 1..Len(wf.type)
Open     == {"pending", "in_progress"}
Finished == {"completed", "rejected"}
Resolved == Finished \cup {"skipped"}
Ended    == {"completed", "cancelled", "failed"}

-----------------------------------------------------------------------------
(* The graph. *)

\* The steps of S and those reached from them by following succ: the least
\* set that has the steps of S and is closed under succ.
Closure(S, succ) ==
    LET closed == {C \in SUBSET DOMAIN succ : S \subseteq C /\ \A s \in C : succ[s] \subseteq C}
    IN {s \in DOMAIN succ : \A C \in closed : s \in C}

AllTargets(s) == {wf.routes[s][k] : k \in DOMAIN wf.routes[s]} \ {End}

Routeless(s) == DOMAIN wf.routes[s] = {}

RoutesTo(s, t) == t \in AllTargets(s)

Predecessors(t) == {s \in Steps : RoutesTo(s, t)}

Joins == {s \in Steps : wf.type[s] = "join"}

\* The loops over the steps of a definition go in document order.
First(S) == CHOOSE s \in S : \A t \in S : s <= t
Rest(S)  == S \ {First(S)}

\* The steps that follow s under a decision. An approval takes its reject
\* branch on a reject and its approve branch on anything else, a condition
\* takes the branch its decision names, the others fan out to all targets.
ResolveNext(s, d) ==
    LET key == IF wf.type[s] = "condition" THEN d
               ELSE IF d \in {"reject", "rejected"} THEN "reject" ELSE "approve"
    IN IF wf.type[s] \in {"approval", "condition"}
       THEN (IF key \in DOMAIN wf.routes[s] THEN {wf.routes[s][key]} ELSE {}) \ {End}
       ELSE AllTargets(s)

\* Everything after t, whatever is decided; the walk stops when it is back at t.
Downstream(t) ==
    Closure(AllTargets(t), [s \in Steps |-> IF s = t THEN {} ELSE AllTargets(s)]) \ {t}

\* Mutant: the decision a step was finished with is not looked at.
ReachableAnyBranch ==
    Closure({s \in Steps : status[s] \in Finished \cup {"in_progress"}},
            [s \in Steps |-> AllTargets(s)])

\* What routing can still visit: everything after a step in progress, and
\* after a finished step the branch it took.
Reachable ==
    Closure({s \in Steps : status[s] \in Finished \cup {"in_progress"}},
            [s \in Steps |-> IF status[s] \in Finished THEN ResolveNext(s, decision[s])
                             ELSE AllTargets(s)])

-----------------------------------------------------------------------------
(* Handlers: frames and what the code's functions put on the stack. *)

Idle(h)   == stack[h] = <<>>
Top(h)    == Head(stack[h])
At(h, op) == ~Idle(h) /\ Top(h).op = op

\* The frame at the top is replaced by the frames fs.
Continue(h, fs) == stack' = [stack EXCEPT ![h] = fs \o Tail(@)]

\* processAutoStep acts on these only; the others wait for a person.
IsAuto(s) == wf.type[s] \in {"notification", "condition"}

\* A notification that reached nobody is recorded as skipped; it routes alike.
AutoDecisions(s) == IF wf.type[s] = "condition" THEN {"true", "false"} ELSE {"sent"}

ProcessAutoStep(s) == IF IsAuto(s) THEN <<[op |-> "auto", step |-> s]>> ELSE <<>>

\* activateNextSteps: one frame per next step, in any order (the code ranges
\* over a map), or the sequential fallback of a step without routes.
ActivateNextSteps(s, d) ==
    IF Routeless(s) THEN {<<[op |-> "fallback"]>>}
    ELSE {[i \in DOMAIN q |-> [op |-> "activate", to |-> q[i]]] :
            q \in SetToSeqs(ResolveNext(s, d))}

HasRouting == \E s \in Steps : ~Routeless(s)

\* Mutant: no reconciliation.
ReconcileNothing(pass) == <<>>

\* One pass of the fixpoint loop, which has as many passes as there are steps.
ReconcileInstance(pass) ==
    IF HasRouting /\ pass <= Len(wf.type) THEN <<[op |-> "reach", pass |-> pass]>> ELSE <<>>

\* A pass once it has read what is reachable, and once it has swept the rest.
SweepFrom(pass, reach) == <<[op |-> "sweep", pass |-> pass, reach |-> reach]>>
FireJoins(f, changed) ==
    <<[op |-> "joins", pass |-> f.pass, changed |-> changed,
       left |-> Joins \cap f.reach]>>

CloseInstanceIfIdle == <<[op |-> "idle"]>>
CloseInstance == <<[op |-> "skip"], [op |-> "end"], [op |-> "endexec"]>>

RecordMirror(as) == IF wf.rule THEN <<[op |-> "record", status |-> as]>> ELSE <<>>

Drive(event) == <<[op |-> "drive", event |-> event]>>

\* ReadPredecessors(j, "fire") is the cascade's check before it fires join j;
\* reconcile also asks for one that completed ("any").
ReadPredecessors(j, then) ==
    <<[op |-> "preds", join |-> j, left |-> Predecessors(j), then |-> then]>>

-----------------------------------------------------------------------------
(* Requests. *)

Init ==
    /\ wf \in Workflows
    /\ status    = [s \in Steps |-> "absent"]
    /\ decision  = [s \in Steps |-> ""]
    /\ rework    = [s \in Steps |-> 0]
    /\ earlier   = [s \in Steps |-> {}]
    /\ instance  = "absent"
    /\ execution = "none"
    /\ record    = "draft"
    /\ copies    = [s \in Steps |-> 0]
    /\ reopened  = {}
    /\ stack     = [h \in Handlers |-> <<>>]
    /\ requests  = 0
    /\ faults    = 0

\* A handler takes a request and starts out with the frames fs.
Request(h, fs) ==
    /\ Idle(h)
    /\ MaxRequests > 0 => requests < MaxRequests
    /\ requests' = IF MaxRequests > 0 THEN requests + 1 ELSE 0
    /\ stack' = [stack EXCEPT ![h] = fs]
    /\ UNCHANGED faults

\* The start of the run has not returned yet.
Starting == \E h \in Handlers : \E i \in DOMAIN stack[h] : stack[h][i].op \in {"started", "record"}

\* startWorkflow, directly or for an automation rule, which then records an
\* execution that mirrors the instance.
StartWorkflow(h) ==
    /\ instance = "absent"
    /\ instance' = "running"
    /\ Request(h, <<[op |-> "create", step |-> 1]>> \o Drive("started") \o ProcessAutoStep(1)
                  \o ReconcileInstance(1) \o CloseInstanceIfIdle
                  \o <<[op |-> "started"]>>)
    /\ UNCHANGED <<wf, rows, execution, record>>

\* The step rows are inserted one by one, the first one in progress.
CreateStep(h) ==
    /\ At(h, "create")
    /\ LET s == Top(h).step IN
        /\ status' = [status EXCEPT ![s] = IF s = 1 THEN "in_progress" ELSE "pending"]
        /\ Continue(h, IF s = Len(wf.type) THEN <<>> ELSE <<[op |-> "create", step |-> s + 1]>>)
    /\ UNCHANGED <<wf, decision, rework, earlier, copies, reopened, instance, execution, record, bounds>>

\* What a caller decides. A condition that reached a person is routed by true
\* or false, and the gateway refuses the rest; on the other steps it refuses
\* nothing, but an inbox has the buttons of the step's type.
Decisions(s) ==
    CASE wf.type[s] = "condition" -> {"true", "false"}
      [] Direct                   -> {"approve", "reject", "complete"}
      [] wf.type[s] = "approval"  -> {"approve", "reject"}
      [] OTHER                    -> {"complete"}

\* The steps with an approval decision.
Decided == {s \in Steps : decision[s] \in {"approve", "reject"}}

\* Mutant: the UPDATE is not guarded by the status, so the loser of two
\* concurrent decisions, having read an open step, decides it again.
MayDecideUnguarded(s) == status[s] \in Open \cup Finished

\* The guard of CompleteStep's UPDATE; an inbox lists the steps in progress only.
MayDecide(s) == status[s] = "in_progress" \/ (Direct /\ status[s] = "pending")

\* CompleteStep: the decision, and the on_approve copy of an approval, in one
\* transaction; then the cascade.
CompleteStep(h, s, d) ==
    /\ MayDecide(s)
    /\ ~(Patient /\ Starting)
    /\ d \in Decisions(s)
    /\ status' = [status EXCEPT ![s] = IF d = "reject" THEN "rejected" ELSE "completed"]
    /\ decision' = [decision EXCEPT ![s] = d]
    /\ earlier' = IF d \in {"approve", "reject"} THEN [earlier EXCEPT ![s] = Decided] ELSE earlier
    /\ copies' = IF d = "approve" /\ ~wf.test THEN [copies EXCEPT ![s] = @ + 1] ELSE copies
    /\ \E next \in ActivateNextSteps(s, d) :
        Request(h, next \o ReconcileInstance(1) \o CloseInstanceIfIdle)
    /\ UNCHANGED <<wf, rework, reopened, instance, execution, record>>

\* Mutants: the steps that wait their turn stay; the decided ones go as well.
WithdrawnActive(s) == status[s] = "in_progress"
WithdrawnAll(s) == status[s] # "absent"

Withdrawn(s) == status[s] \in Open

\* CancelInstance: one transaction, then the records.
CancelInstance(h) ==
    /\ instance = "running"
    /\ ~(Patient /\ Starting)
    /\ status' = [s \in Steps |-> IF Withdrawn(s) THEN "skipped" ELSE status[s]]
    /\ instance' = "cancelled"
    /\ execution' = IF execution = "running" THEN "cancelled" ELSE execution
    /\ Request(h, Drive("cancelled"))
    /\ UNCHANGED <<wf, decision, rework, earlier, copies, reopened, record>>

\* The request's context ends (the client is gone, the process stops): what
\* is left of the handler never happens, since every error is swallowed.
Abandon(h) ==
    /\ ~Idle(h)
    /\ faults < MaxFaults
    /\ faults' = faults + 1
    /\ stack' = [stack EXCEPT ![h] = <<>>]
    /\ UNCHANGED <<wf, rows, instance, execution, record, requests>>

\* The frame's statement is one SQL statement (some frames only branch).
Queries(f) ==
    /\ f.op \in {"joins", "any", "preds"} => f.left # {}
    /\ f.op = "activate" => wf.type[f.to] # "join"

\* What the cascade goes on with when that statement fails. Its error is
\* dropped: a read has found nothing, an UPDATE has changed no row.
AfterFailure(f) ==
    CASE f.op = "reach"           -> {SweepFrom(f.pass, {})}
      [] f.op = "sweep"           -> {FireJoins(f, FALSE)}
      [] f.op \in {"joins", "any"} -> {<<[f EXCEPT !.left = Rest(@)]>>}
      [] f.op = "idle"            -> {CloseInstance}
      [] f.op = "activate"        -> {<<[op |-> "rework", step |-> f.to]>>}
      [] f.op = "fire"            -> ActivateNextSteps(f.join, "complete")
      [] f.op = "auto"            -> UNION {ActivateNextSteps(f.step, d) : d \in AutoDecisions(f.step)}
      [] f.op = "started"         -> {RecordMirror("running")}
      [] OTHER                    -> {<<>>}

\* One statement fails (the database is briefly gone) and the handler carries
\* on. Only startWorkflow's INSERTs end the request.
StatementFails(h) ==
    /\ ~Idle(h)
    /\ Queries(Top(h))
    /\ faults < MaxFaults
    /\ faults' = faults + 1
    /\ IF Top(h).op = "create" THEN stack' = [stack EXCEPT ![h] = <<>>]
       ELSE \E next \in AfterFailure(Top(h)) : Continue(h, next)
    /\ UNCHANGED <<wf, rows, instance, execution, record, requests>>

-----------------------------------------------------------------------------
(* activateNextSteps. *)

\* The oldest pending step, whatever its type, becomes the next one.
Fallback(h) ==
    /\ At(h, "fallback")
    /\ LET pending == {s \in Steps : status[s] = "pending"} IN
        status' = [s \in Steps |->
                    IF s \in pending /\ \A t \in pending : s <= t THEN "in_progress" ELSE status[s]]
    /\ Continue(h, <<>>)
    /\ UNCHANGED <<wf, decision, rework, earlier, copies, reopened, instance, execution, record, bounds>>

\* A route to a join starts reading its predecessors; a route to another step
\* opens it if it is pending, and otherwise asks for a rework.
Activate(h) ==
    /\ At(h, "activate")
    /\ wf.type[Top(h).to] # "join"
    /\ LET s == Top(h).to IN
        IF status[s] = "pending"
        THEN /\ status' = [status EXCEPT ![s] = "in_progress"]
             /\ Continue(h, ProcessAutoStep(s))
        ELSE /\ Continue(h, <<[op |-> "rework", step |-> s]>>)
             /\ UNCHANGED status
    /\ UNCHANGED <<wf, decision, rework, earlier, copies, reopened, instance, execution, record, bounds>>

ActivateJoin(h) ==
    /\ At(h, "activate")
    /\ wf.type[Top(h).to] = "join"
    /\ Continue(h, ReadPredecessors(Top(h).to, "fire"))
    /\ UNCHANGED <<wf, rows, instance, execution, record, bounds>>

\* Mutant: a join fires on its first branch.
PredecessorDoneFirst(s) == TRUE

PredecessorDone(s) == status[s] \in Resolved

\* allPredecessorsComplete, one predecessor at a time.
ReadPredecessor(h) ==
    /\ At(h, "preds")
    /\ LET f == Top(h) IN
        IF f.left = {} THEN
            Continue(h, <<[op |-> f.then, join |-> f.join, left |-> Predecessors(f.join)]>>)
        ELSE IF PredecessorDone(First(f.left))
        THEN Continue(h, <<[f EXCEPT !.left = Rest(@)]>>)
        ELSE Continue(h, <<>>)
    /\ UNCHANGED <<wf, rows, instance, execution, record, bounds>>

\* The join completes if it is pending, and routing goes on from it.
FireJoin(h) ==
    /\ At(h, "fire")
    /\ LET j == Top(h).join IN
        /\ status' = [status EXCEPT ![j] = IF @ = "pending" THEN "completed" ELSE @]
        /\ \E next \in ActivateNextSteps(j, "complete") : Continue(h, next)
    /\ UNCHANGED <<wf, decision, rework, earlier, copies, reopened, instance, execution, record, bounds>>

\* Mutant: one round too many.
AtCapLate(s) == rework[s] > MaxReworks

AtCap(s) == rework[s] >= MaxReworks

\* reworkStep: only a step that was passed is sent back, and not too often.
ReadRework(h) ==
    /\ At(h, "rework")
    /\ LET s == Top(h).step IN
        Continue(h, IF status[s] \in Open \cup {"absent"} THEN <<>>
                    ELSE IF AtCap(s)
                    THEN <<[op |-> "fail"], [op |-> "failexec"]>>
                    ELSE <<[op |-> "reset", step |-> s], [op |-> "revive", step |-> s]>>)
    /\ UNCHANGED <<wf, rows, instance, execution, record, bounds>>

FailInstance(h) ==
    /\ At(h, "fail")
    /\ instance' = IF instance = "running" THEN "failed" ELSE instance
    /\ Continue(h, <<>>)
    /\ UNCHANGED <<wf, rows, execution, record, bounds>>

FailExecution(h) ==
    /\ At(h, "failexec")
    /\ execution' = IF execution = "running" THEN "failed" ELSE execution
    /\ Continue(h, <<>>)
    /\ UNCHANGED <<wf, rows, instance, record, bounds>>

\* The steps of S are open again; a decision taken before counts no longer.
Reopen(S, to) ==
    /\ status' = [s \in Steps |-> IF s \in S THEN to ELSE status[s]]
    /\ decision' = [s \in Steps |-> IF s \in S THEN "" ELSE decision[s]]
    /\ earlier' = [s \in Steps |-> IF s \in S THEN {} ELSE earlier[s] \ S]
    /\ copies' = [s \in Steps |-> IF s \in S THEN 0 ELSE copies[s]]
    /\ reopened' = reopened \cup S

\* What is reset: all that follows t, except what is in progress.
Reset(t) == {s \in Downstream(t) : status[s] \notin {"in_progress", "absent"}}

ResetDownstream(h) ==
    /\ At(h, "reset")
    /\ Reopen(Reset(Top(h).step), "pending")
    /\ Continue(h, <<>>)
    /\ UNCHANGED <<wf, rework, instance, execution, record, bounds>>

\* Mutant: the rounds are not counted.
ReworkUncounted(s) == 0

ReworkCount(s) == rework[s] + 1

\* The step itself is in progress again, whatever its status is by now.
Revive(h) ==
    /\ At(h, "revive")
    /\ LET s == Top(h).step IN
        /\ Reopen({s}, "in_progress")
        /\ rework' = [rework EXCEPT ![s] = ReworkCount(s)]
        /\ Continue(h, ProcessAutoStep(s))
    /\ UNCHANGED <<wf, instance, execution, record, bounds>>

\* processAutoStep: a notification is sent and passed; a condition is
\* evaluated, or left to a person when it cannot be. Routing goes on whether
\* or not the step was still in progress.
RunAutoStep(h) ==
    /\ At(h, "auto")
    /\ LET s == Top(h).step IN
        \/ \E d \in AutoDecisions(s) :
            /\ IF status[s] = "in_progress"
               THEN /\ status' = [status EXCEPT ![s] = "completed"]
                    /\ decision' = [decision EXCEPT ![s] = d]
               ELSE UNCHANGED <<status, decision>>
            /\ \E next \in ActivateNextSteps(s, d) : Continue(h, next)
        \/ /\ wf.type[s] = "condition"
           /\ Continue(h, <<>>)
           /\ UNCHANGED <<status, decision>>
    /\ UNCHANGED <<wf, rework, earlier, copies, reopened, instance, execution, record, bounds>>

-----------------------------------------------------------------------------
(* reconcileInstance. *)

ReadReachable(h) ==
    /\ At(h, "reach")
    /\ Continue(h, SweepFrom(Top(h).pass, Reachable))
    /\ UNCHANGED <<wf, rows, instance, execution, record, bounds>>

\* A pending step that can no longer be reached is skipped.
Sweep(h) ==
    /\ At(h, "sweep")
    /\ LET f == Top(h)
           gone == {s \in Steps \ f.reach : status[s] = "pending"}
       IN
        /\ status' = [s \in Steps |-> IF s \in gone THEN "skipped" ELSE status[s]]
        /\ Continue(h, FireJoins(f, gone # {}))
    /\ UNCHANGED <<wf, decision, rework, earlier, copies, reopened, instance, execution, record, bounds>>

\* The joins one by one; then another pass if this one changed anything.
NextJoin(h) ==
    /\ At(h, "joins")
    /\ LET f == Top(h) IN
        IF f.left = {}
        THEN Continue(h, IF f.changed THEN ReconcileInstance(f.pass + 1) ELSE <<>>)
        ELSE Continue(h, (IF status[First(f.left)] = "pending"
                          THEN ReadPredecessors(First(f.left), "any") ELSE <<>>)
                         \o <<[f EXCEPT !.left = Rest(@)]>>)
    /\ UNCHANGED <<wf, rows, instance, execution, record, bounds>>

\* anyPredecessorCompleted, one predecessor at a time. The first that
\* completed lets the join fire, which counts as a change of the pass.
ReadCompleted(h) ==
    /\ At(h, "any")
    /\ LET f == Top(h) IN
        IF f.left = {} THEN Continue(h, <<>>)
        ELSE IF status[First(f.left)] = "completed"
        THEN stack' = [stack EXCEPT ![h] =
                <<[op |-> "fire", join |-> f.join, left |-> {}]>>
                \o <<[@[2] EXCEPT !.changed = TRUE]>> \o Tail(Tail(@))]
        ELSE Continue(h, <<[f EXCEPT !.left = Rest(@)]>>)
    /\ UNCHANGED <<wf, rows, instance, execution, record, bounds>>

-----------------------------------------------------------------------------
(* closeInstanceIfIdle. *)

ReadIdle(h) ==
    /\ At(h, "idle")
    /\ Continue(h, IF \E s \in Steps : status[s] = "in_progress" THEN <<>>
                   ELSE CloseInstance)
    /\ UNCHANGED <<wf, rows, instance, execution, record, bounds>>

SkipPending(h) ==
    /\ At(h, "skip")
    /\ status' = [s \in Steps |-> IF status[s] = "pending" THEN "skipped" ELSE status[s]]
    /\ Continue(h, <<>>)
    /\ UNCHANGED <<wf, decision, rework, earlier, copies, reopened, instance, execution, record, bounds>>

\* Mutant: the UPDATE is not guarded by the instance's status.
MayEndAlways == TRUE

MayEnd == instance = "running"

EndInstance(h) ==
    /\ At(h, "end")
    /\ instance' = IF MayEnd THEN "completed" ELSE instance
    /\ Continue(h, IF MayEnd THEN Drive("finished") ELSE <<>>)
    /\ UNCHANGED <<wf, rows, execution, record, bounds>>

\* Mutant: an execution that is not running is closed too.
EndExecutionAlways(h) ==
    /\ At(h, "endexec")
    /\ execution' = "completed"
    /\ Continue(h, <<>>)
    /\ UNCHANGED <<wf, rows, instance, record, bounds>>

EndExecution(h) ==
    /\ At(h, "endexec")
    /\ execution' = IF execution = "running" THEN "completed" ELSE execution
    /\ Continue(h, <<>>)
    /\ UNCHANGED <<wf, rows, instance, record, bounds>>

Decides == \E s \in Steps : wf.type[s] = "approval"

\* Mutant: the first decision of the run counts, not the last.
DecidedByFirst == CHOOSE s \in Decided : earlier[s] = {}

\* The last approval decision by completed_at.
DecidedBy == CHOOSE s \in Decided : Decided \subseteq earlier[s] \cup {s}

\* What a run event makes of the record's status.
RecordAfter(event) ==
    CASE event = "started" /\ record \in {"draft", "rejected"} -> "submitted"
      [] event = "cancelled" /\ record = "submitted" -> "draft"
      [] event = "finished" /\ Decided # {} ->
            IF decision[DecidedBy] = "approve" THEN "approved" ELSE "rejected"
      [] OTHER -> record

\* driveRecords: a test run, or one that decides nothing, drives no record.
DriveRecords(h) ==
    /\ At(h, "drive")
    /\ record' = IF wf.test \/ ~Decides THEN record ELSE RecordAfter(Top(h).event)
    /\ Continue(h, <<>>)
    /\ UNCHANGED <<wf, rows, instance, execution, copies, bounds>>

\* The caller of startWorkflow: a rule's fireRule reads how far the instance
\* is, for TriggerRule to record it; any other caller is done.
ReadMirror(h) ==
    /\ At(h, "started")
    /\ Continue(h, RecordMirror(IF instance \in {"running", "cancelled"} THEN instance ELSE "completed"))
    /\ UNCHANGED <<wf, rows, instance, execution, record, bounds>>

RecordExecution(h) ==
    /\ At(h, "record")
    /\ execution' = Top(h).status
    /\ Continue(h, <<>>)
    /\ UNCHANGED <<wf, rows, instance, record, bounds>>

-----------------------------------------------------------------------------

\* One statement of a handler that is under way.
Statement(h) ==
    \/ CreateStep(h) \/ Fallback(h) \/ Activate(h) \/ ActivateJoin(h)
    \/ ReadPredecessor(h) \/ FireJoin(h) \/ ReadRework(h) \/ FailInstance(h)
    \/ FailExecution(h) \/ ResetDownstream(h) \/ Revive(h) \/ RunAutoStep(h)
    \/ ReadReachable(h) \/ Sweep(h) \/ NextJoin(h) \/ ReadCompleted(h)
    \/ ReadIdle(h) \/ SkipPending(h) \/ EndInstance(h) \/ EndExecution(h)
    \/ DriveRecords(h) \/ ReadMirror(h) \/ RecordExecution(h)

Next ==
    \/ \E h \in Handlers : StartWorkflow(h)
    \/ \E h \in Handlers : \E s \in Steps : \E d \in Decisions(s) : CompleteStep(h, s, d)
    \/ \E h \in Handlers : CancelInstance(h)
    \/ \E h \in Handlers : Statement(h)
    \/ \E h \in Handlers : Abandon(h)
    \/ \E h \in Handlers : StatementFails(h)

Spec == Init /\ [][Next]_vars

\* A handler that was started goes on; nobody has to decide anything.
FairSpec == Spec /\ \A h \in Handlers : WF_vars(Statement(h))

\* People do decide the steps in their inbox, some time and in any way.
Someone == \E h \in Handlers : \E s \in Steps : \E d \in Decisions(s) : CompleteStep(h, s, d)

AttendedSpec == FairSpec /\ WF_vars(Someone)
-----------------------------------------------------------------------------
(* Properties. *)

Quiet == \A h \in Handlers : Idle(h)

\* What a handler can have left to do.
Frames ==
    [op : {"create"}, step : Steps]
    \cup [op : {"auto"}, step : {s \in Steps : IsAuto(s)}]
    \cup [op : {"rework", "reset", "revive"}, step : Steps \ Joins]
    \cup [op : {"activate"}, to : Steps]
    \cup [op : {"preds"}, join : Joins, left : SUBSET Steps, then : {"fire", "any"}]
    \cup [op : {"fire", "any"}, join : Joins, left : SUBSET Steps]
    \cup [op : {"reach"}, pass : Nat]
    \cup [op : {"sweep"}, pass : Nat, reach : SUBSET Steps]
    \cup [op : {"joins"}, pass : Nat, changed : BOOLEAN, left : SUBSET Joins]
    \cup [op : {"drive"}, event : {"started", "cancelled", "finished"}]
    \cup [op : {"record"}, status : {"running", "cancelled", "completed"}]
    \cup {f \in [op : {"fallback"}] : \E s \in Steps : Routeless(s)}
    \cup [op : {"fail", "failexec", "idle", "skip", "end", "endexec", "started"}]

\* The type of everything but the cap on rework.
Shape ==
    /\ wf \in Workflows
    /\ status \in [Steps -> Open \cup Resolved \cup {"absent"}]
    /\ decision \in [Steps -> {"", "approve", "reject", "true", "false", "complete", "sent"}]
    /\ rework \in [Steps -> Nat]
    /\ earlier \in [Steps -> SUBSET Steps]
    /\ instance \in {"absent", "running"} \cup Ended
    /\ execution \in {"none", "running"} \cup Ended
    /\ record \in {"draft", "submitted", "approved", "rejected"}
    /\ copies \in [Steps -> Nat]
    /\ reopened \subseteq Steps
    /\ stack \in [Handlers -> Seq(Frames)]
    /\ requests \in 0..MaxRequests
    /\ faults \in 0..MaxFaults

\* Every variable has the shape of the column it stands for, and the rework
\* cap bounds rework_count.
TypeOK == Shape /\ \A s \in Steps : rework[s] <= MaxReworks

\* Between requests an instance is running exactly when someone has something
\* to do in it, and one that completed or was cancelled has nothing open:
\* the cascade neither strands a run nor leaves work behind it.
RunningHasWork ==
    Quiet =>
    /\ instance = "running" => \E s \in Steps : status[s] = "in_progress"
    /\ instance \in {"completed", "cancelled"} => \A s \in Steps : status[s] \in Resolved

\* A join has only completed when every branch into it is resolved, through
\* skipped branches, rework of a branch and joins fed by joins.
JoinWaits ==
    \A j \in Steps :
        wf.type[j] = "join" /\ status[j] = "completed"
        => \A s \in Steps : RoutesTo(s, j) => status[s] \in Resolved

\* Between requests a pending step can still be reached from a step that is
\* in progress: reconcileInstance has skipped every branch that was ruled out
\* (a join that waits for one would wait for ever).
PendingIsReachable ==
    Quiet /\ HasRouting => \A s \in Steps :
        status[s] = "pending"
        => s \in Closure({t \in Steps : status[t] = "in_progress"}, [t \in Steps |-> AllTargets(t)])

\* internal/workflow/store.go:1267: when an instance closes, "remaining
\* 'pending' steps sit on branches routing never reached". No step
\* that was never reset is skipped when a finished step's decision routes to it.
RoutedIsNotSkipped ==
    [][\A s \in Steps :
        /\ status[s] = "pending" /\ status'[s] = "skipped" /\ UNCHANGED instance
        /\ s \notin reopened
        => ~ \E p \in Steps : status[p] \in Finished /\ s \in ResolveNext(p, decision[p])]_vars

\* The record of a run is under review while it runs; at the end it has the
\* status of the last approval decision that still stands, and it goes back
\* to its creator when the run is cancelled.
RecordFollowsRun ==
    Quiet /\ Decides /\ ~wf.test =>
    /\ instance = "running" => record = "submitted"
    /\ instance = "cancelled" => record = "draft"
    /\ instance = "completed" /\ record \in {"approved", "rejected"} =>
        LET by == CHOOSE s \in Steps :
                    /\ wf.type[s] = "approval" /\ status[s] \in Finished
                    /\ \A t \in Steps \ {s} :
                        wf.type[t] = "approval" /\ status[t] \in Finished => t \in earlier[s]
        IN (record = "approved") = (status[by] = "completed")

\* Between requests the automation execution tells what became of the
\* instance it started (fireRule: "The execution mirrors the instance
\* lifecycle").
ExecutionMirrors ==
    Quiet /\ execution # "none" => execution = instance

\* A decision, once committed, is undone by a rework alone: no cascade, close
\* or cancel of another request overwrites it ("Steps already decided keep
\* their effect").
DecisionStands ==
    [][\A s \in Steps :
        status[s] \in Finished /\ status'[s] # status[s]
        => status'[s] \in Open /\ s \in reopened']_vars

\* A run that has ended stays as it ended, whoever is still working on it.
EndedStays ==
    [][(instance \in Ended) => UNCHANGED instance]_vars

\* Each time a step is opened, at most one approval of it copies facts, and
\* none in a test run, however many people decide it at the same time.
CopyOncePerRound ==
    \A s \in Steps : copies[s] <= IF wf.test THEN 0 ELSE 1

\* If people decide what is in their inbox, a run that was started ends,
\* however often they send a step back (maxReworks: "reject forever").
RunEnds == instance = "running" ~> instance \in Ended

\* internal/workflow/cancel.go: the open steps of a cancelled run leave every
\* inbox; "nothing more is asked of anyone".
CancelAsksNothing ==
    instance = "cancelled" => \A s \in Steps : status[s] # "in_progress"
=============================================================================

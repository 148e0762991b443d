--------------------------- MODULE ConnectorSchedule ---------------------------
(***************************************************************************)
(* One connector's schedule and the schedule tickers of the integration    *)
(* workers: fireDue arms the schedule of a live revision, reads it when it *)
(* is due, enqueues a run and advances it, each in a statement of its own. *)
(* Users save the schedule, switch the connector and make revisions live   *)
(* in between, and the runs that were enqueued start and end.              *)
(*                                                                         *)
(* Time is a number of ticks, Minute of them to the minute.                *)
(***************************************************************************)
EXTENDS Naturals, FiniteSets

CONSTANTS
    Replicas,   \* integration workers, each with one ticker
    Minute,     \* ticks per minute
    Plans,      \* the kinds and periods users choose from
    Policy,     \* overlap_policy: "skip", or anything else
    MaxTime,    \* bound: the clock stops there
    MaxEdits,   \* bound: changes users make
    MaxFaults   \* bound: polls cut short by a crash or a failed statement

ASSUME ScheduleAssumption ==
    /\ Minute \in Nat \ {0}
    /\ Plans # {}
    /\ \A p \in Plans : /\ p.kind \in {"manual", "interval", "cron"}
                        /\ p.every \in Nat /\ p.every >= Minute
                        /\ p.kind = "cron" => p.every % Minute = 0
    /\ MaxTime \in Nat \ {0}
    /\ MaxEdits \in Nat /\ MaxFaults \in Nat

VARIABLES
    now,
    \* the rows
    plan,       \* kind and interval_seconds or cron_expr
    enabled,
    next,       \* next_fire_at
    live,       \* the connector is in its model's live revision
    runnable,   \* the connector is active and switched on
    runs,       \* status of the run scheduled_for each minute
    \* the tickers
    pc,
    clock,      \* the time fireDue was called with
    row,        \* the schedule as it was read: its plan and next fire
    \* bounds and history
    edits,
    faults,
    fired,      \* for which next_fire_at each run was enqueued
    blind       \* the check for an active run failed once

rows == <<plan, enabled, next, live, runnable, runs>>
tickers == <<pc, clock, row>>
vars == <<now, rows, tickers, edits, faults, fired, blind>>

Null == 0

\* Mutant: runs are told apart by the wrong unit.
TruncateTwo(t) == (t \div (2 * Minute)) * (2 * Minute)

\* now.Truncate(time.Minute)
Truncate(t) == (t \div Minute) * Minute

Ticks == {Truncate(t) : t \in 1..MaxTime}

\* Mutant: a cron expression is advanced past its next occurrence.
ComputeNextLate(p, t) ==
    CASE p.kind = "manual"   -> Null
      [] p.kind = "interval" -> t + p.every
      [] p.kind = "cron"     -> (t \div p.every + 2) * p.every

\* computeNext of an enabled schedule. A cron plan stands for the multiples of
\* its period.
ComputeNext(p, t) ==
    CASE p.kind = "manual"   -> Null
      [] p.kind = "interval" -> t + p.every
      [] p.kind = "cron"     -> (t \div p.every + 1) * p.every

Init ==
    /\ now      = 1
    /\ plan     \in Plans
    /\ enabled  = TRUE
    /\ live     = TRUE
    /\ runnable = TRUE
    /\ next     = ComputeNext(plan, 1)
    /\ runs     = [t \in Ticks |-> "none"]
    /\ pc       = [r \in Replicas |-> "idle"]
    /\ clock    = [r \in Replicas |-> 1]
    /\ row      = [r \in Replicas |-> [plan |-> plan, next |-> Null]]
    /\ edits    = 0
    /\ faults   = 0
    /\ fired    = {}
    /\ blind    = FALSE

-----------------------------------------------------------------------------
(* fireDue. *)

Goto(r, step) == pc' = [pc EXCEPT ![r] = step]

Poll(r) ==
    /\ pc[r] = "idle"
    /\ clock' = [clock EXCEPT ![r] = now]
    /\ Goto(r, "disarm")
    /\ UNCHANGED <<now, rows, row, edits, faults, fired, blind>>

\* ArmActiveSchedules disarms a schedule whose revision is not live ...
Disarm(r) ==
    /\ pc[r] = "disarm"
    /\ next' = IF live THEN next ELSE Null
    /\ Goto(r, "unarmed")
    /\ UNCHANGED <<now, plan, enabled, live, runnable, runs, clock, row, edits, faults, fired, blind>>

\* Mutant: only schedules that were armed before are looked at.
UnarmedNever == FALSE

Unarmed == enabled /\ plan.kind # "manual" /\ next = Null /\ live

\* ... then reads the unarmed one of a live revision, and arms it.
ReadUnarmed(r) ==
    /\ pc[r] = "unarmed"
    /\ row' = IF Unarmed THEN [row EXCEPT ![r].plan = plan] ELSE row
    /\ Goto(r, IF Unarmed THEN "arm" ELSE "due")
    /\ UNCHANGED <<now, rows, clock, edits, faults, fired, blind>>

Arm(r) ==
    /\ pc[r] = "arm"
    /\ next' = IF next = Null THEN ComputeNext(row[r].plan, clock[r]) ELSE next
    /\ Goto(r, "due")
    /\ UNCHANGED <<now, plan, enabled, live, runnable, runs, clock, row, edits, faults, fired, blind>>

Due(r) == enabled /\ next # Null /\ next <= clock[r] /\ live

\* DueSchedules: the row lock ends with the statement, and nothing is advanced.
ReadDue(r) ==
    /\ pc[r] = "due"
    /\ row' = [row EXCEPT ![r] = IF Due(r) THEN [plan |-> plan, next |-> next] ELSE @]
    /\ Goto(r, IF ~Due(r) THEN "idle"
               ELSE IF ~runnable THEN "advance"
               ELSE IF Policy = "skip" THEN "overlap" ELSE "enqueue")
    /\ UNCHANGED <<now, rows, clock, edits, faults, fired, blind>>

\* Mutant: a run that is queued does not count.
HasActiveRunRunning == \E t \in Ticks : runs[t] = "running"

HasActiveRun == \E t \in Ticks : runs[t] \in {"queued", "running"}

CheckOverlap(r) ==
    /\ pc[r] = "overlap"
    /\ Goto(r, IF HasActiveRun THEN "advance" ELSE "enqueue")
    /\ UNCHANGED <<now, rows, clock, row, edits, faults, fired, blind>>

\* Enqueue does nothing when the minute has its run already.
Enqueue(r) ==
    /\ pc[r] = "enqueue"
    /\ LET t == Truncate(clock[r]) IN
        IF runs[t] = "none"
        THEN /\ runs' = [runs EXCEPT ![t] = "queued"]
             /\ fired' = fired \cup {[due |-> row[r].next, tick |-> t]}
        ELSE UNCHANGED <<runs, fired>>
    /\ Goto(r, "advance")
    /\ UNCHANGED <<now, plan, enabled, next, live, runnable, clock, row, edits, faults, blind>>

\* Mutant: last_fire_at is stamped and next_fire_at is not.
AdvanceScheduleStamp(r) ==
    /\ pc[r] = "advance"
    /\ Goto(r, "idle")
    /\ UNCHANGED <<now, rows, clock, row, edits, faults, fired, blind>>

\* AdvanceSchedule overwrites next_fire_at with what follows from the row as
\* it was read, whatever the row says by now.
AdvanceSchedule(r) ==
    /\ pc[r] = "advance"
    /\ next' = ComputeNext(row[r].plan, clock[r])
    /\ Goto(r, "idle")
    /\ UNCHANGED <<now, plan, enabled, live, runnable, runs, clock, row, edits, faults, fired, blind>>

Fault == faults < MaxFaults /\ faults' = faults + 1

\* The worker stops: the rest of the poll does not happen.
Crash(r) ==
    /\ Fault
    /\ pc[r] # "idle"
    /\ Goto(r, "idle")
    /\ UNCHANGED <<now, rows, clock, row, edits, fired, blind>>

\* What fireDue goes on with when a statement fails: arming is given up for
\* this time, no active run was found, and what could not be read, enqueued or
\* advanced is left to the next poll.
AfterFailure(step) ==
    CASE step \in {"disarm", "unarmed", "arm"} -> "due"
      [] step = "overlap"                      -> "enqueue"
      [] OTHER                                 -> "idle"

StatementFails(r) ==
    /\ Fault
    /\ pc[r] # "idle"
    /\ Goto(r, AfterFailure(pc[r]))
    /\ blind' = (blind \/ pc[r] = "overlap")
    /\ UNCHANGED <<now, rows, clock, row, edits, fired>>

-----------------------------------------------------------------------------
(* Users, runs and time. *)

Edit == edits < MaxEdits /\ edits' = edits + 1

\* UpsertSchedule: the whole row, the next fire included.
UpsertSchedule(p, on) ==
    /\ Edit
    /\ plan' = p
    /\ enabled' = on
    /\ next' = IF on THEN ComputeNext(p, now) ELSE Null
    /\ UNCHANGED <<now, live, runnable, runs, tickers, faults, fired, blind>>

SwitchConnector ==
    /\ Edit
    /\ runnable' = ~runnable
    /\ UNCHANGED <<now, plan, enabled, next, live, runs, tickers, faults, fired, blind>>

SwitchRevision ==
    /\ Edit
    /\ live' = ~live
    /\ UNCHANGED <<now, plan, enabled, next, runnable, runs, tickers, faults, fired, blind>>

\* A run is claimed, or it ends.
RunMoves(t) ==
    /\ runs[t] \in {"queued", "running"}
    /\ runs' = [runs EXCEPT ![t] = IF @ = "queued" THEN "running" ELSE "settled"]
    /\ UNCHANGED <<now, plan, enabled, next, live, runnable, tickers, edits, faults, fired, blind>>

Tick ==
    /\ now < MaxTime
    /\ now' = now + 1
    /\ UNCHANGED <<rows, tickers, edits, faults, fired, blind>>

-----------------------------------------------------------------------------

FireDue(r) ==
    \/ Poll(r) \/ Disarm(r) \/ ReadUnarmed(r) \/ Arm(r) \/ ReadDue(r)
    \/ CheckOverlap(r) \/ Enqueue(r) \/ AdvanceSchedule(r)

Next ==
    \/ \E r \in Replicas : FireDue(r)
    \/ \E r \in Replicas : Crash(r)
    \/ \E r \in Replicas : StatementFails(r)
    \/ \E p \in Plans, on \in BOOLEAN : UpsertSchedule(p, on)
    \/ SwitchConnector
    \/ SwitchRevision
    \/ \E t \in Ticks : RunMoves(t)
    \/ Tick

Spec == Init /\ [][Next]_vars

\* A ticker goes on polling; users, runs and the clock may stop.
FairSpec == Spec /\ \A r \in Replicas : WF_vars(FireDue(r))

-----------------------------------------------------------------------------
(* Properties. *)

\* The minutes that have their run, and those whose run is not over.
Used   == {t \in Ticks : runs[t] # "none"}
Active == {t \in Ticks : runs[t] \in {"queued", "running"}}

\* Every variable has the shape of the column or field it stands for; a
\* schedule is never set further ahead than its longest period.
TypeOK ==
    /\ now \in 1..MaxTime
    /\ plan \in Plans
    /\ enabled \in BOOLEAN /\ live \in BOOLEAN /\ runnable \in BOOLEAN
    /\ next \in Nat
    /\ \E p \in Plans : next <= MaxTime + p.every
    /\ runs \in [Ticks -> {"none", "queued", "running", "settled"}]
    /\ pc \in [Replicas -> {"idle", "disarm", "unarmed", "arm", "due", "overlap", "enqueue", "advance"}]
    /\ clock \in [Replicas -> 1..MaxTime]
    /\ row \in [Replicas -> [plan : Plans, next : Nat]]
    /\ edits \in 0..MaxEdits
    /\ faults \in 0..MaxFaults
    /\ fired \subseteq [due : Nat, tick : Ticks]
    /\ blind \in BOOLEAN

\* As long as no poll crashes or meets a failed statement, a fire
\* time gives one run at most, whatever users save meanwhile.
\* cmd/integration/main.go:6: "due schedules enqueue runs (idempotent per tick
\* via the one-run-per-(integration, scheduled_for) index, so replicas never
\* double-fire)".
FireOncePerDue ==
    faults = 0 => \A f, g \in fired : f.due = g.due => f = g

\* The one-run-per-minute index never swallows the run of a fire time that a
\* single ticker serves undisturbed: two of its fire times are never in the same minute,
\* since no interval is shorter than a minute (UpsertSchedule).
IndexSwallowsNothing ==
    faults = 0 => \A r \in Replicas : pc[r] = "enqueue" => runs[Truncate(clock[r])] = "none"

\* Overlap policy "skip" refuses to enqueue while a run is queued or running
\* (fireDue), although the check and the INSERT are two statements. A check
\* that fails lets the run through.
NoOverlap ==
    Policy = "skip" /\ ~blind => Cardinality(Active) <= 1

\* An enabled schedule of a live revision always gets a next fire time in the
\* future: it is armed whichever way its revision went live, and neither a
\* switched off connector nor an overlapping run stalls it.
KeepsGoing ==
    enabled /\ live /\ plan.kind # "manual"
    ~> (enabled /\ live /\ plan.kind # "manual" => next > now)

-----------------------------------------------------------------------------
(* What makes the properties above inductive, for one ticker. *)

\* One integration worker runs.
OneTicker == \A q, r \in Replicas : q = r

\* The clocks a ticker was called with do not go back, and it enqueues for a
\* time that has come.
ClockInv(r) ==
    /\ clock[r] <= now
    /\ pc[r] \in {"overlap", "enqueue"} => row[r].next <= clock[r]

\* The next fire is in a later minute than every run so far, unless the ticker
\* is about to advance it.
AheadInv(r) ==
    /\ \A t \in Used : t <= Truncate(clock[r])
    /\ pc[r] # "advance" /\ next # Null => \A t \in Used : t + Minute <= next
    /\ pc[r] \in {"overlap", "enqueue"} => \A t \in Used : t + Minute <= row[r].next

\* A run was enqueued in the minute of its fire time or later, one per time.
FiredInv ==
    /\ \A f \in fired : f.tick \in Used /\ f.due < f.tick + Minute
    /\ \A f, g \in fired : f.due = g.due => f = g

\* What a check that works has found is still so when the run is enqueued.
CheckedInv ==
    Policy = "skip" /\ ~blind =>
        /\ \A s, t \in Active : s = t
        /\ \A r \in Replicas : pc[r] = "enqueue" => Active = {}

ScheduleInv ==
    /\ TypeOK
    /\ \A r \in Replicas : ClockInv(r)
    /\ faults = 0 => FiredInv /\ \A r \in Replicas : AheadInv(r)
    /\ CheckedInv
=============================================================================

------------------------------ MODULE TaskReminder ------------------------------
(***************************************************************************)
(* Task reminders (internal/notification/reminder.go) and the outbox they  *)
(* feed: every gateway replica runs a reminder loop, which reads the steps *)
(* that have come due, notifies each step's assignees and marks the step   *)
(* reminded, and a dispatcher (NotificationOutbox), which delivers what    *)
(* the notifications queued.                                               *)
(***************************************************************************)
EXTENDS NotificationOutbox

CONSTANTS
    Steps,        \* workflow steps with a due time
    Rank,         \* the order of their due times
    AssigneesOf,  \* the users who may act on each step
    Muted,        \* steps of tenants that have reminders turned off
    StepBatch,    \* Reminder.Batch, how many steps one pass reads (100)
    NoUser,       \* nobody is being notified
    Workloads     \* what the system is and has to do: its replicas, whether
                  \* the tenant has an outbound channel on, the rows other
                  \* producers have queued, the steps in progress

ASSUME ReminderAssumption ==
    /\ Rank \in [Steps -> Nat]
    /\ \A s, t \in Steps : Rank[s] = Rank[t] => s = t
    /\ AssigneesOf \in [Steps -> SUBSET Users]
    /\ Muted \subseteq Steps
    /\ StepBatch \in Nat \ {0}
    /\ NoUser \notin Users
    /\ Workloads \subseteq [replicas : SUBSET Gateways, outbound : BOOLEAN,
                        queued : SUBSET Notes, steps : SUBSET Steps]

VARIABLES
    replicas,  \* the replicas of this deployment
    outbound,  \* the tenant's settings turn an outbound channel on
    step,      \* per step: in progress and not due, near (within the longest
               \* lead any tenant asks for, not within its own tenant's), due,
               \* or decided
    reminded,  \* the steps with reminded_at set
    todo,      \* per replica: the due steps its pass has read and not finished
    asking,    \* its assignees are known: the pass is notifying them
    left,      \* the assignees it has not come to yet
    mailing,   \* the one whose in-app notification is written, outbound next
    told,      \* history: how often each user was reminded of each step
    passedBy   \* history: the users a pass could not, or may not, notify

reminderVars == <<replicas, outbound, step, reminded, todo, asking, left, mailing, told, passedBy>>
vars == <<outboxVars, reminderVars>>

Init ==
    /\ \E w \in Workloads :
        /\ OutboxInit(w.queued)
        /\ step = [s \in Steps |-> IF s \in w.steps THEN "open" ELSE "done"]
        /\ replicas = w.replicas
        /\ outbound = w.outbound
    /\ reminded = {}
    /\ todo = [g \in Gateways |-> {}]
    /\ asking = [g \in Gateways |-> FALSE]
    /\ left = [g \in Gateways |-> {}]
    /\ mailing = [g \in Gateways |-> NoUser]
    /\ told = [s \in Steps |-> [u \in Users |-> 0]]
    /\ passedBy = {}

--------------------------------------------------------------------------------
(* The steps. *)

\* The time comes at which the longest lead sees the step's due time.
ComesNear(s) ==
    /\ step[s] = "open"
    /\ step' = [step EXCEPT ![s] = "near"]
    /\ UNCHANGED <<outboxVars, replicas, outbound, reminded, todo, asking, left, mailing, told, passedBy>>

\* The due time a step was given when it was opened, less its own tenant's
\* lead, passes.
ComesDue(s) ==
    /\ step[s] \in {"open", "near"}
    /\ step' = [step EXCEPT ![s] = "due"]
    /\ UNCHANGED <<outboxVars, replicas, outbound, reminded, todo, asking, left, mailing, told, passedBy>>

\* Somebody decides the step.
Decide(s) ==
    /\ step[s] # "done"
    /\ step' = [step EXCEPT ![s] = "done"]
    /\ UNCHANGED <<outboxVars, replicas, outbound, reminded, todo, asking, left, mailing, told, passedBy>>

--------------------------------------------------------------------------------
(* A pass of g's reminder, RunOnce. *)

\* Mutant: reminded_at is not looked at.
DueStepsAgain == {s \in Steps : step[s] \in {"near", "due"}}

\* In progress, due by the longest lead, and reminded_at not set.
DueSteps == {s \in Steps : step[s] \in {"near", "due"} /\ s \notin reminded}

\* Mutant: one step fewer than the batch.
EarliestShort(S) == {s \in S : Cardinality({t \in S : Rank[t] < Rank[s]}) < StepBatch - 1}

\* dueSteps' ORDER BY due_at LIMIT: the steps with fewer than StepBatch before
\* them, whether or not their tenant wants reminders.
Earliest(S) == {s \in S : Cardinality({t \in S : Rank[t] < Rank[s]}) < StepBatch}

Foremost(S) == CHOOSE s \in S : \A t \in S : Rank[s] <= Rank[t]

Idle(g) == todo[g] = {}

\* A pass reads its steps, without claiming them.
FindDue(g) ==
    /\ Idle(g)
    /\ DueSteps # {}
    /\ todo' = [todo EXCEPT ![g] = Earliest(DueSteps)]
    /\ UNCHANGED <<outboxVars, replicas, outbound, step, reminded, asking, left, mailing, told, passedBy>>

\* Mutant: the next step is taken up with the assignees of the last one.
LeaveAsked(g) ==
    /\ todo' = [todo EXCEPT ![g] = @ \ {Foremost(@)}]
    /\ UNCHANGED asking

\* Go on to the pass's next step.
Leave(g) ==
    /\ todo' = [todo EXCEPT ![g] = @ \ {Foremost(@)}]
    /\ asking' = [asking EXCEPT ![g] = FALSE]

\* The step's tenant has reminders off, or by its lead the step is not due:
\* it is passed over, and stays as it is. (A step that was decided since it
\* was read may have been either.)
SkipMuted(g) ==
    /\ ~Idle(g) /\ ~asking[g]
    /\ Foremost(todo[g]) \in Muted \/ step[Foremost(todo[g])] \in {"near", "done"}
    /\ Leave(g)
    /\ UNCHANGED <<outboxVars, replicas, outbound, step, reminded, left, mailing, told, passedBy>>

\* assignees. What the step's status is by now is not read again.
Ask(g) ==
    /\ ~Idle(g) /\ ~asking[g]
    /\ Foremost(todo[g]) \notin Muted
    /\ step[Foremost(todo[g])] # "near"
    /\ asking' = [asking EXCEPT ![g] = TRUE]
    /\ left' = [left EXCEPT ![g] = AssigneesOf[Foremost(todo[g])]]
    /\ UNCHANGED <<outboxVars, replicas, outbound, step, reminded, todo, mailing, told, passedBy>>

\* Notify, up to the in-app notification, which its recipient has by its
\* being written. A disabled account is notified of nothing.
Tell(g, u) ==
    LET s == Foremost(todo[g]) IN
    /\ asking[g]
    /\ mailing[g] = NoUser
    /\ u \in left[g]
    /\ left' = [left EXCEPT ![g] = @ \ {u}]
    /\ IF u \in disabled
       THEN passedBy' = passedBy \cup {<<s, u>>} /\ UNCHANGED <<told, mailing>>
       ELSE /\ told' = [told EXCEPT ![s][u] = @ + 1]
            /\ mailing' = [mailing EXCEPT ![g] = u]
            /\ UNCHANGED passedBy
    /\ UNCHANGED <<outboxVars, replicas, outbound, step, reminded, todo, asking>>

\* Notify, the outbound row: written when the tenant's settings can be read
\* and turn a channel on; its error is dropped.
Queue(g) ==
    /\ mailing[g] # NoUser
    /\ mailing' = [mailing EXCEPT ![g] = NoUser]
    /\ (outbound /\ Send(mailing[g])) \/ UNCHANGED outboxVars
    /\ UNCHANGED <<replicas, outbound, step, reminded, todo, asking, left, told, passedBy>>

\* Mutant: marked before every assignee was notified.
MarkRemindedEarly(g) ==
    /\ asking[g]
    /\ mailing[g] = NoUser
    /\ reminded' = reminded \cup {Foremost(todo[g])}
    /\ Leave(g)
    /\ UNCHANGED <<outboxVars, replicas, outbound, step, left, mailing, told, passedBy>>

\* markReminded, after every assignee.
MarkReminded(g) ==
    /\ asking[g]
    /\ left[g] = {} /\ mailing[g] = NoUser
    /\ reminded' = reminded \cup {Foremost(todo[g])}
    /\ Leave(g)
    /\ UNCHANGED <<outboxVars, replicas, outbound, step, left, mailing, told, passedBy>>

\* A statement fails: the settings' (the pass ends), the assignees' or the
\* mark's (it goes on to the next step), or a notification's (it goes on to
\* the next assignee, and the step will be marked all the same).
ReminderFault(g) ==
    /\ ~Idle(g)
    /\ Fault("db")
    /\ \/ /\ ~asking[g]
          /\ \/ todo' = [todo EXCEPT ![g] = {}] /\ UNCHANGED asking
             \/ Leave(g)
          /\ UNCHANGED <<left, passedBy>>
       \/ /\ asking[g] /\ mailing[g] = NoUser
          /\ \E u \in left[g] :
               /\ left' = [left EXCEPT ![g] = @ \ {u}]
               /\ passedBy' = passedBy \cup {<<Foremost(todo[g]), u>>}
          /\ UNCHANGED <<todo, asking>>
       \/ /\ asking[g] /\ mailing[g] = NoUser /\ left[g] = {}
          /\ Leave(g)
          /\ UNCHANGED <<left, passedBy>>
    /\ UNCHANGED <<row, disabled, phase, held, cur, sent, unsure, replicas, outbound, step, reminded, mailing, told>>

\* The replica goes down with both of its loops.
Crash(g) ==
    /\ ~Idle(g) \/ phase[g] # "idle"
    /\ CrashDispatcher(g)
    /\ todo' = [todo EXCEPT ![g] = {}]
    /\ asking' = [asking EXCEPT ![g] = FALSE]
    /\ left' = [left EXCEPT ![g] = {}]
    /\ mailing' = [mailing EXCEPT ![g] = NoUser]
    /\ UNCHANGED <<replicas, outbound, step, reminded, told, passedBy>>

--------------------------------------------------------------------------------
ReminderStep(g) ==
    \/ FindDue(g)
    \/ SkipMuted(g)
    \/ Ask(g)
    \/ \E u \in left[g] : Tell(g, u)
    \/ Queue(g)
    \/ MarkReminded(g)

Next ==
    \/ \E s \in Steps : ComesNear(s) \/ ComesDue(s) \/ Decide(s)
    \/ \E g \in replicas : ReminderStep(g) \/ ReminderFault(g) \/ Crash(g)
    \/ /\ \E g \in replicas : DispatchStep(g) \/ DispatchFault(g)
       /\ UNCHANGED reminderVars
    \/ Outside /\ UNCHANGED reminderVars

Spec == Init /\ [][Next]_vars

\* Both loops of every replica keep running, a failed pass being followed by
\* the next, and time passes.
FairSpec ==
    /\ Spec
    /\ \A g \in Gateways :
        /\ WF_vars(g \in replicas /\ ReminderStep(g))
        /\ WF_vars(g \in replicas /\ DispatchStep(g) /\ UNCHANGED reminderVars)
    /\ WF_vars((\E n \in Notes : Lapse(n)) /\ UNCHANGED reminderVars)

--------------------------------------------------------------------------------
(* Properties. *)

\* Every value of the reminders stays in its type, and a pass notifies only for a
\* step it has asked the assignees of.
ReminderTypeOK ==
    /\ replicas \subseteq Gateways
    /\ outbound \in BOOLEAN
    /\ step \in [Steps -> {"open", "near", "due", "done"}]
    /\ reminded \subseteq Steps
    /\ todo \in [Gateways -> SUBSET Steps]
    /\ asking \in [Gateways -> BOOLEAN]
    /\ left \in [Gateways -> SUBSET Users]
    /\ mailing \in [Gateways -> Users \cup {NoUser}]
    /\ told \in [Steps -> [Users -> Nat]]
    /\ passedBy \subseteq Steps \X Users
    /\ \A g \in Gateways :
        /\ asking[g] => todo[g] # {}
        /\ left[g] # {} \/ mailing[g] # NoUser => asking[g]

\* Every value of the reminders and of the outbox stays in its type.
TypeOK == OutboxTypeOK /\ ReminderTypeOK

\* "notifies everyone who could act on a step ... and records that it did so"
\* (reminder.go): a step is marked reminded only when each of its assignees has
\* been told or could not be, by one replica's pass or another's.
MarkedMeansTold ==
    \A s \in reminded : \A u \in AssigneesOf[s] : told[s][u] > 0 \/ <<s, u>> \in passedBy

\* docs/NOTIFICATIONS.md:144-147: the reminder "records that it did, so a task
\* that stays overdue is reminded about once, not on every pass"; reminder.go:
\* "one reminder per step".
RemindedOnce == \A s \in Steps, u \in Users : told[s][u] <= 1

\* "never a drip every pass" (reminder.go). The steps are read without a claim,
\* so RemindedOnce does not hold with two replicas; what does is that passes do
\* not add up: each replica reminds once, and once more for every failure
\* before the mark.
NoDrip == \A s \in Steps, u \in Users : told[s][u] <= Cardinality(replicas) + faults

\* A step whose reminder is owed.
Owed(s) == step[s] = "due" /\ s \notin reminded

\* Steps that every pass passes over fill the batch ahead of s.
Crowded(s) ==
    Cardinality({t \in DueSteps : Rank[t] < Rank[s] /\ (t \in Muted \/ step[t] = "near")}) >= StepBatch

\* A step that comes due is reminded about, unless it is decided first or the
\* pass cannot see it for steps it reads and may not remind about.
DueIsReminded == \A s \in Steps \ Muted : Owed(s) ~> ~Owed(s) \/ Crowded(s)

--------------------------------------------------------------------------------
(* What makes the properties above inductive. *)

\* g's pass is at step s and has come to user u, or has no need to.
Past(g, s, u) == asking[g] /\ s = Foremost(todo[g]) /\ u \notin left[g]

\* g's pass has told, or could not tell, every assignee it has come to.
TellsAll(g) ==
    asking[g] =>
        \A u \in AssigneesOf[Foremost(todo[g])] \ left[g] :
            told[Foremost(todo[g])][u] > 0 \/ <<Foremost(todo[g]), u>> \in passedBy

\* The replicas that may still tell u of s: those that have read s as due and
\* not come to u, and, until it is marked, those that have not read it.
MayTell(s, u) ==
    {g \in replicas : IF s \in todo[g] THEN ~Past(g, s, u) ELSE s \notin reminded}

\* Every reminder is one replica's turn or paid for by a failure.
InTurn(s, u) == told[s][u] + Cardinality(MayTell(s, u)) <= Cardinality(replicas) + faults

ReminderInv ==
    /\ OutboxInv
    /\ ReminderTypeOK
    /\ MarkedMeansTold
    /\ \A g \in Gateways : TellsAll(g)
    /\ \A s \in Steps, u \in Users : InTurn(s, u)
================================================================================

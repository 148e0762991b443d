--------------------------- MODULE NotificationOutbox ---------------------------
(***************************************************************************)
(* The notification outbox (internal/notification): the outbound rows      *)
(* producers queue, the dispatcher every gateway replica runs over them,   *)
(* and what their recipients do to them from the console.                  *)
(*                                                                         *)
(* A note stands for one row on an outbound channel (e-mail or webhook).   *)
(* next_attempt_at is abstracted to what set it: a row is due, or it waits *)
(* out a claim (five minutes) or a backoff. Time passes by Lapse. Whether  *)
(* a channel is turned on, a relay configured and a receiver willing is    *)
(* the choice between Deliver and Refused.                                 *)
(***************************************************************************)
EXTENDS Naturals, FiniteSets

CONSTANTS
    Gateways,     \* replicas; each runs one dispatcher on the database
    Users,        \* recipients
    Leavers,      \* bound: the users whose account may be disabled
    Notes,        \* bound: the outbound rows that can be written
    RecipientOf,  \* the recipient of each row
    NoNote,       \* no message in hand
    MaxAttempts,  \* dispatch.go's MaxAttempts (5)
    Batch,        \* Dispatcher.Batch, how many rows one pass claims (50)
    Faults,       \* what may go wrong: the kinds of failure, and batches that
                  \* outlast their claim ("slow"), which are nobody's failure
    MaxFaults     \* bound: how many of them

FaultKinds == {"crash", "db", "slow", "answer"}

ASSUME OutboxAssumption ==
    /\ IsFiniteSet(Gateways)
    /\ RecipientOf \in [Notes -> Users]
    /\ Leavers \subseteq Users
    /\ NoNote \notin Notes
    /\ MaxAttempts \in Nat \ {0}
    /\ Batch \in Nat \ {0}
    /\ Faults \subseteq FaultKinds
    /\ MaxFaults \in Nat

VARIABLES
    row,       \* notification.notification: status, attempts, what it waits for
    disabled,  \* the users with disabled_at set
    phase,     \* where each dispatcher's pass is
    held,      \* the messages it claimed and has not come to yet
    cur,       \* the message in hand
    faults,    \* failures and slow batches so far
    sent,      \* history: how often each note reached its receiver
    unsure     \* history: notes an outcome of which was lost or came late

outboxVars == <<row, disabled, phase, held, cur, faults, sent, unsure>>

Statuses == {"none", "pending", "delivered", "failed", "read"}
Waits    == {"due", "claim", "backoff"}
Phases   == {"idle", "claim", "batch", "sent", "refused", "giveup", "retry"}

OutboxInit(queued) ==
    /\ row = [n \in Notes |-> [status |-> IF n \in queued THEN "pending" ELSE "none",
                               attempts |-> 0, wait |-> "due"]]
    /\ disabled = {}
    /\ phase = [g \in Gateways |-> "idle"]
    /\ held = [g \in Gateways |-> {}]
    /\ cur = [g \in Gateways |-> NoNote]
    /\ faults = 0
    /\ sent = [n \in Notes |-> 0]
    /\ unsure = {}

Fault(kind) ==
    /\ kind \in Faults
    /\ faults < MaxFaults
    /\ faults' = faults + 1

\* A dispatcher has claimed n and not recorded how it went.
InFlight(n) == \E g \in Gateways : n \in held[g] \cup {cur[g]}

--------------------------------------------------------------------------------
(* Producers, recipients and administrators. *)

\* Send on an outbound channel: the row is left pending for the dispatcher.
Send(u) ==
    /\ \E n \in Notes :
        /\ row[n].status = "none"
        /\ RecipientOf[n] = u
        /\ row' = [row EXCEPT ![n].status = "pending"]
    /\ UNCHANGED <<disabled, phase, held, cur, faults, sent, unsure>>

\* MarkRead takes any row of the caller, on whatever channel: the console's
\* list shows them all.
MarkRead(n) ==
    /\ row[n].status \in {"pending", "delivered", "failed"}
    /\ RecipientOf[n] \notin disabled
    /\ row' = [row EXCEPT ![n].status = "read"]
    /\ UNCHANGED <<disabled, phase, held, cur, faults, sent, unsure>>

\* An administrator disables an account, or enables it again.
SetEnabled(u) ==
    /\ disabled' = IF u \in disabled THEN disabled \ {u} ELSE disabled \cup {u}
    /\ UNCHANGED <<row, phase, held, cur, faults, sent, unsure>>

--------------------------------------------------------------------------------
(* A dispatcher's pass, RunOnce. *)

\* Mutant: rows that are settled already fail too.
OrphanedAnyStatus(n) == row[n].status # "none" /\ RecipientOf[n] \in disabled

\* Queued for someone since disabled.
Orphaned(n) == row[n].status = "pending" /\ RecipientOf[n] \in disabled

\* claimOutbound's first statement: the rows of disabled recipients fail. A
\* pass over an outbox with nothing queued does nothing and is left out.
DropDisabled(g) ==
    /\ phase[g] = "idle"
    /\ \E n \in Notes : row[n].status = "pending"
    /\ row' = [n \in Notes |->
                 IF Orphaned(n) THEN [row[n] EXCEPT !.status = "failed"] ELSE row[n]]
    /\ phase' = [phase EXCEPT ![g] = "claim"]
    /\ UNCHANGED <<disabled, held, cur, faults, sent, unsure>>

Due == {n \in Notes : row[n].status = "pending" /\ row[n].wait = "due"}

\* The rows one statement can take: as many as are due, up to the batch.
Batches(due) ==
    {S \in SUBSET due : Cardinality(S) = IF Cardinality(due) < Batch THEN Cardinality(due) ELSE Batch}

\* Mutant: the claim does not move next_attempt_at.
TakenInSight(r) == [r EXCEPT !.attempts = @ + 1]

\* Mutant: the attempt is not counted.
TakenUncounted(r) == [r EXCEPT !.wait = "claim"]

\* What taking a row does: the attempt is counted before it is made, and the
\* row is out of the others' sight until the claim lapses.
Taken(r) == [status |-> r.status, attempts |-> r.attempts + 1, wait |-> "claim"]

AfterBatch(h) == IF h = {} THEN "idle" ELSE "batch"

\* claimOutbound's second statement. FOR UPDATE SKIP LOCKED makes two such
\* statements take different rows.
Claim(g) ==
    /\ phase[g] = "claim"
    /\ \E S \in Batches(Due) :
        /\ row' = [n \in Notes |-> IF n \in S THEN Taken(row[n]) ELSE row[n]]
        /\ held' = [held EXCEPT ![g] = S]
        /\ phase' = [phase EXCEPT ![g] = AfterBatch(S)]
    /\ UNCHANGED <<disabled, cur, faults, sent, unsure>>

\* The statement fails, or it is committed and reading its answer fails.
ClaimUnread(g) ==
    /\ phase[g] = "claim"
    /\ Fault("db")
    /\ \E S \in Batches(Due) \cup {{}} :
        row' = [n \in Notes |-> IF n \in S THEN Taken(row[n]) ELSE row[n]]
    /\ phase' = [phase EXCEPT ![g] = "idle"]
    /\ UNCHANGED <<disabled, held, cur, sent, unsure>>

\* Reading a tenant's settings fails: the pass ends and leaves what it holds.
SettingsUnread(g) ==
    /\ phase[g] = "batch"
    /\ Fault("db")
    /\ held' = [held EXCEPT ![g] = {}]
    /\ phase' = [phase EXCEPT ![g] = "idle"]
    /\ UNCHANGED <<row, disabled, cur, sent, unsure>>

TakeUp(g, n, outcome) ==
    /\ phase[g] = "batch"
    /\ n \in held[g]
    /\ held' = [held EXCEPT ![g] = @ \ {n}]
    /\ cur' = [cur EXCEPT ![g] = n]
    /\ phase' = [phase EXCEPT ![g] = outcome]
    /\ UNCHANGED <<row, disabled>>

\* deliver: the receiver has it and says so.
Deliver(g, n) ==
    /\ TakeUp(g, n, "sent")
    /\ sent' = [sent EXCEPT ![n] = @ + 1]
    /\ UNCHANGED <<faults, unsure>>

\* deliver: an error, and nothing arrived.
Refused(g, n) ==
    /\ TakeUp(g, n, "refused")
    /\ UNCHANGED <<faults, sent, unsure>>

\* deliver: the receiver has it, and its answer is lost or times out.
AnswerLost(g, n) ==
    /\ Fault("answer")
    /\ TakeUp(g, n, "refused")
    /\ sent' = [sent EXCEPT ![n] = @ + 1]
    /\ unsure' = unsure \cup {n}

PutDown(g) ==
    /\ cur' = [cur EXCEPT ![g] = NoNote]
    /\ phase' = [phase EXCEPT ![g] = AfterBatch(held[g])]

\* Mutant: a delivery is only recorded on a row that is still pending.
RecordDeliveredIfPending(g) ==
    /\ phase[g] = "sent"
    /\ row' = IF row[cur[g]].status = "pending"
              THEN [row EXCEPT ![cur[g]].status = "delivered"] ELSE row
    /\ PutDown(g)
    /\ UNCHANGED <<disabled, held, faults, sent, unsure>>

\* recordDelivered, by id alone.
RecordDelivered(g) ==
    /\ phase[g] = "sent"
    /\ row' = [row EXCEPT ![cur[g]].status = "delivered"]
    /\ PutDown(g)
    /\ UNCHANGED <<disabled, held, faults, sent, unsure>>

\* Mutant: one attempt too many.
ExhaustedLate(n) == row[n].attempts > MaxAttempts

\* The attempts the row has used up.
Exhausted(n) == row[n].attempts >= MaxAttempts

\* recordFailure reads the attempts ...
ReadAttempts(g) ==
    /\ phase[g] = "refused"
    /\ phase' = [phase EXCEPT ![g] = IF Exhausted(cur[g]) THEN "giveup" ELSE "retry"]
    /\ UNCHANGED <<row, disabled, held, cur, faults, sent, unsure>>

\* ... and then gives up, by id alone, ...
GiveUp(g) ==
    /\ phase[g] = "giveup"
    /\ row' = [row EXCEPT ![cur[g]].status = "failed"]
    /\ PutDown(g)
    /\ UNCHANGED <<disabled, held, faults, sent, unsure>>

\* ... or schedules the next attempt, whatever the status is by now.
Retry(g) ==
    /\ phase[g] = "retry"
    /\ row' = [row EXCEPT ![cur[g]].wait = "backoff"]
    /\ PutDown(g)
    /\ UNCHANGED <<disabled, held, faults, sent, unsure>>

\* Recording the outcome fails, at either statement; the pass goes on.
Unrecorded(g) ==
    /\ phase[g] \in {"sent", "refused", "giveup", "retry"}
    /\ Fault("db")
    /\ unsure' = unsure \cup {cur[g]}
    /\ PutDown(g)
    /\ UNCHANGED <<row, disabled, held, sent>>

--------------------------------------------------------------------------------
(* Time, and the process. *)

\* A claim or a backoff runs out. A backoff is shorter than a delivery may
\* take. A claim is longer than one delivery and shorter than a full batch of
\* slow ones: see LapseInFlight.
Lapse(n) ==
    /\ row[n].status = "pending"
    /\ row[n].wait # "due"
    /\ row[n].wait = "claim" => ~InFlight(n)
    /\ row' = [row EXCEPT ![n].wait = "due"]
    /\ UNCHANGED <<disabled, phase, held, cur, faults, sent, unsure>>

\* A claim of five minutes runs out under the dispatcher that holds it: fifty
\* posts of up to fifteen seconds each, or a mail relay, for which there is no
\* time limit. The code does what it was written to do, and nothing has
\* failed; it counts towards the bound all the same.
LapseInFlight(n) ==
    /\ row[n].status = "pending"
    /\ row[n].wait = "claim"
    /\ InFlight(n)
    /\ Fault("slow")
    /\ row' = [row EXCEPT ![n].wait = "due"]
    /\ unsure' = unsure \cup {n}
    /\ UNCHANGED <<disabled, phase, held, cur, sent>>

\* The replica goes down in the middle of its pass and comes back.
CrashDispatcher(g) ==
    /\ Fault("crash")
    /\ phase' = [phase EXCEPT ![g] = "idle"]
    /\ held' = [held EXCEPT ![g] = {}]
    /\ cur' = [cur EXCEPT ![g] = NoNote]
    /\ unsure' = unsure \cup ({cur[g]} \ {NoNote})
    /\ UNCHANGED <<row, disabled, sent>>

--------------------------------------------------------------------------------
\* One step of g's dispatcher, nothing failing but deliveries.
DispatchStep(g) ==
    \/ DropDisabled(g)
    \/ Claim(g)
    \/ \E n \in held[g] : Deliver(g, n) \/ Refused(g, n)
    \/ RecordDelivered(g)
    \/ ReadAttempts(g)
    \/ GiveUp(g)
    \/ Retry(g)

DispatchFault(g) ==
    \/ ClaimUnread(g)
    \/ SettingsUnread(g)
    \/ \E n \in held[g] : AnswerLost(g, n)
    \/ Unrecorded(g)

Outside ==
    \/ \E n \in Notes : MarkRead(n) \/ Lapse(n) \/ LapseInFlight(n)
    \/ \E u \in Leavers : SetEnabled(u)

--------------------------------------------------------------------------------
(* Properties. *)

\* Every value stays in its type, and a dispatcher has a message in hand exactly
\* while it is delivering or recording one.
OutboxTypeOK ==
    /\ row \in [Notes -> [status : Statuses, attempts : Nat, wait : Waits]]
    /\ disabled \subseteq Users
    /\ phase \in [Gateways -> Phases]
    /\ held \in [Gateways -> SUBSET Notes]
    /\ cur \in [Gateways -> Notes \cup {NoNote}]
    /\ \A g \in Gateways : cur[g] \in Notes <=> phase[g] \in {"sent", "refused", "giveup", "retry"}
    /\ faults \in 0 .. MaxFaults
    /\ sent \in [Notes -> Nat]
    /\ unsure \subseteq Notes

\* "Delivery is at-least-once with a bounded number of attempts" (dispatch.go):
\* a note is attempted MaxAttempts times, and once more for every failure, or
\* slow batch, that kept a dispatcher from recording an outcome in time.
BoundedAttempts == \A n \in Notes : row[n].attempts <= MaxAttempts + faults

\* docs/NOTIFICATIONS.md:130: "A pass claims a batch, so several gateway
\* replicas never deliver the same notification twice."
DeliveredOnce == \A n \in Notes : sent[n] <= 1

\* "a crash after claiming costs a delay, never a duplicate storm" (dispatch.go,
\* claimOutbound). DeliveredOnce does not hold; what does is that duplicates do
\* not multiply: a note arrives at most once more for every failure, or batch
\* that outlasted its claim, also when a failure recorded late hands a row out
\* again while another dispatcher is delivering it.
NoDuplicateStorm == \A n \in Notes : sent[n] <= 1 + faults

\* "A notification nobody could deliver becomes 'failed'" (dispatch.go): once
\* no dispatcher holds a note, delivered means that it arrived and failed that
\* it did not, unless an outcome of it was lost or came after its claim.
OutcomeIsTrue ==
    \A n \in Notes : ~InFlight(n) =>
        /\ row[n].status = "delivered" => sent[n] > 0
        /\ row[n].status = "failed" => sent[n] = 0 \/ n \in unsure

\* recordDelivered and recordFailure write by id alone. A note that is no longer
\* pending never becomes pending again, and what is changed in it other than by
\* its recipient is changed by a dispatcher that still holds a claim on it.
SettledMovesInFlight ==
    [][\A n \in Notes :
         row[n].status \notin {"none", "pending"} /\ row'[n].status # row[n].status =>
           \/ row'[n].status = "read"
           \/ row'[n].status # "pending" /\ InFlight(n)]_outboxVars

\* "never a silent gap" (dispatch.go): a queued note does not stay pending,
\* through refusals, crashes, lost outcomes and lapsed claims.
NeverASilentGap == \A n \in Notes : row[n].status = "pending" ~> row[n].status # "pending"

--------------------------------------------------------------------------------
(* What makes the properties above inductive. *)

\* A row that is, or in time will be, up for a claim.
Free(n) == row[n].status = "pending" /\ (row[n].wait = "claim" => ~InFlight(n))

FreeCount(n) == IF Free(n) THEN 1 ELSE 0

\* The dispatchers that hold n, those about to hand it out again, and those
\* that may still deliver it or hand it out.
Holders(n)     == {g \in Gateways : n \in held[g] \cup {cur[g]}}
Retrying(n)    == {g \in Gateways : cur[g] = n /\ phase[g] = "retry"}
Undelivered(n) == {g \in Gateways : n \in held[g] \/ (cur[g] = n /\ phase[g] # "sent")}

\* A dispatcher's message in hand is no longer among those still to come, one
\* that it has sent was sent, and a pass that has not claimed holds none.
Orderly(g) ==
    /\ cur[g] \notin held[g]
    /\ phase[g] = "sent" => sent[cur[g]] > 0
    /\ phase[g] \in {"idle", "claim"} => held[g] = {}

\* A row that is not written yet has no past.
Fresh(n) ==
    row[n].status = "none" => row[n].attempts = 0 /\ sent[n] = 0 /\ Holders(n) = {}

\* What may still happen to a note is paid for: by its one free row, and by one
\* failure for every claim, attempt or delivery beyond.
Paid(n) ==
    /\ FreeCount(n) + Cardinality(Holders(n)) <= 1 + faults
    /\ FreeCount(n) + Cardinality(Retrying(n)) + row[n].attempts <= MaxAttempts + faults
    /\ FreeCount(n) + Cardinality(Undelivered(n)) + sent[n] <= 1 + faults

\* A note whose outcomes were all recorded in time has one holder at most, whose
\* claim has not run out, and what was sent is being, or has been, recorded.
Sure(n) ==
    /\ row[n].status = "delivered" => sent[n] > 0
    /\ n \notin unsure =>
        /\ \A g, h \in Holders(n) : g = h
        /\ Holders(n) # {} => row[n].status # "pending" \/ row[n].wait = "claim"
        /\ sent[n] > 0 => Undelivered(n) = {}
        /\ sent[n] > 0 => Holders(n) # {} \/ row[n].status \in {"delivered", "read"}

OutboxInv ==
    /\ OutboxTypeOK
    /\ \A g \in Gateways : Orderly(g)
    /\ \A n \in Notes : Fresh(n) /\ Paid(n) /\ Sure(n)
================================================================================

------------------------------- MODULE RunLedger -------------------------------
(***************************************************************************)
(* What the integration run queue promises about a run, and nothing of     *)
(* leases, heartbeats and attempts: a run has at most one holder. What     *)
(* happens to it (its data is written, it is settled, the application is   *)
(* told) happens by the hand of that holder; a holder can let go at any    *)
(* time, and another one takes the run up. A run settles once, and is      *)
(* announced once at most, after it has settled and as what it settled.    *)
(***************************************************************************)
EXTENDS Naturals, Sequences

CONSTANTS
    Runs,       \* the runs that may be submitted
    Holders     \* whoever can work on one

VARIABLES
    state,      \* "absent", "queued", "running", or how it was settled
    held,       \* the holders of each run
    effects,    \* how often its data reached the model or the remote system
    told        \* what the application was told of it

ledgerVars == <<state, held, effects, told>>

Outcomes == {"success", "partial", "failed", "cancelled"}

LedgerInit ==
    /\ state   = [r \in Runs |-> "absent"]
    /\ held    = [r \in Runs |-> {}]
    /\ effects = [r \in Runs |-> 0]
    /\ told    = [r \in Runs |-> <<>>]

Submit(r) ==
    /\ state[r] = "absent"
    /\ state' = [state EXCEPT ![r] = "queued"]
    /\ UNCHANGED <<held, effects, told>>

\* A run nobody has taken up is cancelled on the spot.
Withdraw(r) ==
    /\ state[r] = "queued"
    /\ state' = [state EXCEPT ![r] = "cancelled"]
    /\ UNCHANGED <<held, effects, told>>

\* Somebody who holds no other run takes it up, or it only gets that far.
Take(r, S) ==
    /\ state[r] \in {"queued", "running"}
    /\ held[r] = {}
    /\ S = {} \/ \E h \in Holders : S = {h} /\ \A q \in Runs : h \notin held[q]
    /\ state' = [state EXCEPT ![r] = "running"]
    /\ held' = [held EXCEPT ![r] = S]
    /\ UNCHANGED <<effects, told>>

\* Holders are gone: they crashed, ran out of time, or are done.
LetGo ==
    /\ held' \in [Runs -> SUBSET Holders]
    /\ \A r \in Runs : held'[r] \subseteq held[r]
    /\ UNCHANGED <<state, effects, told>>

\* The holder writes a page, a batch or a record.
Write(r) ==
    /\ state[r] = "running"
    /\ held[r] # {}
    /\ effects' = [effects EXCEPT ![r] = @ + 1]
    /\ UNCHANGED <<state, held, told>>

Settle(r, outcome) ==
    /\ state[r] = "running"
    /\ held[r] # {}
    /\ state' = [state EXCEPT ![r] = outcome]
    /\ UNCHANGED <<held, effects, told>>

\* The holder tells the application how the run ended, and is done.
Announce(r) ==
    /\ state[r] \in Outcomes \ {"cancelled"}
    /\ held[r] # {}
    /\ told[r] = <<>>
    /\ told' = [told EXCEPT ![r] = <<IF state[r] = "failed" THEN "integration_failed"
                                     ELSE "integration_completed">>]
    /\ held' = [held EXCEPT ![r] = {}]
    /\ UNCHANGED <<state, effects>>

LedgerNext ==
    \/ \E r \in Runs : Submit(r) \/ Withdraw(r) \/ Write(r) \/ Announce(r)
    \/ \E r \in Runs : \E S \in SUBSET Holders : Take(r, S)
    \/ \E r \in Runs : \E outcome \in Outcomes : Settle(r, outcome)
    \/ LetGo

LedgerSpec == LedgerInit /\ [][LedgerNext]_ledgerVars

=============================================================================

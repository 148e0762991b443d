------------------------ MODULE NotificationOutboxProofs ------------------------
(***************************************************************************)
(* Every step of the outbox keeps OutboxInv, for any dispatchers, notes,   *)
(* batches, attempts and failures. TaskReminderProofs draws the theorems   *)
(* about the composed system from these lemmas.                            *)
(***************************************************************************)
EXTENDS NotificationOutbox, FiniteSetTheorems, TLAPS

--------------------------------------------------------------------------------
(* Counting dispatchers. *)

LEMMA Counts ==
    ASSUME NEW S \in SUBSET Gateways
    PROVE  IsFiniteSet(S) /\ Cardinality(S) \in Nat
  BY FS_Subset, FS_CardinalityType, OutboxAssumption

LEMMA Keeps ==
    ASSUME NEW S \in SUBSET Gateways, NEW T, T \subseteq S
    PROVE  Cardinality(T) \in Nat /\ Cardinality(T) <= Cardinality(S)
  BY Counts, FS_Subset

LEMMA Grows ==
    ASSUME NEW S \in SUBSET Gateways, NEW g \in Gateways, NEW T, T \subseteq S \cup {g}
    PROVE  Cardinality(T) \in Nat /\ Cardinality(T) <= Cardinality(S) + 1
<1>1. IsFiniteSet(S \cup {g}) /\ Cardinality(S \cup {g}) <= Cardinality(S) + 1
  BY Counts, FS_AddElement
<1>2. Cardinality(T) \in Nat /\ Cardinality(T) <= Cardinality(S \cup {g})
  BY <1>1, Keeps
<1> QED BY <1>1, <1>2, Counts

LEMMA Shrinks ==
    ASSUME NEW S \in SUBSET Gateways, NEW g \in S, NEW T, T \subseteq S \ {g}
    PROVE  Cardinality(T) \in Nat /\ Cardinality(T) + 1 <= Cardinality(S)
<1>1. Cardinality(S \ {g}) = Cardinality(S) - 1
  BY Counts, FS_RemoveElement
<1>2. Cardinality(T) \in Nat /\ Cardinality(T) <= Cardinality(S \ {g})
  BY Keeps
<1> QED BY <1>1, <1>2, Counts

LEMMA Sets ==
    ASSUME NEW n
    PROVE  /\ Holders(n) \in SUBSET Gateways
           /\ Retrying(n) \in SUBSET Gateways
           /\ Undelivered(n) \in SUBSET Gateways
           /\ Retrying(n) \subseteq Undelivered(n)
           /\ Undelivered(n) \subseteq Holders(n)
           /\ InFlight(n) <=> Holders(n) # {}
  BY DEF Holders, Retrying, Undelivered, InFlight

LEMMA Numbers ==
    ASSUME NEW n \in Notes, OutboxTypeOK
    PROVE  /\ Cardinality(Holders(n)) \in Nat
           /\ Cardinality(Retrying(n)) \in Nat
           /\ Cardinality(Undelivered(n)) \in Nat
           /\ FreeCount(n) \in {0, 1}
           /\ row[n].attempts \in Nat
           /\ row[n].status \in Statuses
           /\ row[n].wait \in Waits
           /\ sent[n] \in Nat
           /\ faults \in Nat
           /\ MaxAttempts \in Nat \ {0}
<1>1. MaxAttempts \in Nat \ {0} /\ MaxFaults \in Nat
  BY OutboxAssumption
<1>2. row[n] \in [status : Statuses, attempts : Nat, wait : Waits] /\ sent[n] \in Nat /\ faults \in 0 .. MaxFaults
  BY DEF OutboxTypeOK
<1> QED BY <1>1, <1>2, Counts, Sets DEF FreeCount

--------------------------------------------------------------------------------
(* A note that a step leaves alone. *)

LEMMA Undisturbed ==
    ASSUME NEW n \in Notes, OutboxTypeOK, OutboxTypeOK', Fresh(n), Paid(n), Sure(n),
           row'[n] = row[n], sent'[n] = sent[n],
           faults' \in {faults, faults + 1},
           Holders(n)' = Holders(n),
           Retrying(n)' = Retrying(n),
           Undelivered(n)' = Undelivered(n),
           n \in unsure => n \in unsure'
    PROVE  Fresh(n)' /\ Paid(n)' /\ Sure(n)'
<1>1. FreeCount(n)' = FreeCount(n)
  BY Sets DEF FreeCount, Free, InFlight, Holders
<1>2. Fresh(n)'
  BY DEF Fresh
<1>3. Paid(n)'
  BY <1>1, Numbers DEF Paid
<1>4. Sure(n)'
  BY DEF Sure
<1> QED BY <1>2, <1>3, <1>4

\* The three sets depend on the dispatchers' places alone.
LEMMA SamePlaces ==
    ASSUME NEW n, UNCHANGED <<phase, held, cur>>
    PROVE  /\ Holders(n)' = Holders(n)
           /\ Retrying(n)' = Retrying(n)
           /\ Undelivered(n)' = Undelivered(n)
  BY DEF Holders, Retrying, Undelivered

--------------------------------------------------------------------------------
(* The initial states, and steps that move no dispatcher. *)

LEMMA OutboxStarts ==
    ASSUME NEW queued, OutboxInit(queued)
    PROVE  OutboxInv
<1>1. OutboxTypeOK
  BY OutboxAssumption DEF OutboxInit, OutboxTypeOK, Statuses, Waits, Phases
<1>2. ASSUME NEW g \in Gateways PROVE Orderly(g)
  BY DEF OutboxInit, Orderly
<1>3. ASSUME NEW n \in Notes PROVE Fresh(n) /\ Paid(n) /\ Sure(n)
  <2>1. Holders(n) = {} /\ Retrying(n) = {} /\ Undelivered(n) = {}
    BY OutboxAssumption DEF OutboxInit, Holders, Retrying, Undelivered
  <2>2. sent[n] = 0 /\ faults = 0 /\ row[n].attempts = 0 /\ row[n].status # "delivered" /\ row[n].wait = "due"
    BY DEF OutboxInit
  <2>3. Fresh(n)
    BY <2>1, <2>2 DEF Fresh
  <2>4. Paid(n)
    BY <1>1, <2>1, <2>2, Numbers, FS_EmptySet DEF Paid
  <2>5. Sure(n)
    BY <2>1, <2>2 DEF Sure
  <2> QED BY <2>3, <2>4, <2>5
<1> QED BY <1>1, <1>2, <1>3 DEF OutboxInv

LEMMA SendStep ==
    ASSUME OutboxInv, NEW u, Send(u)
    PROVE  OutboxInv'
<1>1. PICK m \in Notes : row[m].status = "none" /\ row' = [row EXCEPT ![m].status = "pending"]
  BY DEF Send
<1>2. UNCHANGED <<disabled, phase, held, cur, faults, sent, unsure>>
  BY DEF Send
<1>3. OutboxTypeOK'
  BY <1>1, <1>2 DEF OutboxInv, OutboxTypeOK, Statuses
<1>4. ASSUME NEW g \in Gateways PROVE Orderly(g)'
  BY <1>2 DEF OutboxInv, Orderly
<1>5. ASSUME NEW n \in Notes PROVE Fresh(n)' /\ Paid(n)' /\ Sure(n)'
  <2>1. CASE n # m
    BY <1>1, <1>2, <1>3, <2>1, SamePlaces, Undisturbed DEF OutboxInv, OutboxTypeOK
  <2>2. CASE n = m
    <3>1. /\ row'[n].status = "pending" /\ row'[n].attempts = row[n].attempts
      BY <1>1, <2>2 DEF OutboxInv, OutboxTypeOK
    <3>2. row[n].attempts = 0 /\ sent[n] = 0 /\ Holders(n) = {} /\ Undelivered(n) = {} /\ Retrying(n) = {}
      BY <1>1, <2>2, Sets DEF OutboxInv, Fresh
    <3>3. Holders(n)' = {} /\ Undelivered(n)' = {} /\ Retrying(n)' = {}
      BY <1>2, <3>2, SamePlaces
    <3>4. Fresh(n)'
      BY <3>1 DEF Fresh
    <3>5. Paid(n)'
      BY <1>2, <1>3, <3>1, <3>2, <3>3, Numbers, FS_EmptySet DEF Paid, FreeCount, OutboxInv
    <3>6. Sure(n)'
      BY <1>2, <3>1, <3>2, <3>3 DEF Sure
    <3> QED BY <3>4, <3>5, <3>6
  <2> QED BY <2>1, <2>2
<1> QED BY <1>3, <1>4, <1>5 DEF OutboxInv

LEMMA MarkReadStep ==
    ASSUME OutboxInv, NEW m \in Notes, MarkRead(m)
    PROVE  OutboxInv'
<1>2. UNCHANGED <<disabled, phase, held, cur, faults, sent, unsure>>
  BY DEF MarkRead
<1>3. OutboxTypeOK'
  BY <1>2 DEF MarkRead, OutboxInv, OutboxTypeOK, Statuses
<1>4. ASSUME NEW g \in Gateways PROVE Orderly(g)'
  BY <1>2 DEF OutboxInv, Orderly
<1>5. ASSUME NEW n \in Notes PROVE Fresh(n)' /\ Paid(n)' /\ Sure(n)'
  <2>1. CASE n # m
    BY <1>2, <1>3, <2>1, SamePlaces, Undisturbed DEF OutboxInv, OutboxTypeOK, MarkRead
  <2>2. CASE n = m
    <3>1. row'[n].status = "read" /\ row'[n].attempts = row[n].attempts
      BY <2>2 DEF OutboxInv, OutboxTypeOK, MarkRead
    <3>2. FreeCount(n)' = 0
      BY <3>1 DEF FreeCount, Free
    <3>3. Paid(n)'
      BY <1>2, <1>3, <3>1, <3>2, SamePlaces, Numbers DEF Paid, OutboxInv
    <3>4. Sure(n)'
      BY <1>2, <3>1, SamePlaces DEF Sure, OutboxInv
    <3> QED BY <3>1, <3>3, <3>4 DEF Fresh
  <2> QED BY <2>1, <2>2
<1> QED BY <1>3, <1>4, <1>5 DEF OutboxInv

\* Nothing changes but the accounts, or the failures counted.
LEMMA IdleStep ==
    ASSUME OutboxInv, UNCHANGED <<row, phase, held, cur, sent, unsure>>,
           disabled' \subseteq Users, faults' \in {faults, faults + 1}, faults' <= MaxFaults
    PROVE  OutboxInv'
<1>1. OutboxTypeOK'
  BY OutboxAssumption DEF OutboxInv, OutboxTypeOK
<1>2. ASSUME NEW g \in Gateways PROVE Orderly(g)'
  BY DEF OutboxInv, Orderly
<1>3. ASSUME NEW n \in Notes PROVE Fresh(n)' /\ Paid(n)' /\ Sure(n)'
  BY <1>1, SamePlaces, Undisturbed DEF OutboxInv
<1> QED BY <1>1, <1>2, <1>3 DEF OutboxInv

LEMMA SetEnabledStep ==
    ASSUME OutboxInv, NEW u \in Leavers, SetEnabled(u)
    PROVE  OutboxInv'
<1>1. disabled' \subseteq Users /\ faults' = faults /\ faults <= MaxFaults
  BY OutboxAssumption DEF OutboxInv, OutboxTypeOK, SetEnabled
<1> QED BY <1>1, IdleStep DEF SetEnabled

LEMMA LapseStep ==
    ASSUME OutboxInv, NEW m \in Notes, Lapse(m)
    PROVE  OutboxInv'
<1>2. UNCHANGED <<disabled, phase, held, cur, faults, sent, unsure>>
  BY DEF Lapse
<1>3. OutboxTypeOK'
  BY <1>2 DEF Lapse, OutboxInv, OutboxTypeOK, Waits
<1>4. ASSUME NEW g \in Gateways PROVE Orderly(g)'
  BY <1>2 DEF OutboxInv, Orderly
<1>5. ASSUME NEW n \in Notes PROVE Fresh(n)' /\ Paid(n)' /\ Sure(n)'
  <2>1. CASE n # m
    BY <1>2, <1>3, <2>1, SamePlaces, Undisturbed DEF OutboxInv, OutboxTypeOK, Lapse
  <2>2. CASE n = m
    <3>1. row'[n].status = "pending" /\ row'[n].attempts = row[n].attempts /\ row[n].status = "pending"
      BY <2>2 DEF OutboxInv, OutboxTypeOK, Lapse
    <3>2. FreeCount(n) = 1
      BY <2>2 DEF FreeCount, Free, Lapse
    <3>3. Paid(n)'
      BY <1>2, <1>3, <3>1, <3>2, SamePlaces, Numbers DEF Paid, FreeCount, OutboxInv
    <3>4. n \notin unsure => Holders(n) = {}
      <4>1. row[n].wait # "claim" \/ Holders(n) = {}
        BY <2>2, Sets DEF Lapse
      <4> QED BY <3>1, <4>1 DEF OutboxInv, Sure
    <3>5. Sure(n)'
      BY <1>2, <3>1, <3>4, SamePlaces DEF Sure, OutboxInv
    <3> QED BY <3>1, <3>3, <3>5 DEF Fresh
  <2> QED BY <2>1, <2>2
<1> QED BY <1>3, <1>4, <1>5 DEF OutboxInv

LEMMA FaultCounts ==
    ASSUME OutboxInv, NEW kind, Fault(kind)
    PROVE  faults' = faults + 1 /\ faults \in Nat /\ faults' \in 0 .. MaxFaults
  BY OutboxAssumption DEF OutboxInv, OutboxTypeOK, Fault

LEMMA LapseInFlightStep ==
    ASSUME OutboxInv, NEW m \in Notes, LapseInFlight(m)
    PROVE  OutboxInv'
<1>1. faults' = faults + 1 /\ faults' \in 0 .. MaxFaults
  BY FaultCounts DEF LapseInFlight
<1>2. UNCHANGED <<disabled, phase, held, cur, sent>> /\ unsure' = unsure \cup {m}
  BY DEF LapseInFlight
<1>3. OutboxTypeOK'
  BY <1>1, <1>2 DEF LapseInFlight, OutboxInv, OutboxTypeOK, Waits
<1>4. ASSUME NEW g \in Gateways PROVE Orderly(g)'
  BY <1>2 DEF OutboxInv, Orderly
<1>5. ASSUME NEW n \in Notes PROVE Fresh(n)' /\ Paid(n)' /\ Sure(n)'
  <2>1. CASE n # m
    BY <1>1, <1>2, <1>3, <2>1, SamePlaces, Undisturbed DEF OutboxInv, OutboxTypeOK, LapseInFlight
  <2>2. CASE n = m
    <3>1. row'[n].status = "pending" /\ row'[n].attempts = row[n].attempts
      BY <2>2 DEF OutboxInv, OutboxTypeOK, LapseInFlight
    <3>2. Paid(n)'
      BY <1>1, <1>2, <1>3, <3>1, SamePlaces, Numbers, FaultCounts DEF Paid, OutboxInv, FreeCount
    <3>3. Sure(n)'
      BY <1>2, <2>2, <3>1 DEF Sure
    <3> QED BY <3>1, <3>2, <3>3 DEF Fresh
  <2> QED BY <2>1, <2>2
<1> QED BY <1>3, <1>4, <1>5 DEF OutboxInv

--------------------------------------------------------------------------------
(* A dispatcher's pass up to its batch. *)

\* A dispatcher without a message in hand moves, and its batch stays.
LEMMA EmptyHanded ==
    ASSUME OutboxInv, NEW g \in Gateways, NEW place \in {"idle", "claim", "batch"},
           phase[g] \in {"idle", "claim", "batch"},
           phase' = [phase EXCEPT ![g] = place], UNCHANGED <<held, cur>>, NEW n \in Notes
    PROVE  /\ Holders(n)' = Holders(n)
           /\ Retrying(n)' = Retrying(n)
           /\ Undelivered(n)' = Undelivered(n)
<1>1. cur[g] # n
  BY OutboxAssumption DEF OutboxInv, OutboxTypeOK
<1>2. \A h \in Gateways : h # g => phase'[h] = phase[h]
  BY DEF OutboxInv, OutboxTypeOK
<1> QED BY <1>1, <1>2 DEF Holders, Retrying, Undelivered

LEMMA DropDisabledStep ==
    ASSUME OutboxInv, NEW g \in Gateways, DropDisabled(g)
    PROVE  OutboxInv'
<1>1. UNCHANGED <<disabled, held, cur, faults, sent, unsure>> /\ phase[g] = "idle"
  BY DEF DropDisabled
<1>2. \A n \in Notes : row'[n] = IF Orphaned(n) THEN [row[n] EXCEPT !.status = "failed"] ELSE row[n]
  BY DEF DropDisabled
<1>3. OutboxTypeOK'
  <2>1. row' \in [Notes -> [status : Statuses, attempts : Nat, wait : Waits]]
    BY DEF DropDisabled, OutboxInv, OutboxTypeOK, Statuses
  <2>2. phase' \in [Gateways -> Phases]
    BY DEF DropDisabled, OutboxInv, OutboxTypeOK, Phases
  <2>3. \A h \in Gateways : cur'[h] \in Notes <=> phase'[h] \in {"sent", "refused", "giveup", "retry"}
    BY DEF DropDisabled, OutboxInv, OutboxTypeOK
  <2> QED BY <1>1, <2>1, <2>2, <2>3 DEF OutboxInv, OutboxTypeOK
<1>4. ASSUME NEW h \in Gateways PROVE Orderly(h)'
  BY DEF DropDisabled, OutboxInv, OutboxTypeOK, Orderly
<1>5. ASSUME NEW n \in Notes PROVE Fresh(n)' /\ Paid(n)' /\ Sure(n)'
  <2>1. /\ Holders(n)' = Holders(n)
        /\ Retrying(n)' = Retrying(n)
        /\ Undelivered(n)' = Undelivered(n)
    BY EmptyHanded DEF DropDisabled
  <2>2. CASE ~Orphaned(n)
    BY <1>1, <1>2, <1>3, <2>1, <2>2, Undisturbed DEF OutboxInv
  <2>3. CASE Orphaned(n)
    <3>1. row'[n].status = "failed" /\ row'[n].attempts = row[n].attempts /\ row[n].status = "pending"
      BY <1>2, <2>3 DEF OutboxInv, OutboxTypeOK, Orphaned
    <3>2. Paid(n)'
      BY <1>1, <2>1, <3>1, Numbers DEF Paid, FreeCount, Free, OutboxInv
    <3>3. Sure(n)'
      BY <1>1, <2>1, <3>1 DEF Sure, OutboxInv
    <3> QED BY <3>1, <3>2, <3>3 DEF Fresh
  <2> QED BY <2>2, <2>3
<1> QED BY <1>3, <1>4, <1>5 DEF OutboxInv

\* The rows after a claim of S.
LEMMA TakenRows ==
    ASSUME OutboxTypeOK, NEW S \in SUBSET Due,
           row' = [n \in Notes |-> IF n \in S THEN Taken(row[n]) ELSE row[n]]
    PROVE  /\ row' \in [Notes -> [status : Statuses, attempts : Nat, wait : Waits]]
           /\ \A n \in Notes \ S : row'[n] = row[n]
           /\ \A n \in S : /\ n \in Notes
                           /\ row[n].status = "pending" /\ row[n].wait = "due"
                           /\ row'[n].status = "pending" /\ row'[n].wait = "claim"
                           /\ row'[n].attempts = row[n].attempts + 1
<1>1. ASSUME NEW n \in Notes
      PROVE  /\ row[n] \in [status : Statuses, attempts : Nat, wait : Waits]
             /\ Taken(row[n]) \in [status : Statuses, attempts : Nat, wait : Waits]
             /\ Taken(row[n]).status = row[n].status
             /\ Taken(row[n]).wait = "claim"
             /\ Taken(row[n]).attempts = row[n].attempts + 1
  BY DEF OutboxTypeOK, Taken, Waits
<1>2. row' \in [Notes -> [status : Statuses, attempts : Nat, wait : Waits]]
  BY <1>1
<1> QED BY <1>1, <1>2 DEF Due

LEMMA ClaimStep ==
    ASSUME OutboxInv, NEW g \in Gateways, Claim(g)
    PROVE  OutboxInv'
<1>1. PICK S \in Batches(Due) :
        /\ row' = [n \in Notes |-> IF n \in S THEN Taken(row[n]) ELSE row[n]]
        /\ held' = [held EXCEPT ![g] = S]
        /\ phase' = [phase EXCEPT ![g] = AfterBatch(S)]
  BY DEF Claim
<1>2. UNCHANGED <<disabled, cur, faults, sent, unsure>> /\ phase[g] = "claim" /\ S \in SUBSET Due /\ S \subseteq Notes
  BY <1>1 DEF Claim, Batches, Due
<1>3. /\ row' \in [Notes -> [status : Statuses, attempts : Nat, wait : Waits]]
      /\ \A n \in Notes \ S : row'[n] = row[n]
      /\ \A n \in S : /\ row[n].status = "pending" /\ row[n].wait = "due"
                      /\ row'[n].status = "pending" /\ row'[n].wait = "claim"
                      /\ row'[n].attempts = row[n].attempts + 1
  BY <1>1, <1>2, TakenRows DEF OutboxInv
<1>4. /\ phase'[g] \in {"idle", "batch"}
      /\ phase'[g] = "idle" => S = {}
      /\ held'[g] = S /\ held[g] = {}
      /\ cur[g] \notin Notes
      /\ \A h \in Gateways \ {g} : phase'[h] = phase[h] /\ held'[h] = held[h]
  BY <1>1, <1>2 DEF OutboxInv, OutboxTypeOK, Orderly, AfterBatch
<1>5. OutboxTypeOK'
  <2>1. phase' \in [Gateways -> Phases] /\ held' \in [Gateways -> SUBSET Notes]
    BY <1>1, <1>2 DEF OutboxInv, OutboxTypeOK, AfterBatch, Phases
  <2>2. \A h \in Gateways : cur'[h] \in Notes <=> phase'[h] \in {"sent", "refused", "giveup", "retry"}
    BY <1>2, <1>4 DEF OutboxInv, OutboxTypeOK
  <2> QED BY <1>2, <1>3, <2>1, <2>2 DEF OutboxInv, OutboxTypeOK
<1>6. ASSUME NEW h \in Gateways PROVE Orderly(h)'
  BY <1>2, <1>4 DEF OutboxInv, Orderly
<1>7. ASSUME NEW n \in Notes PROVE Fresh(n)' /\ Paid(n)' /\ Sure(n)'
  <2>1. Retrying(n)' = Retrying(n)
    BY <1>2, <1>4 DEF Retrying
  <2>2. CASE n \notin S
    <3>1. Holders(n)' = Holders(n) /\ Undelivered(n)' = Undelivered(n)
      BY <1>2, <1>4, <2>2 DEF Holders, Undelivered
    <3> QED BY <1>2, <1>3, <1>5, <2>1, <2>2, <3>1, Undisturbed DEF OutboxInv
  <2>3. CASE n \in S
    <3>1. Holders(n)' = Holders(n) \cup {g} /\ Undelivered(n)' = Undelivered(n) \cup {g}
      BY <1>2, <1>4, <2>3 DEF Holders, Undelivered
    <3>2. /\ Cardinality(Holders(n)') \in Nat /\ Cardinality(Holders(n)') <= Cardinality(Holders(n)) + 1
          /\ Cardinality(Undelivered(n)') \in Nat /\ Cardinality(Undelivered(n)') <= Cardinality(Undelivered(n)) + 1
      BY <3>1, Sets, Grows
    <3>3. FreeCount(n) = 1
      BY <1>3, <2>3 DEF FreeCount, Free
    <3>4. FreeCount(n)' = 0
      <4>1. InFlight(n)'
        BY <1>4, <2>3 DEF InFlight
      <4> QED BY <1>3, <2>3, <4>1 DEF FreeCount, Free
    <3>5. Paid(n)'
      BY <1>2, <1>3, <2>1, <2>3, <3>2, <3>3, <3>4, Numbers DEF Paid, OutboxInv
    <3>6. Sure(n)'
      <4>1. n \notin unsure => Holders(n) = {}
        BY <1>3, <2>3 DEF OutboxInv, Sure
      <4>2. n \notin unsure => sent[n] = 0
        BY <1>3, <2>3, <4>1, Numbers DEF OutboxInv, Sure
      <4> QED BY <1>2, <1>3, <2>3, <3>1, <4>1, <4>2 DEF Sure
    <3> QED BY <1>3, <2>3, <3>5, <3>6 DEF Fresh
  <2> QED BY <2>2, <2>3
<1> QED BY <1>5, <1>6, <1>7 DEF OutboxInv

LEMMA ClaimUnreadStep ==
    ASSUME OutboxInv, NEW g \in Gateways, ClaimUnread(g)
    PROVE  OutboxInv'
<1>1. PICK S \in Batches(Due) \cup {{}} :
        row' = [n \in Notes |-> IF n \in S THEN Taken(row[n]) ELSE row[n]]
  BY DEF ClaimUnread
<1>2. UNCHANGED <<disabled, held, cur, sent, unsure>> /\ phase[g] = "claim" /\ S \in SUBSET Due /\ S \subseteq Notes
  BY <1>1 DEF ClaimUnread, Batches, Due
<1>3. /\ row' \in [Notes -> [status : Statuses, attempts : Nat, wait : Waits]]
      /\ \A n \in Notes \ S : row'[n] = row[n]
      /\ \A n \in S : /\ row[n].status = "pending" /\ row[n].wait = "due"
                      /\ row'[n].status = "pending" /\ row'[n].wait = "claim"
                      /\ row'[n].attempts = row[n].attempts + 1
  BY <1>1, <1>2, TakenRows DEF OutboxInv
<1>4. faults' = faults + 1 /\ faults' \in 0 .. MaxFaults
  BY FaultCounts DEF ClaimUnread
<1>5. OutboxTypeOK'
  <2>1. phase' \in [Gateways -> Phases]
    BY DEF ClaimUnread, OutboxInv, OutboxTypeOK, Phases
  <2>2. \A h \in Gateways : cur'[h] \in Notes <=> phase'[h] \in {"sent", "refused", "giveup", "retry"}
    BY DEF ClaimUnread, OutboxInv, OutboxTypeOK
  <2> QED BY <1>2, <1>3, <1>4, <2>1, <2>2 DEF OutboxInv, OutboxTypeOK
<1>6. ASSUME NEW h \in Gateways PROVE Orderly(h)'
  BY DEF ClaimUnread, OutboxInv, OutboxTypeOK, Orderly
<1>7. ASSUME NEW n \in Notes PROVE Fresh(n)' /\ Paid(n)' /\ Sure(n)'
  <2>1. /\ Holders(n)' = Holders(n)
        /\ Retrying(n)' = Retrying(n)
        /\ Undelivered(n)' = Undelivered(n)
    BY EmptyHanded DEF ClaimUnread
  <2>2. CASE n \notin S
    BY <1>2, <1>3, <1>4, <1>5, <2>1, <2>2, Undisturbed DEF OutboxInv
  <2>3. CASE n \in S
    <3>1. FreeCount(n) = 1
      BY <1>3, <2>3 DEF FreeCount, Free
    <3>2. Paid(n)'
      BY <1>2, <1>3, <1>4, <2>1, <2>3, <3>1, Numbers DEF Paid, FreeCount, OutboxInv
    <3>3. Sure(n)'
      BY <1>2, <1>3, <2>1, <2>3 DEF Sure, OutboxInv
    <3> QED BY <1>3, <2>3, <3>2, <3>3 DEF Fresh
  <2> QED BY <2>2, <2>3
<1> QED BY <1>5, <1>6, <1>7 DEF OutboxInv

\* g lets go of what it holds, by a failure, and the rows stay as they are.
LEMMA LetGo ==
    ASSUME OutboxInv, NEW g \in Gateways, UNCHANGED <<row, disabled, sent>>,
           faults' = faults + 1, faults' \in 0 .. MaxFaults,
           held' = [held EXCEPT ![g] = {}], cur' = [cur EXCEPT ![g] = NoNote],
           phase' = [phase EXCEPT ![g] = "idle"],
           unsure \subseteq unsure', unsure' \subseteq Notes,
           cur[g] \in Notes => cur[g] \in unsure'
    PROVE  OutboxInv'
<1>1. /\ held'[g] = {} /\ cur'[g] = NoNote /\ phase'[g] = "idle"
      /\ \A h \in Gateways \ {g} : held'[h] = held[h] /\ cur'[h] = cur[h] /\ phase'[h] = phase[h]
  BY DEF OutboxInv, OutboxTypeOK
<1>2. OutboxTypeOK'
  <2>1. /\ phase' \in [Gateways -> Phases]
        /\ held' \in [Gateways -> SUBSET Notes]
        /\ cur' \in [Gateways -> Notes \cup {NoNote}]
    BY DEF OutboxInv, OutboxTypeOK, Phases
  <2>2. \A h \in Gateways : cur'[h] \in Notes <=> phase'[h] \in {"sent", "refused", "giveup", "retry"}
    BY <1>1, OutboxAssumption DEF OutboxInv, OutboxTypeOK
  <2> QED BY <2>1, <2>2 DEF OutboxInv, OutboxTypeOK
<1>3. ASSUME NEW h \in Gateways PROVE Orderly(h)'
  BY <1>1 DEF OutboxInv, Orderly
<1>4. ASSUME NEW n \in Notes PROVE Fresh(n)' /\ Paid(n)' /\ Sure(n)'
  <2>1. /\ Holders(n)' = Holders(n) \ {g}
        /\ Retrying(n)' \subseteq Retrying(n)
        /\ Undelivered(n)' \subseteq Undelivered(n)
    BY <1>1, OutboxAssumption DEF Holders, Retrying, Undelivered
  <2>2. /\ Cardinality(Holders(n)') \in Nat /\ Cardinality(Holders(n)') <= Cardinality(Holders(n))
        /\ Cardinality(Retrying(n)') \in Nat /\ Cardinality(Retrying(n)') <= Cardinality(Retrying(n))
        /\ Cardinality(Undelivered(n)') \in Nat /\ Cardinality(Undelivered(n)') <= Cardinality(Undelivered(n))
    BY <2>1, Sets, Keeps
  <2>3. Fresh(n)'
    BY <2>1 DEF OutboxInv, Fresh
  <2>4. Paid(n)'
    BY <2>2, Numbers DEF Paid, FreeCount, OutboxInv
  <2>5. Sure(n)'
    <3>1. CASE n \in unsure'
      BY <3>1 DEF OutboxInv, Sure
    <3>2. CASE n \notin unsure' /\ g \in Holders(n)
      <4>1. n \in held[g] /\ g \in Undelivered(n)
        BY <3>2 DEF Holders, Undelivered
      <4>2. Holders(n)' = {} /\ ~(sent[n] > 0)
        BY <2>1, <3>2, <4>1 DEF OutboxInv, Sure
      <4> QED BY <3>2, <4>2 DEF OutboxInv, Sure
    <3>3. CASE n \notin unsure' /\ g \notin Holders(n)
      BY <2>1, <3>3 DEF OutboxInv, Sure
    <3> QED BY <3>1, <3>2, <3>3
  <2> QED BY <2>3, <2>4, <2>5
<1> QED BY <1>2, <1>3, <1>4 DEF OutboxInv

LEMMA SettingsUnreadStep ==
    ASSUME OutboxInv, NEW g \in Gateways, SettingsUnread(g)
    PROVE  OutboxInv'
<1>1. cur[g] = NoNote /\ unsure \subseteq Notes
  BY DEF OutboxInv, OutboxTypeOK, SettingsUnread
<1>2. cur' = [cur EXCEPT ![g] = NoNote]
  BY <1>1 DEF OutboxInv, OutboxTypeOK, SettingsUnread
<1>3. faults' = faults + 1 /\ faults' \in 0 .. MaxFaults
  BY FaultCounts DEF SettingsUnread
<1> QED BY <1>1, <1>2, <1>3, OutboxAssumption, LetGo DEF SettingsUnread

LEMMA CrashDispatcherStep ==
    ASSUME OutboxInv, NEW g \in Gateways, CrashDispatcher(g)
    PROVE  OutboxInv'
<1>1. unsure' \subseteq Notes /\ unsure \subseteq unsure' /\ (cur[g] \in Notes => cur[g] \in unsure')
  BY OutboxAssumption DEF OutboxInv, OutboxTypeOK, CrashDispatcher
<1>2. faults' = faults + 1 /\ faults' \in 0 .. MaxFaults
  BY FaultCounts DEF CrashDispatcher
<1> QED BY <1>1, <1>2, LetGo DEF CrashDispatcher

--------------------------------------------------------------------------------
(* Delivering a message. *)

\* What taking message m up does, whatever comes of it.
LEMMA TakeUpMoves ==
    ASSUME OutboxInv, NEW g \in Gateways, NEW m \in held[g], NEW outcome \in {"sent", "refused"},
           TakeUp(g, m, outcome)
    PROVE  /\ m \in Notes
           /\ g \in Undelivered(m)
           /\ held' \in [Gateways -> SUBSET Notes]
           /\ cur' \in [Gateways -> Notes \cup {NoNote}]
           /\ phase' \in [Gateways -> Phases]
           /\ \A h \in Gateways : cur'[h] \in Notes <=> phase'[h] \in {"sent", "refused", "giveup", "retry"}
           /\ cur'[g] = m /\ phase'[g] = outcome /\ held'[g] = held[g] \ {m}
           /\ \A h \in Gateways \ {g} : held'[h] = held[h] /\ cur'[h] = cur[h] /\ phase'[h] = phase[h]
           /\ \A n \in Notes : Holders(n)' = Holders(n) /\ Retrying(n)' = Retrying(n)
           /\ \A n \in Notes \ {m} : Undelivered(n)' = Undelivered(n)
           /\ Undelivered(m)' = IF outcome = "sent" THEN Undelivered(m) \ {g} ELSE Undelivered(m)
<1>1. m \in Notes /\ phase[g] = "batch" /\ cur[g] = NoNote
  BY DEF OutboxInv, OutboxTypeOK, TakeUp
<1>2. /\ cur'[g] = m /\ phase'[g] = outcome /\ held'[g] = held[g] \ {m}
      /\ \A h \in Gateways \ {g} : held'[h] = held[h] /\ cur'[h] = cur[h] /\ phase'[h] = phase[h]
  BY DEF OutboxInv, OutboxTypeOK, TakeUp
<1>3. /\ held' \in [Gateways -> SUBSET Notes]
      /\ cur' \in [Gateways -> Notes \cup {NoNote}]
      /\ phase' \in [Gateways -> Phases]
  BY <1>1 DEF OutboxInv, OutboxTypeOK, TakeUp, Phases
<1>4. \A h \in Gateways : cur'[h] \in Notes <=> phase'[h] \in {"sent", "refused", "giveup", "retry"}
  BY <1>1, <1>2 DEF OutboxInv, OutboxTypeOK
<1>5. \A n \in Notes : Holders(n)' = Holders(n) /\ Retrying(n)' = Retrying(n)
  BY <1>1, <1>2, OutboxAssumption DEF Holders, Retrying
<1>6. \A n \in Notes \ {m} : Undelivered(n)' = Undelivered(n)
  BY <1>1, <1>2, OutboxAssumption DEF Undelivered
<1>7. Undelivered(m)' = IF outcome = "sent" THEN Undelivered(m) \ {g} ELSE Undelivered(m)
  BY <1>1, <1>2, OutboxAssumption DEF Undelivered
<1>8. g \in Undelivered(m)
  BY DEF Undelivered
<1> QED BY <1>1, <1>2, <1>3, <1>4, <1>5, <1>6, <1>7, <1>8

LEMMA DeliverStep ==
    ASSUME OutboxInv, NEW g \in Gateways, NEW m \in held[g], Deliver(g, m)
    PROVE  OutboxInv'
<1>1. UNCHANGED <<row, disabled, faults, unsure>> /\ sent' = [sent EXCEPT ![m] = @ + 1] /\ TakeUp(g, m, "sent")
  BY DEF Deliver, TakeUp
<1>2. /\ m \in Notes
      /\ g \in Undelivered(m)
      /\ held' \in [Gateways -> SUBSET Notes]
      /\ cur' \in [Gateways -> Notes \cup {NoNote}]
      /\ phase' \in [Gateways -> Phases]
      /\ \A h \in Gateways : cur'[h] \in Notes <=> phase'[h] \in {"sent", "refused", "giveup", "retry"}
      /\ cur'[g] = m /\ phase'[g] = "sent" /\ held'[g] = held[g] \ {m}
      /\ \A h \in Gateways \ {g} : held'[h] = held[h] /\ cur'[h] = cur[h] /\ phase'[h] = phase[h]
      /\ \A n \in Notes : Holders(n)' = Holders(n) /\ Retrying(n)' = Retrying(n)
      /\ \A n \in Notes \ {m} : Undelivered(n)' = Undelivered(n)
      /\ Undelivered(m)' = Undelivered(m) \ {g}
  BY <1>1, TakeUpMoves
<1>3. sent \in [Notes -> Nat] /\ sent' \in [Notes -> Nat] /\ sent'[m] = sent[m] + 1 /\ \A n \in Notes \ {m} : sent'[n] = sent[n]
  BY <1>1, <1>2 DEF OutboxInv, OutboxTypeOK
<1>4. OutboxTypeOK'
  BY <1>1, <1>2, <1>3 DEF OutboxInv, OutboxTypeOK
<1>5. ASSUME NEW h \in Gateways PROVE Orderly(h)'
  <2>1. CASE h = g
    BY <1>2, <1>3, <2>1 DEF Orderly
  <2>2. CASE h # g
    <3>1. phase[h] = "sent" => cur[h] \in Notes
      BY DEF OutboxInv, OutboxTypeOK
    <3> QED BY <1>2, <1>3, <2>2, <3>1 DEF OutboxInv, Orderly
  <2> QED BY <2>1, <2>2
<1>6. ASSUME NEW n \in Notes PROVE Fresh(n)' /\ Paid(n)' /\ Sure(n)'
  <2>1. CASE n # m
    BY <1>1, <1>2, <1>3, <1>4, <2>1, Undisturbed DEF OutboxInv
  <2>2. CASE n = m
    <3>1. Cardinality(Undelivered(n)') \in Nat /\ Cardinality(Undelivered(n)') + 1 <= Cardinality(Undelivered(n))
      BY <1>2, <2>2, Sets, Shrinks
    <3>2. FreeCount(n)' = FreeCount(n)
      <4>1. InFlight(n) <=> InFlight(n)'
        BY <1>2 DEF Holders, InFlight
      <4> QED BY <1>1, <4>1 DEF FreeCount, Free
    <3>3. g \in Holders(n)
      BY <1>2, <2>2, Sets
    <3>4. Fresh(n)'
      BY <1>1, <3>3 DEF OutboxInv, Fresh
    <3>5. Paid(n)'
      BY <1>1, <1>2, <1>3, <2>2, <3>1, <3>2, Numbers DEF Paid, OutboxInv
    <3>6. n \notin unsure => Undelivered(n)' = {}
      BY <1>2, <2>2, <3>3, Sets DEF OutboxInv, Sure
    <3>7. Sure(n)'
      BY <1>1, <1>2, <1>3, <2>2, <3>3, <3>6 DEF Sure, OutboxInv
    <3> QED BY <3>4, <3>5, <3>7
  <2> QED BY <2>1, <2>2
<1> QED BY <1>4, <1>5, <1>6 DEF OutboxInv

LEMMA RefusedStep ==
    ASSUME OutboxInv, NEW g \in Gateways, NEW m \in held[g], Refused(g, m)
    PROVE  OutboxInv'
<1>1. UNCHANGED <<row, disabled, faults, sent, unsure>> /\ TakeUp(g, m, "refused")
  BY DEF Refused, TakeUp
<1>2. /\ held' \in [Gateways -> SUBSET Notes]
      /\ cur' \in [Gateways -> Notes \cup {NoNote}]
      /\ phase' \in [Gateways -> Phases]
      /\ \A h \in Gateways : cur'[h] \in Notes <=> phase'[h] \in {"sent", "refused", "giveup", "retry"}
      /\ cur'[g] = m /\ phase'[g] = "refused" /\ held'[g] = held[g] \ {m}
      /\ \A h \in Gateways \ {g} : held'[h] = held[h] /\ cur'[h] = cur[h] /\ phase'[h] = phase[h]
      /\ \A n \in Notes : Holders(n)' = Holders(n) /\ Retrying(n)' = Retrying(n)
      /\ \A n \in Notes : Undelivered(n)' = Undelivered(n)
  BY <1>1, TakeUpMoves
<1>3. OutboxTypeOK'
  BY <1>1, <1>2 DEF OutboxInv, OutboxTypeOK
<1>4. ASSUME NEW h \in Gateways PROVE Orderly(h)'
  BY <1>1, <1>2 DEF OutboxInv, Orderly
<1>5. ASSUME NEW n \in Notes PROVE Fresh(n)' /\ Paid(n)' /\ Sure(n)'
  BY <1>1, <1>2, <1>3, Undisturbed DEF OutboxInv
<1> QED BY <1>3, <1>4, <1>5 DEF OutboxInv

LEMMA AnswerLostStep ==
    ASSUME OutboxInv, NEW g \in Gateways, NEW m \in held[g], AnswerLost(g, m)
    PROVE  OutboxInv'
<1>1. /\ UNCHANGED <<row, disabled>> /\ sent' = [sent EXCEPT ![m] = @ + 1]
      /\ unsure' = unsure \cup {m} /\ TakeUp(g, m, "refused")
  BY DEF AnswerLost, TakeUp
<1>2. /\ m \in Notes
      /\ g \in Undelivered(m)
      /\ held' \in [Gateways -> SUBSET Notes]
      /\ cur' \in [Gateways -> Notes \cup {NoNote}]
      /\ phase' \in [Gateways -> Phases]
      /\ \A h \in Gateways : cur'[h] \in Notes <=> phase'[h] \in {"sent", "refused", "giveup", "retry"}
      /\ cur'[g] = m /\ phase'[g] = "refused" /\ held'[g] = held[g] \ {m}
      /\ \A h \in Gateways \ {g} : held'[h] = held[h] /\ cur'[h] = cur[h] /\ phase'[h] = phase[h]
      /\ \A n \in Notes : Holders(n)' = Holders(n) /\ Retrying(n)' = Retrying(n)
      /\ \A n \in Notes : Undelivered(n)' = Undelivered(n)
  BY <1>1, TakeUpMoves
<1>3. sent \in [Notes -> Nat] /\ sent' \in [Notes -> Nat] /\ sent'[m] = sent[m] + 1 /\ \A n \in Notes \ {m} : sent'[n] = sent[n]
  BY <1>1, <1>2 DEF OutboxInv, OutboxTypeOK
<1>4. faults' = faults + 1 /\ faults' \in 0 .. MaxFaults
  BY FaultCounts DEF AnswerLost
<1>5. OutboxTypeOK'
  BY <1>1, <1>2, <1>3, <1>4 DEF OutboxInv, OutboxTypeOK
<1>6. ASSUME NEW h \in Gateways PROVE Orderly(h)'
  <2>1. CASE h = g
    BY <1>2, <2>1 DEF Orderly
  <2>2. CASE h # g
    <3>1. phase[h] = "sent" => cur[h] \in Notes
      BY DEF OutboxInv, OutboxTypeOK
    <3> QED BY <1>2, <1>3, <2>2, <3>1 DEF OutboxInv, Orderly
  <2> QED BY <2>1, <2>2
<1>7. ASSUME NEW n \in Notes PROVE Fresh(n)' /\ Paid(n)' /\ Sure(n)'
  <2>1. CASE n # m
    BY <1>1, <1>2, <1>3, <1>4, <1>5, <2>1, Undisturbed DEF OutboxInv
  <2>2. CASE n = m
    <3>1. FreeCount(n)' = FreeCount(n)
      <4>1. InFlight(n) <=> InFlight(n)'
        BY <1>2 DEF Holders, InFlight
      <4> QED BY <1>1, <4>1 DEF FreeCount, Free
    <3>2. Fresh(n)'
      BY <1>1, <1>2, <2>2, Sets DEF OutboxInv, Fresh
    <3>3. Paid(n)'
      BY <1>1, <1>2, <1>3, <1>4, <2>2, <3>1, Numbers DEF Paid, OutboxInv
    <3>4. Sure(n)'
      BY <1>1, <1>3, <2>2 DEF Sure, OutboxInv
    <3> QED BY <3>2, <3>3, <3>4
  <2> QED BY <2>1, <2>2
<1> QED BY <1>5, <1>6, <1>7 DEF OutboxInv

--------------------------------------------------------------------------------
(* Recording how it went. *)

Recording == {"sent", "refused", "giveup", "retry"}

\* What putting the message in hand down does.
LEMMA PutDownMoves ==
    ASSUME OutboxInv, NEW g \in Gateways, phase[g] \in Recording, PutDown(g), UNCHANGED held
    PROVE  /\ cur[g] \in Notes
           /\ cur' \in [Gateways -> Notes \cup {NoNote}]
           /\ phase' \in [Gateways -> Phases]
           /\ \A h \in Gateways : cur'[h] \in Notes <=> phase'[h] \in Recording
           /\ \A h \in Gateways : cur'[h] \notin held[h]
           /\ \A h \in Gateways : phase'[h] \in {"idle", "claim"} => held[h] = {}
           /\ \A h \in Gateways : phase'[h] = "sent" => phase[h] = "sent" /\ cur'[h] = cur[h]
           /\ g \in Holders(cur[g])
           /\ \A n \in Notes : n # cur[g] => /\ Holders(n)' = Holders(n)
                                           /\ Retrying(n)' = Retrying(n)
                                           /\ Undelivered(n)' = Undelivered(n)
           /\ \A n \in Notes : n = cur[g] => /\ Holders(n)' = Holders(n) \ {g}
                                           /\ Retrying(n)' = Retrying(n) \ {g}
                                           /\ Undelivered(n)' = Undelivered(n) \ {g}
<1>1. cur[g] \in Notes /\ cur[g] \notin held[g]
  BY DEF OutboxInv, OutboxTypeOK, Orderly, Recording
<1>2. /\ cur'[g] = NoNote
      /\ phase'[g] = AfterBatch(held[g])
      /\ phase'[g] \in {"idle", "batch"}
      /\ \A h \in Gateways \ {g} : cur'[h] = cur[h] /\ phase'[h] = phase[h]
  BY DEF OutboxInv, OutboxTypeOK, PutDown, AfterBatch
<1>3. cur' \in [Gateways -> Notes \cup {NoNote}] /\ phase' \in [Gateways -> Phases]
  BY DEF OutboxInv, OutboxTypeOK, PutDown, AfterBatch, Phases
<1>4. \A h \in Gateways : cur'[h] \in Notes <=> phase'[h] \in Recording
  BY <1>2, OutboxAssumption DEF OutboxInv, OutboxTypeOK, Recording
<1>5. /\ \A h \in Gateways : cur'[h] \notin held[h]
      /\ \A h \in Gateways : phase'[h] \in {"idle", "claim"} => held[h] = {}
      /\ \A h \in Gateways : phase'[h] = "sent" => phase[h] = "sent" /\ cur'[h] = cur[h]
  <2>1. NoNote \notin held[g]
    BY OutboxAssumption DEF OutboxInv, OutboxTypeOK
  <2> QED BY <1>2, <2>1 DEF OutboxInv, Orderly, AfterBatch
<1>6. g \in Holders(cur[g])
  BY DEF Holders
<1>7. ASSUME NEW n \in Notes, n # cur[g]
      PROVE  /\ Holders(n)' = Holders(n)
             /\ Retrying(n)' = Retrying(n)
             /\ Undelivered(n)' = Undelivered(n)
  BY <1>2, <1>7, OutboxAssumption DEF Holders, Retrying, Undelivered
<1>8. ASSUME NEW n \in Notes, n = cur[g]
      PROVE  /\ Holders(n)' = Holders(n) \ {g}
             /\ Retrying(n)' = Retrying(n) \ {g}
             /\ Undelivered(n)' = Undelivered(n) \ {g}
  BY <1>1, <1>2, <1>8, OutboxAssumption DEF Holders, Retrying, Undelivered
<1> QED BY <1>1, <1>3, <1>4, <1>5, <1>6, <1>7, <1>8

\* The counts of the note that was put down.
LEMMA PutDownCounts ==
    ASSUME NEW n \in Notes, NEW g \in Gateways,
           Holders(n)' = Holders(n) \ {g},
           Retrying(n)' = Retrying(n) \ {g},
           Undelivered(n)' = Undelivered(n) \ {g}
    PROVE  /\ Cardinality(Holders(n)') \in Nat
           /\ Cardinality(Retrying(n)') \in Nat
           /\ Cardinality(Undelivered(n)') \in Nat
           /\ Cardinality(Holders(n)') <= Cardinality(Holders(n))
           /\ Cardinality(Retrying(n)') <= Cardinality(Retrying(n))
           /\ Cardinality(Undelivered(n)') <= Cardinality(Undelivered(n))
           /\ g \in Holders(n) => Cardinality(Holders(n)') + 1 <= Cardinality(Holders(n))
           /\ g \in Retrying(n) => Cardinality(Retrying(n)') + 1 <= Cardinality(Retrying(n))
           /\ g \in Undelivered(n) => Cardinality(Undelivered(n)') + 1 <= Cardinality(Undelivered(n))
<1>1. /\ Holders(n) \in SUBSET Gateways
      /\ Retrying(n) \in SUBSET Gateways
      /\ Undelivered(n) \in SUBSET Gateways
  BY Sets
<1>2. \A S \in SUBSET Gateways :
        /\ Cardinality(S \ {g}) \in Nat
        /\ Cardinality(S \ {g}) <= Cardinality(S)
        /\ g \in S => Cardinality(S \ {g}) + 1 <= Cardinality(S)
  BY Keeps, Shrinks
<1> QED BY <1>1, <1>2

\* The outcome settles the row: as delivered after a delivery, or as failed.
LEMMA SettleStep ==
    ASSUME OutboxInv, NEW g \in Gateways, PutDown(g), UNCHANGED <<disabled, held, faults, sent, unsure>>,
           NEW s \in {"delivered", "failed"}, row' = [row EXCEPT ![cur[g]].status = s],
           \/ phase[g] = "sent" /\ s = "delivered"
           \/ phase[g] = "giveup" /\ s = "failed"
    PROVE  OutboxInv'
<1> DEFINE m == cur[g]
<1>1. phase[g] \in Recording
  BY DEF Recording
<1>2. m \in Notes /\ g \in Holders(m)
  BY <1>1, PutDownMoves
<1>3. row'[m].status = s /\ row'[m].attempts = row[m].attempts /\ \A n \in Notes : n # m => row'[n] = row[n]
  BY <1>2 DEF OutboxInv, OutboxTypeOK
<1>4. OutboxTypeOK'
  <2>1. row' \in [Notes -> [status : Statuses, attempts : Nat, wait : Waits]]
    BY <1>2 DEF OutboxInv, OutboxTypeOK, Statuses
  <2> QED BY <1>1, <2>1, PutDownMoves DEF OutboxInv, OutboxTypeOK, Recording
<1>5. ASSUME NEW h \in Gateways PROVE Orderly(h)'
  BY <1>1, PutDownMoves DEF OutboxInv, Orderly
<1>6. ASSUME NEW n \in Notes PROVE Fresh(n)' /\ Paid(n)' /\ Sure(n)'
  <2>1. CASE n # m
    <3>1. Holders(n)' = Holders(n) /\ Retrying(n)' = Retrying(n) /\ Undelivered(n)' = Undelivered(n)
      BY <1>1, <2>1, PutDownMoves
    <3> QED BY <1>3, <1>4, <2>1, <3>1, Undisturbed DEF OutboxInv
  <2>2. CASE n = m
    <3>1. Holders(n)' = Holders(n) \ {g} /\ Retrying(n)' = Retrying(n) \ {g} /\ Undelivered(n)' = Undelivered(n) \ {g}
      BY <1>1, <2>2, PutDownMoves
    <3>2. FreeCount(n)' = 0
      BY <1>3, <2>2 DEF FreeCount, Free
    <3>counts. /\ Cardinality(Holders(n)') \in Nat /\ Cardinality(Holders(n)') <= Cardinality(Holders(n))
          /\ Cardinality(Retrying(n)') \in Nat /\ Cardinality(Retrying(n)') <= Cardinality(Retrying(n))
          /\ Cardinality(Undelivered(n)') \in Nat /\ Cardinality(Undelivered(n)') <= Cardinality(Undelivered(n))
      BY <3>1, PutDownCounts
    <3>3. Paid(n)'
      BY <1>3, <2>2, <3>2, <3>counts, Numbers DEF Paid, OutboxInv
    <3>4. s = "delivered" => sent[n] > 0
      BY <2>2 DEF OutboxInv, Orderly
    <3>5. s = "failed" /\ n \notin unsure => ~(sent[n] > 0)
      <4>1. s = "failed" => g \in Undelivered(n)
        BY <2>2 DEF Undelivered
      <4> QED BY <4>1 DEF OutboxInv, Sure
    <3>6. Sure(n)'
      BY <1>3, <2>2, <3>1, <3>4, <3>5 DEF Sure, OutboxInv
    <3> QED BY <1>3, <2>2, <3>3, <3>6 DEF Fresh
  <2> QED BY <2>1, <2>2
<1> QED BY <1>4, <1>5, <1>6 DEF OutboxInv

LEMMA RecordDeliveredStep ==
    ASSUME OutboxInv, NEW g \in Gateways, RecordDelivered(g)
    PROVE  OutboxInv'
  BY SettleStep DEF RecordDelivered

LEMMA GiveUpStep ==
    ASSUME OutboxInv, NEW g \in Gateways, GiveUp(g)
    PROVE  OutboxInv'
  BY SettleStep DEF GiveUp

LEMMA ReadAttemptsStep ==
    ASSUME OutboxInv, NEW g \in Gateways, ReadAttempts(g)
    PROVE  OutboxInv'
<1> DEFINE m == cur[g]
<1>1. UNCHANGED <<row, disabled, held, cur, faults, sent, unsure>> /\ phase[g] = "refused"
  BY DEF ReadAttempts
<1>2. m \in Notes
  BY <1>1 DEF OutboxInv, OutboxTypeOK
<1>3. /\ phase'[g] = IF Exhausted(m) THEN "giveup" ELSE "retry"
      /\ \A h \in Gateways \ {g} : phase'[h] = phase[h]
  BY DEF ReadAttempts, OutboxInv, OutboxTypeOK
<1>4. OutboxTypeOK'
  <2>1. phase' \in [Gateways -> Phases]
    BY DEF ReadAttempts, OutboxInv, OutboxTypeOK, Phases
  <2>2. \A h \in Gateways : cur'[h] \in Notes <=> phase'[h] \in {"sent", "refused", "giveup", "retry"}
    BY <1>1, <1>2, <1>3 DEF OutboxInv, OutboxTypeOK
  <2> QED BY <1>1, <2>1, <2>2 DEF OutboxInv, OutboxTypeOK
<1>5. ASSUME NEW h \in Gateways PROVE Orderly(h)'
  BY <1>1, <1>3 DEF OutboxInv, Orderly
<1>6. ASSUME NEW n \in Notes PROVE Fresh(n)' /\ Paid(n)' /\ Sure(n)'
  <2>1. Holders(n)' = Holders(n) /\ Undelivered(n)' = Undelivered(n)
    BY <1>1, <1>3 DEF Holders, Undelivered
  <2>2. CASE n # m \/ Exhausted(m)
    <3>1. Retrying(n)' = Retrying(n)
      BY <1>1, <1>3, <2>2 DEF Retrying
    <3> QED BY <1>1, <1>4, <2>1, <3>1, Undisturbed DEF OutboxInv
  <2>3. CASE n = m /\ ~Exhausted(m)
    <3>1. row[n].attempts < MaxAttempts
      BY <2>3, Numbers DEF Exhausted, OutboxInv
    <3>2. Retrying(n)' \subseteq Retrying(n) \cup {g} /\ g \notin Retrying(n) /\ g \in Holders(n)
      BY <1>1, <1>3, <2>3 DEF Retrying, Holders
    <3>3. Cardinality(Retrying(n)) + 1 <= Cardinality(Holders(n))
      BY <3>2, Sets, Shrinks
    <3>4. Cardinality(Retrying(n)') \in Nat /\ Cardinality(Retrying(n)') <= Cardinality(Retrying(n)) + 1
      BY <3>2, Sets, Grows
    <3>5. FreeCount(n)' = FreeCount(n)
      BY <1>1 DEF FreeCount, Free, InFlight
    <3>6. Paid(n)'
      BY <1>1, <2>1, <3>1, <3>3, <3>4, <3>5, Numbers DEF Paid, OutboxInv
    <3>7. Sure(n)' /\ Fresh(n)'
      BY <1>1, <2>1 DEF Sure, Fresh, OutboxInv
    <3> QED BY <3>6, <3>7
  <2> QED BY <2>2, <2>3
<1> QED BY <1>4, <1>5, <1>6 DEF OutboxInv

LEMMA RetryStep ==
    ASSUME OutboxInv, NEW g \in Gateways, Retry(g)
    PROVE  OutboxInv'
<1> DEFINE m == cur[g]
<1>1. /\ UNCHANGED <<disabled, held, faults, sent, unsure>> /\ phase[g] = "retry"
      /\ PutDown(g) /\ phase[g] \in Recording
  BY DEF Retry, Recording
<1>2. m \in Notes /\ g \in Holders(m)
  BY <1>1, PutDownMoves
<1>3. /\ row'[m].status = row[m].status /\ row'[m].attempts = row[m].attempts
      /\ \A n \in Notes : n # m => row'[n] = row[n]
  BY <1>2 DEF OutboxInv, OutboxTypeOK, Retry
<1>4. OutboxTypeOK'
  <2>1. row' \in [Notes -> [status : Statuses, attempts : Nat, wait : Waits]]
    BY <1>2 DEF OutboxInv, OutboxTypeOK, Waits, Retry
  <2> QED BY <1>1, <2>1, PutDownMoves DEF OutboxInv, OutboxTypeOK, Recording
<1>5. ASSUME NEW h \in Gateways PROVE Orderly(h)'
  BY <1>1, PutDownMoves DEF OutboxInv, Orderly
<1>6. ASSUME NEW n \in Notes PROVE Fresh(n)' /\ Paid(n)' /\ Sure(n)'
  <2>1. CASE n # m
    <3>1. Holders(n)' = Holders(n) /\ Retrying(n)' = Retrying(n) /\ Undelivered(n)' = Undelivered(n)
      BY <1>1, <2>1, PutDownMoves
    <3> QED BY <1>1, <1>3, <1>4, <2>1, <3>1, Undisturbed DEF OutboxInv
  <2>2. CASE n = m
    <3>1. Holders(n)' = Holders(n) \ {g} /\ Retrying(n)' = Retrying(n) \ {g} /\ Undelivered(n)' = Undelivered(n) \ {g}
      BY <1>1, <2>2, PutDownMoves
    <3>2. g \in Retrying(n) /\ g \in Holders(n) /\ g \in Undelivered(n)
      BY <1>1, <2>2 DEF Retrying, Holders, Undelivered
    <3>counts. /\ Cardinality(Holders(n)') \in Nat /\ Cardinality(Holders(n)') + 1 <= Cardinality(Holders(n))
          /\ Cardinality(Retrying(n)') \in Nat /\ Cardinality(Retrying(n)') + 1 <= Cardinality(Retrying(n))
          /\ Cardinality(Undelivered(n)') \in Nat /\ Cardinality(Undelivered(n)') + 1 <= Cardinality(Undelivered(n))
      BY <3>1, <3>2, PutDownCounts
    <3>free. FreeCount(n)' \in {0, 1}
      BY DEF FreeCount
    <3>3. Paid(n)'
      BY <1>1, <1>3, <2>2, <3>free, <3>counts, Numbers DEF Paid, OutboxInv
    <3>4. n \notin unsure => Holders(n)' = {} /\ ~(sent[n] > 0)
      BY <3>1, <3>2 DEF OutboxInv, Sure
    <3>5. Sure(n)'
      BY <1>1, <1>3, <2>2, <3>4 DEF Sure, OutboxInv
    <3> QED BY <1>1, <1>2, <1>3, <2>2, <3>3, <3>5 DEF Fresh, OutboxInv
  <2> QED BY <2>1, <2>2
<1> QED BY <1>4, <1>5, <1>6 DEF OutboxInv

LEMMA UnrecordedStep ==
    ASSUME OutboxInv, NEW g \in Gateways, Unrecorded(g)
    PROVE  OutboxInv'
<1> DEFINE m == cur[g]
<1>1. /\ UNCHANGED <<row, disabled, held, sent>> /\ unsure' = unsure \cup {m}
      /\ PutDown(g) /\ phase[g] \in Recording
  BY DEF Unrecorded, Recording
<1>2. m \in Notes
  BY <1>1, PutDownMoves
<1>3. faults' = faults + 1 /\ faults' \in 0 .. MaxFaults
  BY FaultCounts DEF Unrecorded
<1>4. OutboxTypeOK'
  BY <1>1, <1>2, <1>3, PutDownMoves DEF OutboxInv, OutboxTypeOK, Recording
<1>5. ASSUME NEW h \in Gateways PROVE Orderly(h)'
  BY <1>1, PutDownMoves DEF OutboxInv, Orderly
<1>6. ASSUME NEW n \in Notes PROVE Fresh(n)' /\ Paid(n)' /\ Sure(n)'
  <2>1. CASE n # m
    <3>1. Holders(n)' = Holders(n) /\ Retrying(n)' = Retrying(n) /\ Undelivered(n)' = Undelivered(n)
      BY <1>1, <2>1, PutDownMoves
    <3> QED BY <1>1, <1>3, <1>4, <2>1, <3>1, Undisturbed DEF OutboxInv
  <2>2. CASE n = m
    <3>1. Holders(n)' = Holders(n) \ {g} /\ Retrying(n)' = Retrying(n) \ {g} /\ Undelivered(n)' = Undelivered(n) \ {g}
      BY <1>1, <2>2, PutDownMoves
    <3>counts. /\ Cardinality(Holders(n)') \in Nat /\ Cardinality(Holders(n)') <= Cardinality(Holders(n))
          /\ Cardinality(Retrying(n)') \in Nat /\ Cardinality(Retrying(n)') <= Cardinality(Retrying(n))
          /\ Cardinality(Undelivered(n)') \in Nat /\ Cardinality(Undelivered(n)') <= Cardinality(Undelivered(n))
      BY <3>1, PutDownCounts
    <3>free. FreeCount(n)' \in {0, 1}
      BY DEF FreeCount
    <3>2. Paid(n)'
      BY <1>1, <1>3, <3>free, <3>counts, Numbers DEF Paid, OutboxInv
    <3>3. Sure(n)'
      BY <1>1, <2>2 DEF Sure, OutboxInv
    <3>4. Fresh(n)'
      BY <1>1, <3>1 DEF Fresh, OutboxInv
    <3> QED BY <3>2, <3>3, <3>4
  <2> QED BY <2>1, <2>2
<1> QED BY <1>4, <1>5, <1>6 DEF OutboxInv

--------------------------------------------------------------------------------
(* Together. *)

LEMMA DispatchKeeps ==
    ASSUME OutboxInv, NEW g \in Gateways, DispatchStep(g) \/ DispatchFault(g)
    PROVE  OutboxInv'
  BY DropDisabledStep, ClaimStep, DeliverStep, RefusedStep, RecordDeliveredStep, ReadAttemptsStep,
     GiveUpStep, RetryStep, ClaimUnreadStep, SettingsUnreadStep, AnswerLostStep, UnrecordedStep
  DEF DispatchStep, DispatchFault

LEMMA OutsideKeeps ==
    ASSUME OutboxInv, Outside
    PROVE  OutboxInv'
  BY MarkReadStep, LapseStep, LapseInFlightStep, SetEnabledStep DEF Outside

LEMMA UnchangedKeeps ==
    ASSUME OutboxInv, UNCHANGED outboxVars
    PROVE  OutboxInv'
<1>1. disabled' \subseteq Users /\ faults' = faults /\ faults <= MaxFaults
  BY OutboxAssumption DEF OutboxInv, OutboxTypeOK, outboxVars
<1> QED BY <1>1, IdleStep DEF outboxVars

LEMMA OutboxPromises ==
    ASSUME OutboxInv
    PROVE  BoundedAttempts /\ NoDuplicateStorm /\ OutcomeIsTrue
<1>1. ASSUME NEW n \in Notes
      PROVE  row[n].attempts <= MaxAttempts + faults /\ sent[n] <= 1 + faults
  BY Numbers DEF OutboxInv, Paid
<1>2. ASSUME NEW n \in Notes, ~InFlight(n)
      PROVE  /\ row[n].status = "delivered" => sent[n] > 0
             /\ row[n].status = "failed" => sent[n] = 0 \/ n \in unsure
  BY <1>2, Sets, Numbers DEF OutboxInv, Sure
<1> QED BY <1>1, <1>2 DEF BoundedAttempts, NoDuplicateStorm, OutcomeIsTrue

\* What SettledMovesInFlight says of one note.
MovesInFlight(n) ==
    row[n].status \notin {"none", "pending"} /\ row'[n].status # row[n].status =>
        \/ row'[n].status = "read"
        \/ row'[n].status # "pending" /\ InFlight(n)

LEMMA DispatchMoves ==
    ASSUME OutboxInv, NEW g \in Gateways, DispatchStep(g) \/ DispatchFault(g), NEW n \in Notes
    PROVE  MovesInFlight(n)
<1>1. row[n] \in [status : Statuses, attempts : Nat, wait : Waits]
  BY DEF OutboxInv, OutboxTypeOK
<1>2. CASE DropDisabled(g)
  BY <1>1, <1>2 DEF DropDisabled, Orphaned, MovesInFlight
<1>3. CASE Claim(g) \/ ClaimUnread(g)
  <2>1. Taken(row[n]).status = row[n].status
    BY DEF Taken
  <2>2. row'[n] = row[n] \/ row'[n] = Taken(row[n])
    BY <1>3 DEF Claim, ClaimUnread
  <2> QED BY <2>1, <2>2 DEF MovesInFlight
<1>4. CASE RecordDelivered(g) \/ GiveUp(g)
  <2>1. n # cur[g] => row'[n] = row[n]
    BY <1>4 DEF RecordDelivered, GiveUp, OutboxInv, OutboxTypeOK
  <2>2. n = cur[g] => row'[n].status \in {"delivered", "failed"} /\ InFlight(n)
    BY <1>4 DEF RecordDelivered, GiveUp, OutboxInv, OutboxTypeOK, InFlight
  <2> QED BY <2>1, <2>2 DEF MovesInFlight
<1>5. CASE Retry(g)
  <2>1. row'[n].status = row[n].status
    BY <1>5 DEF Retry, OutboxInv, OutboxTypeOK
  <2> QED BY <2>1 DEF MovesInFlight
<1>6. CASE row' = row
  BY <1>6 DEF MovesInFlight
<1> QED
  BY <1>2, <1>3, <1>4, <1>5, <1>6
  DEF DispatchStep, DispatchFault, Deliver, Refused, TakeUp, ReadAttempts, SettingsUnread, AnswerLost, Unrecorded

LEMMA OutsideMoves ==
    ASSUME OutboxInv, Outside \/ (\E u \in Users : Send(u)), NEW n \in Notes
    PROVE  MovesInFlight(n)
<1>1. row[n] \in [status : Statuses, attempts : Nat, wait : Waits]
  BY DEF OutboxInv, OutboxTypeOK
<1>2. ASSUME NEW m \in Notes, MarkRead(m) PROVE MovesInFlight(n)
  BY <1>2 DEF MarkRead, OutboxInv, OutboxTypeOK, MovesInFlight
<1>3. ASSUME NEW m \in Notes, Lapse(m) \/ LapseInFlight(m) PROVE MovesInFlight(n)
  <2>1. row' = [row EXCEPT ![m].wait = "due"]
    BY <1>3 DEF Lapse, LapseInFlight
  <2>2. row'[n].status = row[n].status
    BY <2>1 DEF OutboxInv, OutboxTypeOK
  <2> QED BY <2>2 DEF MovesInFlight
<1>4. ASSUME NEW u \in Leavers, SetEnabled(u) PROVE MovesInFlight(n)
  BY <1>4 DEF SetEnabled, MovesInFlight
<1>5. ASSUME NEW u \in Users, Send(u) PROVE MovesInFlight(n)
  <2>1. PICK m \in Notes : row[m].status = "none" /\ row' = [row EXCEPT ![m].status = "pending"]
    BY <1>5 DEF Send
  <2> QED BY <2>1 DEF OutboxInv, OutboxTypeOK, MovesInFlight
<1> QED BY <1>2, <1>3, <1>4, <1>5 DEF Outside
================================================================================

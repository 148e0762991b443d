--------------------------- MODULE TaskReminderProofs ---------------------------
(***************************************************************************)
(* Theorems about the reminders and the outbox they feed, for any          *)
(* replicas, users, steps, notes, batches, attempts and failures.          *)
(***************************************************************************)
EXTENDS TaskReminder, NotificationOutboxProofs, WellFoundedInduction

--------------------------------------------------------------------------------
(* The foremost step of a pass. *)

LEMMA ForemostIn ==
    ASSUME NEW S \in SUBSET Steps, S # {}
    PROVE  Foremost(S) \in S /\ Foremost(S) \in Steps
<1> DEFINE R == OpToRel(<, Nat)
           T == {Rank[s] : s \in S}
<1>1. Rank \in [Steps -> Nat]
  BY ReminderAssumption
<1>2. IsWellFoundedOn(R, Nat)
  BY NatLessThanWellFounded
<1>3. T \subseteq Nat /\ T # {}
  BY <1>1
<1>4. PICK x \in T : \A y \in T : ~(<<y, x>> \in R)
  <2> HIDE DEF R, T
  <2> QED BY <1>2, <1>3, WFMin
<1>5. \A y \in T : x <= y
  <2>1. R = {ss \in Nat \X Nat : ss[1] < ss[2]}
    BY Zenon DEF OpToRel
  <2> HIDE DEF R, T
  <2>2. ASSUME NEW y \in T PROVE x <= y
    <3>1. x \in Nat /\ y \in Nat /\ <<y, x>> \in Nat \X Nat
      BY <1>3
    <3>2. ~(y < x)
      BY <1>4, <2>1, <3>1
    <3> QED BY <3>1, <3>2
  <2> QED BY <2>2
<1>6. \E s \in S : \A t \in S : Rank[s] <= Rank[t]
  BY <1>5
<1> QED BY <1>6 DEF Foremost

LEMMA MayTellCounts ==
    ASSUME ReminderTypeOK, NEW s, NEW u
    PROVE  MayTell(s, u) \in SUBSET Gateways /\ Cardinality(MayTell(s, u)) \in Nat /\ Cardinality(replicas) \in Nat
<1>1. MayTell(s, u) \in SUBSET Gateways /\ replicas \in SUBSET Gateways
  BY DEF MayTell, ReminderTypeOK
<1> QED BY <1>1, Counts

LEMMA ToldTyped ==
    ASSUME ReminderTypeOK, NEW s \in Steps, NEW u \in Users
    PROVE  told[s][u] \in Nat
  BY DEF ReminderTypeOK

LEMMA FaultsTyped ==
    ASSUME OutboxInv
    PROVE  faults \in Nat /\ disabled \subseteq Users
  BY OutboxAssumption DEF OutboxInv, OutboxTypeOK

\* What g's pass has in hand.
LEMMA InHand ==
    ASSUME ReminderTypeOK, NEW g \in Gateways, todo[g] # {}
    PROVE  /\ Foremost(todo[g]) \in todo[g]
           /\ Foremost(todo[g]) \in Steps
           /\ AssigneesOf[Foremost(todo[g])] \subseteq Users
<1>1. todo[g] \in SUBSET Steps
  BY DEF ReminderTypeOK
<1> QED BY <1>1, ForemostIn, ReminderAssumption

--------------------------------------------------------------------------------
(* The initial states. *)

LEMMA ReminderStarts == Init => ReminderInv
<1> SUFFICES ASSUME Init PROVE ReminderInv
  OBVIOUS
<1>1. PICK w \in Workloads : OutboxInit(w.queued) /\ replicas = w.replicas /\ outbound = w.outbound
                           /\ step = [s \in Steps |-> IF s \in w.steps THEN "open" ELSE "done"]
  BY DEF Init
<1>2. OutboxInv
  BY <1>1, OutboxStarts
<1>3. replicas \subseteq Gateways /\ outbound \in BOOLEAN
  BY <1>1, ReminderAssumption
<1>4. ReminderTypeOK
  BY <1>1, <1>3 DEF Init, ReminderTypeOK
<1>5. MarkedMeansTold /\ \A g \in Gateways : TellsAll(g)
  BY DEF Init, MarkedMeansTold, TellsAll
<1>6. ASSUME NEW s \in Steps, NEW u \in Users PROVE InTurn(s, u)
  <2>1. told[s][u] = 0 /\ faults = 0
    BY <1>1 DEF Init, OutboxInit
  <2>2. \A g \in replicas : s \notin todo[g] /\ s \notin reminded
    BY <1>3 DEF Init
  <2>3. MayTell(s, u) = replicas
    BY <2>2 DEF MayTell
  <2> QED BY <1>4, <2>1, <2>3, MayTellCounts DEF InTurn
<1> QED BY <1>2, <1>4, <1>5, <1>6 DEF ReminderInv

--------------------------------------------------------------------------------
(* Steps of the outbox leave the reminders alone but for the failures. *)

LEMMA FaultsGrow ==
    ASSUME OutboxInv, NEW g, DispatchStep(g) \/ DispatchFault(g) \/ CrashDispatcher(g) \/ Outside
    PROVE  faults' \in {faults, faults + 1}
  BY FaultCounts
  DEF DispatchStep, DispatchFault, CrashDispatcher, Outside, DropDisabled, Claim, Deliver, Refused,
      RecordDelivered, ReadAttempts, GiveUp, Retry, ClaimUnread, SettingsUnread, AnswerLost, Unrecorded,
      MarkRead, Lapse, LapseInFlight, SetEnabled

\* The reminders stand still.
LEMMA RemindersRest ==
    ASSUME ReminderInv, OutboxInv', UNCHANGED <<replicas, outbound, reminded, todo, asking, left, told, passedBy>>,
           ReminderTypeOK', faults' \in {faults, faults + 1}
    PROVE  ReminderInv'
<1>1. MarkedMeansTold'
  BY DEF ReminderInv, MarkedMeansTold
<1>2. ASSUME NEW g \in Gateways PROVE TellsAll(g)'
  BY DEF ReminderInv, TellsAll
<1>3. ASSUME NEW s \in Steps, NEW u \in Users PROVE InTurn(s, u)'
  <2>1. MayTell(s, u)' = MayTell(s, u)
    BY DEF MayTell, Past
  <2> QED BY <2>1, MayTellCounts, ToldTyped, FaultsTyped DEF ReminderInv, InTurn
<1> QED BY <1>1, <1>2, <1>3 DEF ReminderInv

--------------------------------------------------------------------------------
(* A pass that moves on. *)

\* g's pass moves without telling anyone; to be shown of it: what its own new
\* place needs.
LEMMA PassMoves ==
    ASSUME ReminderInv, OutboxInv', ReminderTypeOK', NEW g \in replicas,
           UNCHANGED <<replicas, reminded, told>>,
           passedBy \subseteq passedBy',
           \A h \in Gateways \ {g} : todo'[h] = todo[h] /\ asking'[h] = asking[h] /\ left'[h] = left[h],
           TellsAll(g)',
           \/ faults' = faults + 1
           \/ /\ faults' = faults
              /\ \A s \in Steps, u \in Users : g \in MayTell(s, u)' => g \in MayTell(s, u)
    PROVE  ReminderInv'
<1>1. MarkedMeansTold'
  BY DEF ReminderInv, MarkedMeansTold
<1>2. ASSUME NEW h \in Gateways PROVE TellsAll(h)'
  BY DEF ReminderInv, TellsAll
<1>3. ASSUME NEW s \in Steps, NEW u \in Users PROVE InTurn(s, u)'
  <2>1. \A h \in replicas : h # g => (h \in MayTell(s, u)' <=> h \in MayTell(s, u))
    BY DEF MayTell, Past, ReminderInv, ReminderTypeOK
  <2>2. MayTell(s, u)' \subseteq MayTell(s, u) \cup {g}
    BY <2>1 DEF MayTell
  <2>3. g \in Gateways
    BY DEF ReminderInv, ReminderTypeOK
  <2>4. Cardinality(MayTell(s, u)') \in Nat /\ Cardinality(MayTell(s, u)') <= Cardinality(MayTell(s, u)) + 1
    BY <2>2, <2>3, MayTellCounts, Grows DEF ReminderInv
  <2>5. CASE faults' = faults + 1
    BY <2>4, <2>5, MayTellCounts, ToldTyped, FaultsTyped DEF ReminderInv, InTurn
  <2>6. CASE faults' = faults /\ (g \in MayTell(s, u)' => g \in MayTell(s, u))
    <3>1. MayTell(s, u)' \subseteq MayTell(s, u)
      BY <2>2, <2>6
    <3>2. Cardinality(MayTell(s, u)') <= Cardinality(MayTell(s, u))
      BY <3>1, MayTellCounts, Keeps DEF ReminderInv
    <3> QED BY <2>4, <2>6, <3>2, MayTellCounts, ToldTyped, FaultsTyped DEF ReminderInv, InTurn
  <2> QED BY <2>5, <2>6
<1> QED BY <1>1, <1>2, <1>3 DEF ReminderInv

LEMMA FindDueStep ==
    ASSUME ReminderInv, NEW g \in replicas, FindDue(g)
    PROVE  ReminderInv'
<1>1. OutboxInv' /\ faults' = faults
  BY UnchangedKeeps DEF FindDue, ReminderInv, outboxVars
<1>2. g \in Gateways /\ todo[g] = {} /\ ~asking[g]
  BY DEF FindDue, Idle, ReminderInv, ReminderTypeOK
<1>3. todo'[g] = Earliest(DueSteps) /\ asking' = asking /\ \A h \in Gateways \ {g} : todo'[h] = todo[h]
  BY <1>2 DEF FindDue, ReminderInv, ReminderTypeOK
<1>4. Earliest(DueSteps) \subseteq DueSteps /\ DueSteps \subseteq Steps
  BY DEF Earliest, DueSteps
<1>5. ReminderTypeOK'
  <2>1. todo' \in [Gateways -> SUBSET Steps]
    BY <1>4 DEF FindDue, ReminderInv, ReminderTypeOK
  <2>2. \A h \in Gateways : asking'[h] => todo'[h] # {}
    BY <1>2, <1>3 DEF ReminderInv, ReminderTypeOK
  <2> QED BY <2>1, <2>2 DEF FindDue, ReminderInv, ReminderTypeOK
<1>6. ASSUME NEW s \in Steps, NEW u \in Users, g \in MayTell(s, u)' PROVE g \in MayTell(s, u)
  <2>1. s \notin reminded
    BY <1>3, <1>4, <1>6 DEF MayTell, DueSteps, FindDue
  <2> QED BY <1>2, <2>1 DEF MayTell
<1>7. TellsAll(g)'
  BY <1>2, <1>3 DEF TellsAll
<1> QED BY <1>1, <1>3, <1>5, <1>6, <1>7, PassMoves DEF FindDue

\* Leaving a step: the types, and who may still tell of what.
LEMMA LeaveMoves ==
    ASSUME ReminderTypeOK, NEW g \in replicas, todo[g] # {}, Leave(g), left[g] = {}, mailing[g] = NoUser
    PROVE  /\ g \in Gateways
           /\ todo' \in [Gateways -> SUBSET Steps]
           /\ asking' \in [Gateways -> BOOLEAN]
           /\ todo'[g] = todo[g] \ {Foremost(todo[g])} /\ ~asking'[g]
           /\ \A h \in Gateways \ {g} : todo'[h] = todo[h] /\ asking'[h] = asking[h]
           /\ \A h \in Gateways : asking'[h] => todo'[h] # {}
           /\ \A h \in Gateways : left[h] # {} \/ mailing[h] # NoUser => asking'[h]
           /\ TellsAll(g)'
  BY DEF ReminderTypeOK, Leave, TellsAll

LEMMA SkipMutedStep ==
    ASSUME ReminderInv, NEW g \in replicas, SkipMuted(g)
    PROVE  ReminderInv'
<1>1. OutboxInv' /\ faults' = faults
  BY UnchangedKeeps DEF SkipMuted, ReminderInv, outboxVars
<1>2. todo[g] # {} /\ ~asking[g] /\ left[g] = {} /\ mailing[g] = NoUser /\ Leave(g)
  BY DEF SkipMuted, Idle, ReminderInv, ReminderTypeOK
<1>3. ReminderTypeOK'
  BY <1>2, LeaveMoves DEF SkipMuted, ReminderInv, ReminderTypeOK
<1>4. ASSUME NEW s \in Steps, NEW u \in Users, g \in MayTell(s, u)' PROVE g \in MayTell(s, u)
  BY <1>2, <1>4, LeaveMoves DEF MayTell, Past, SkipMuted, ReminderInv
<1> QED BY <1>1, <1>2, <1>3, <1>4, LeaveMoves, PassMoves DEF SkipMuted, ReminderInv

LEMMA AskStep ==
    ASSUME ReminderInv, NEW g \in replicas, Ask(g)
    PROVE  ReminderInv'
<1>1. OutboxInv' /\ faults' = faults
  BY UnchangedKeeps DEF Ask, ReminderInv, outboxVars
<1>2. g \in Gateways /\ todo[g] # {} /\ ~asking[g]
  BY DEF Ask, Idle, ReminderInv, ReminderTypeOK
<1>3. /\ asking'[g] /\ left'[g] = AssigneesOf[Foremost(todo[g])] /\ todo' = todo
      /\ \A h \in Gateways \ {g} : asking'[h] = asking[h] /\ left'[h] = left[h]
  BY <1>2 DEF Ask, ReminderInv, ReminderTypeOK
<1>4. ReminderTypeOK'
  <2>1. left' \in [Gateways -> SUBSET Users] /\ asking' \in [Gateways -> BOOLEAN]
    BY <1>2, InHand DEF Ask, ReminderInv, ReminderTypeOK
  <2>2. \A h \in Gateways : /\ asking'[h] => todo'[h] # {}
                            /\ left'[h] # {} \/ mailing[h] # NoUser => asking'[h]
    BY <1>2, <1>3 DEF ReminderInv, ReminderTypeOK
  <2> QED BY <2>1, <2>2 DEF Ask, ReminderInv, ReminderTypeOK
<1>5. ASSUME NEW s \in Steps, NEW u \in Users, g \in MayTell(s, u)' PROVE g \in MayTell(s, u)
  BY <1>2, <1>3, <1>5 DEF MayTell, Past, Ask
<1>6. TellsAll(g)'
  BY <1>3 DEF TellsAll
<1> QED BY <1>1, <1>3, <1>4, <1>5, <1>6, PassMoves DEF Ask

\* The one step that tells: the user is out of g's turn with it.
LEMMA TellStep ==
    ASSUME ReminderInv, NEW g \in replicas, NEW w \in left[g], Tell(g, w)
    PROVE  ReminderInv'
<1> DEFINE f == Foremost(todo[g])
<1>1. OutboxInv' /\ faults' = faults
  BY UnchangedKeeps DEF Tell, ReminderInv, outboxVars
<1>2. g \in Gateways /\ asking[g] /\ todo[g] # {} /\ w \in Users
  BY DEF Tell, ReminderInv, ReminderTypeOK
<1>3. f \in todo[g] /\ f \in Steps /\ AssigneesOf[f] \subseteq Users
  BY <1>2, InHand DEF ReminderInv
<1>4. /\ left'[g] = left[g] \ {w} /\ UNCHANGED <<replicas, reminded, todo, asking>>
      /\ \A h \in Gateways \ {g} : left'[h] = left[h]
  BY <1>2 DEF Tell, ReminderInv, ReminderTypeOK
<1>5. left' \in [Gateways -> SUBSET Users]
  BY <1>2 DEF Tell, ReminderInv, ReminderTypeOK
<1>6. ASSUME NEW s \in Steps, NEW u \in Users
      PROVE  /\ MayTell(s, u)' \subseteq MayTell(s, u)
             /\ s = f /\ u = w => g \in MayTell(s, u) /\ g \notin MayTell(s, u)'
  BY <1>2, <1>3, <1>4 DEF MayTell, Past, ReminderInv, ReminderTypeOK
<1>7. CASE w \in disabled
  <2>1. told' = told /\ mailing' = mailing /\ passedBy' = passedBy \cup {<<f, w>>}
    BY <1>7 DEF Tell
  <2>2. ReminderTypeOK'
    <3>1. \A h \in Gateways : left'[h] # {} \/ mailing[h] # NoUser => asking[h]
      BY <1>2, <1>4 DEF ReminderInv, ReminderTypeOK
    <3> QED BY <1>2, <1>3, <1>5, <2>1, <3>1 DEF Tell, ReminderInv, ReminderTypeOK
  <2>3. TellsAll(g)'
    BY <1>2, <1>4, <2>1 DEF TellsAll, ReminderInv
  <2> QED BY <1>1, <1>4, <1>6, <2>1, <2>2, <2>3, PassMoves
<1>8. CASE w \notin disabled
  <2>1. /\ told' = [told EXCEPT ![f][w] = @ + 1] /\ mailing' = [mailing EXCEPT ![g] = w] /\ passedBy' = passedBy
    BY <1>8 DEF Tell
  <2>2. /\ told' \in [Steps -> [Users -> Nat]]
        /\ told'[f][w] = told[f][w] + 1
        /\ \A s \in Steps, u \in Users : s # f \/ u # w => told'[s][u] = told[s][u]
    BY <1>2, <1>3, <2>1 DEF ReminderInv, ReminderTypeOK
  <2>3. \A s \in Steps, u \in Users : told[s][u] > 0 => told'[s][u] > 0
    BY <1>2, <1>3, <2>2, ToldTyped DEF ReminderInv
  <2>4. ReminderTypeOK'
    <3>1. mailing' \in [Gateways -> Users \cup {NoUser}]
      BY <1>2, <2>1 DEF ReminderInv, ReminderTypeOK
    <3>2. \A h \in Gateways : left'[h] # {} \/ mailing'[h] # NoUser => asking[h]
      BY <1>2, <1>4, <2>1 DEF ReminderInv, ReminderTypeOK
    <3> QED BY <1>5, <2>1, <2>2, <3>1, <3>2 DEF Tell, ReminderInv, ReminderTypeOK
  <2>5. MarkedMeansTold'
    <3>1. \A s \in reminded : s \in Steps /\ AssigneesOf[s] \subseteq Users
      BY ReminderAssumption DEF ReminderInv, ReminderTypeOK
    <3> QED BY <1>4, <2>1, <2>3, <3>1 DEF ReminderInv, MarkedMeansTold
  <2>6. ASSUME NEW h \in Gateways PROVE TellsAll(h)'
    <3>1. SUFFICES ASSUME asking[h], NEW u \in AssigneesOf[Foremost(todo[h])] \ left'[h]
                   PROVE  told'[Foremost(todo[h])][u] > 0 \/ <<Foremost(todo[h]), u>> \in passedBy
      BY <1>4, <2>1 DEF TellsAll
    <3>2. Foremost(todo[h]) \in Steps /\ u \in Users
      BY <3>1, InHand DEF ReminderInv, ReminderTypeOK
    <3>3. CASE u \notin left[h]
      BY <2>3, <3>1, <3>2, <3>3 DEF ReminderInv, TellsAll
    <3>4. CASE u \in left[h]
      <4>1. h = g /\ u = w
        BY <1>4, <3>1, <3>4
      <4> QED BY <1>2, <1>3, <2>2, <4>1, ToldTyped DEF ReminderInv
    <3> QED BY <3>3, <3>4
  <2>7. ASSUME NEW s \in Steps, NEW u \in Users PROVE InTurn(s, u)'
    <3>1. Cardinality(MayTell(s, u)') \in Nat /\ Cardinality(MayTell(s, u)') <= Cardinality(MayTell(s, u))
      BY <1>6, MayTellCounts, Keeps DEF ReminderInv
    <3>2. CASE s = f /\ u = w
      <4>1. g \in MayTell(s, u) /\ MayTell(s, u)' \subseteq MayTell(s, u) \ {g}
        BY <1>6, <3>2
      <4>2. Cardinality(MayTell(s, u)') + 1 <= Cardinality(MayTell(s, u))
        BY <4>1, MayTellCounts, Shrinks DEF ReminderInv
      <4> QED BY <1>1, <1>4, <2>2, <3>1, <3>2, <4>2, MayTellCounts, ToldTyped, FaultsTyped DEF ReminderInv, InTurn
    <3>3. CASE s # f \/ u # w
      BY <1>1, <1>4, <2>2, <3>1, <3>3, MayTellCounts, ToldTyped, FaultsTyped DEF ReminderInv, InTurn
    <3> QED BY <3>2, <3>3
  <2> QED BY <1>1, <2>4, <2>5, <2>6, <2>7 DEF ReminderInv
<1> QED BY <1>7, <1>8

LEMMA QueueStep ==
    ASSUME ReminderInv, NEW g \in replicas, Queue(g)
    PROVE  ReminderInv'
<1>1. OutboxInv' /\ faults' = faults
  BY UnchangedKeeps, SendStep DEF Queue, ReminderInv, outboxVars, Send
<1>2. ReminderTypeOK'
  <2>1. mailing' \in [Gateways -> Users \cup {NoUser}]
    BY DEF Queue, ReminderInv, ReminderTypeOK
  <2>2. \A h \in Gateways : mailing'[h] # NoUser => mailing[h] # NoUser
    BY DEF Queue, ReminderInv, ReminderTypeOK
  <2> QED BY <2>1, <2>2 DEF Queue, ReminderInv, ReminderTypeOK
<1> QED BY <1>1, <1>2, RemindersRest DEF Queue

LEMMA MarkRemindedStep ==
    ASSUME ReminderInv, NEW g \in replicas, MarkReminded(g)
    PROVE  ReminderInv'
<1> DEFINE f == Foremost(todo[g])
<1>1. OutboxInv' /\ faults' = faults
  BY UnchangedKeeps DEF MarkReminded, ReminderInv, outboxVars
<1>2. /\ g \in Gateways /\ asking[g] /\ todo[g] # {} /\ left[g] = {} /\ mailing[g] = NoUser /\ Leave(g)
      /\ reminded' = reminded \cup {f} /\ UNCHANGED <<replicas, left, told, passedBy>>
  BY DEF MarkReminded, ReminderInv, ReminderTypeOK
<1>3. f \in todo[g] /\ f \in Steps
  BY <1>2, InHand DEF ReminderInv
<1>4. ReminderTypeOK'
  BY <1>2, <1>3, LeaveMoves DEF MarkReminded, ReminderInv, ReminderTypeOK
<1>5. MarkedMeansTold'
  <2>1. \A u \in AssigneesOf[f] : told[f][u] > 0 \/ <<f, u>> \in passedBy
    BY <1>2 DEF ReminderInv, TellsAll
  <2> QED BY <1>2, <2>1 DEF ReminderInv, MarkedMeansTold
<1>6. ASSUME NEW h \in Gateways PROVE TellsAll(h)'
  BY <1>2, LeaveMoves DEF ReminderInv, TellsAll
<1>7. ASSUME NEW s \in Steps, NEW u \in Users PROVE InTurn(s, u)'
  <2>1. MayTell(s, u)' \subseteq MayTell(s, u)
    <3>1. ASSUME NEW h \in replicas, h \in MayTell(s, u)' PROVE h \in MayTell(s, u)
      <4>1. CASE h = g
        BY <1>2, <3>1, <4>1, LeaveMoves DEF ReminderInv, MayTell, Past
      <4>2. CASE h # g
        <5>1. h \in Gateways /\ todo'[h] = todo[h] /\ asking'[h] = asking[h]
          BY <1>2, <4>2, LeaveMoves DEF ReminderInv, ReminderTypeOK
        <5> QED BY <1>2, <3>1, <5>1 DEF MayTell, Past
      <4> QED BY <4>1, <4>2
    <3> QED BY <1>2, <3>1 DEF MayTell
  <2>2. Cardinality(MayTell(s, u)') \in Nat /\ Cardinality(MayTell(s, u)') <= Cardinality(MayTell(s, u))
    BY <2>1, MayTellCounts, Keeps DEF ReminderInv
  <2> QED BY <1>1, <1>2, <2>2, MayTellCounts, ToldTyped, FaultsTyped DEF ReminderInv, InTurn
<1> QED BY <1>1, <1>4, <1>5, <1>6, <1>7 DEF ReminderInv

--------------------------------------------------------------------------------
(* Failures. *)

LEMMA ReminderFaultStep ==
    ASSUME ReminderInv, NEW g \in replicas, ReminderFault(g)
    PROVE  ReminderInv'
<1> DEFINE f == Foremost(todo[g])
<1>1. /\ g \in Gateways /\ todo[g] # {}
      /\ UNCHANGED <<row, disabled, phase, held, cur, sent, unsure, replicas, outbound, step, reminded, mailing, told>>
  BY DEF ReminderFault, Idle, ReminderInv, ReminderTypeOK
<1>2. faults' = faults + 1 /\ faults' \in 0 .. MaxFaults
  BY FaultCounts DEF ReminderFault, ReminderInv
<1>3. OutboxInv'
  BY <1>1, <1>2, OutboxAssumption, FaultsTyped, IdleStep DEF ReminderInv
<1>4. f \in todo[g] /\ f \in Steps
  BY <1>1, InHand DEF ReminderInv
<1>5. CASE ~asking[g] /\ todo' = [todo EXCEPT ![g] = {}] /\ UNCHANGED <<asking, left, passedBy>>
  <2>1. ReminderTypeOK'
    BY <1>1, <1>5 DEF ReminderInv, ReminderTypeOK
  <2>2. TellsAll(g)'
    BY <1>5 DEF TellsAll
  <2>3. \A h \in Gateways \ {g} : todo'[h] = todo[h]
    BY <1>5 DEF ReminderInv, ReminderTypeOK
  <2> QED BY <1>1, <1>2, <1>3, <1>5, <2>1, <2>2, <2>3, PassMoves
<1>6. CASE Leave(g) /\ left[g] = {} /\ mailing[g] = NoUser /\ UNCHANGED <<left, passedBy>>
  <2>1. ReminderTypeOK'
    BY <1>1, <1>6, LeaveMoves DEF ReminderInv, ReminderTypeOK
  <2> QED BY <1>1, <1>2, <1>3, <1>6, <2>1, LeaveMoves, PassMoves DEF ReminderInv
<1>7. CASE /\ asking[g]
           /\ \E u \in left[g] : /\ left' = [left EXCEPT ![g] = @ \ {u}]
                                /\ passedBy' = passedBy \cup {<<f, u>>}
           /\ UNCHANGED <<todo, asking>>
  <2>1. PICK w \in left[g] : left' = [left EXCEPT ![g] = @ \ {w}] /\ passedBy' = passedBy \cup {<<f, w>>}
    BY <1>7
  <2>2. w \in Users /\ left'[g] = left[g] \ {w} /\ \A h \in Gateways \ {g} : left'[h] = left[h]
    BY <1>1, <2>1 DEF ReminderInv, ReminderTypeOK
  <2>3. ReminderTypeOK'
    <3>1. left' \in [Gateways -> SUBSET Users] /\ passedBy' \subseteq Steps \X Users
      BY <1>1, <1>4, <2>1, <2>2 DEF ReminderInv, ReminderTypeOK
    <3>2. \A h \in Gateways : left'[h] # {} \/ mailing[h] # NoUser => asking[h]
      BY <1>7, <2>2 DEF ReminderInv, ReminderTypeOK
    <3> QED BY <1>1, <1>7, <3>1, <3>2 DEF ReminderInv, ReminderTypeOK
  <2>4. TellsAll(g)'
    BY <1>1, <1>7, <2>1, <2>2 DEF ReminderInv, TellsAll
  <2> QED BY <1>1, <1>2, <1>3, <1>7, <2>1, <2>2, <2>3, <2>4, PassMoves
<1>8. ~asking[g] => left[g] = {} /\ mailing[g] = NoUser
  BY <1>1 DEF ReminderInv, ReminderTypeOK
<1> QED BY <1>5, <1>6, <1>7, <1>8 DEF ReminderFault

LEMMA CrashStep ==
    ASSUME ReminderInv, NEW g \in replicas, Crash(g)
    PROVE  ReminderInv'
<1>1. g \in Gateways
  BY DEF ReminderInv, ReminderTypeOK
<1>2. OutboxInv' /\ faults' = faults + 1
  BY <1>1, CrashDispatcherStep, FaultCounts DEF Crash, CrashDispatcher, ReminderInv
<1>3. /\ ~asking'[g]
      /\ \A h \in Gateways \ {g} : todo'[h] = todo[h] /\ asking'[h] = asking[h] /\ left'[h] = left[h]
  BY <1>1 DEF Crash, ReminderInv, ReminderTypeOK
<1>4. ReminderTypeOK'
  BY <1>1 DEF Crash, ReminderInv, ReminderTypeOK
<1>5. TellsAll(g)'
  BY <1>3 DEF TellsAll
<1> QED BY <1>2, <1>3, <1>4, <1>5, PassMoves DEF Crash

--------------------------------------------------------------------------------
(* The theorems. *)

LEMMA ReminderInvKept == ReminderInv /\ [Next]_vars => ReminderInv'
<1> SUFFICES ASSUME ReminderInv, [Next]_vars PROVE ReminderInv'
  OBVIOUS
<1>1. ASSUME NEW s \in Steps, ComesNear(s) \/ ComesDue(s) \/ Decide(s) PROVE ReminderInv'
  <2>1. OutboxInv' /\ faults' = faults
    BY <1>1, UnchangedKeeps DEF ComesNear, ComesDue, Decide, ReminderInv, outboxVars
  <2>2. ReminderTypeOK'
    BY <1>1 DEF ComesNear, ComesDue, Decide, ReminderInv, ReminderTypeOK
  <2> QED BY <1>1, <2>1, <2>2, RemindersRest DEF ComesNear, ComesDue, Decide
<1>2. ASSUME NEW g \in replicas, ReminderStep(g) PROVE ReminderInv'
  BY <1>2, FindDueStep, SkipMutedStep, AskStep, TellStep, QueueStep, MarkRemindedStep DEF ReminderStep
<1>3. ASSUME NEW g \in replicas, DispatchStep(g) \/ DispatchFault(g), UNCHANGED reminderVars PROVE ReminderInv'
  <2>1. g \in Gateways
    BY DEF ReminderInv, ReminderTypeOK
  <2>2. OutboxInv' /\ faults' \in {faults, faults + 1}
    BY <1>3, <2>1, DispatchKeeps, FaultsGrow DEF ReminderInv
  <2>3. ReminderTypeOK'
    BY <1>3 DEF ReminderInv, ReminderTypeOK, reminderVars
  <2> QED BY <1>3, <2>2, <2>3, RemindersRest DEF reminderVars
<1>4. ASSUME Outside, UNCHANGED reminderVars PROVE ReminderInv'
  <2>1. OutboxInv' /\ faults' \in {faults, faults + 1}
    BY <1>4, OutsideKeeps, FaultsGrow DEF ReminderInv
  <2>2. ReminderTypeOK'
    BY <1>4 DEF ReminderInv, ReminderTypeOK, reminderVars
  <2> QED BY <1>4, <2>1, <2>2, RemindersRest DEF reminderVars
<1>5. ASSUME UNCHANGED vars PROVE ReminderInv'
  <2>1. OutboxInv' /\ faults' = faults
    BY <1>5, UnchangedKeeps DEF vars, ReminderInv, outboxVars
  <2>2. ReminderTypeOK'
    BY <1>5 DEF ReminderInv, ReminderTypeOK, vars, reminderVars
  <2> QED BY <1>5, <2>1, <2>2, RemindersRest DEF vars, reminderVars
<1> QED BY <1>1, <1>2, <1>3, <1>4, <1>5, ReminderFaultStep, CrashStep DEF Next

LEMMA ReminderInvHolds == Spec => []ReminderInv
  BY ReminderStarts, ReminderInvKept, PTL DEF Spec

\* Every reachable state of the reminders and the outbox is well typed.
THEOREM TypeCorrect == Spec => []TypeOK
<1>1. ReminderInv => TypeOK
  BY DEF ReminderInv, OutboxInv, TypeOK
<1> QED BY <1>1, ReminderInvHolds, PTL

\* However claims lapse, outcomes are lost and dispatchers crash, a note is
\* attempted MaxAttempts times and once more per failure (claimOutbound counts
\* the attempt before it is made, recordFailure gives up by that count).
THEOREM AttemptsAreBounded == Spec => []BoundedAttempts
<1>1. ReminderInv => BoundedAttempts
  BY OutboxPromises DEF ReminderInv
<1> QED BY <1>1, ReminderInvHolds, PTL

\* A note reaches its receiver once, and at most once more per failure
\* (claimOutbound's claim).
THEOREM NoStorm == Spec => []NoDuplicateStorm
<1>1. ReminderInv => NoDuplicateStorm
  BY OutboxPromises DEF ReminderInv
<1> QED BY <1>1, ReminderInvHolds, PTL

\* A settled row says what happened, unless one of its outcomes was lost or
\* came after its claim (recordDelivered, recordFailure).
THEOREM OutcomesAreTrue == Spec => []OutcomeIsTrue
<1>1. ReminderInv => OutcomeIsTrue
  BY OutboxPromises DEF ReminderInv
<1> QED BY <1>1, ReminderInvHolds, PTL

\* A step is marked only after its assignees (Reminder.RunOnce).
THEOREM MarkedAfterTelling == Spec => []MarkedMeansTold
<1>1. ReminderInv => MarkedMeansTold
  BY DEF ReminderInv
<1> QED BY <1>1, ReminderInvHolds, PTL

\* A user is reminded of a step once per replica and once more per failure,
\* never once per pass (Reminder.RunOnce, markReminded).
THEOREM RemindersAreBounded == Spec => []NoDrip
<1>1. ReminderInv => NoDrip
  <2> SUFFICES ASSUME ReminderInv, NEW s \in Steps, NEW u \in Users
               PROVE  told[s][u] <= Cardinality(replicas) + faults
    BY DEF NoDrip
  <2> QED BY MayTellCounts, ToldTyped, FaultsTyped DEF ReminderInv, InTurn
<1> QED BY <1>1, ReminderInvHolds, PTL

\* A settled row is only changed by its recipient or by a dispatcher with a
\* claim on it, and never becomes pending again, although outcomes are
\* recorded by id alone.
THEOREM SettledForGood == Spec => SettledMovesInFlight
<1>1. ReminderInv /\ [Next]_vars => [\A n \in Notes : MovesInFlight(n)]_outboxVars
  <2> SUFFICES ASSUME ReminderInv, [Next]_vars, NEW n \in Notes PROVE MovesInFlight(n) \/ UNCHANGED outboxVars
    BY DEF MovesInFlight
  <2>1. OutboxInv /\ replicas \subseteq Gateways
    BY DEF ReminderInv, ReminderTypeOK
  <2>2. ASSUME row' = row PROVE MovesInFlight(n)
    BY <2>2 DEF MovesInFlight
  <2>3. ASSUME NEW g \in replicas, ReminderStep(g) PROVE MovesInFlight(n) \/ UNCHANGED outboxVars
    <3>1. CASE Queue(g)
      <4>1. mailing[g] \in Users
        BY <2>1, <3>1 DEF Queue, ReminderInv, ReminderTypeOK
      <4> QED BY <2>1, <3>1, <4>1, OutsideMoves DEF Queue
    <3>2. CASE ~Queue(g)
      BY <2>3, <3>2 DEF ReminderStep, FindDue, SkipMuted, Ask, Tell, MarkReminded
    <3> QED BY <3>1, <3>2
  <2>4. ASSUME NEW g \in replicas, ReminderFault(g) \/ Crash(g) PROVE MovesInFlight(n)
    BY <2>2, <2>4 DEF ReminderFault, Crash, CrashDispatcher
  <2>5. ASSUME NEW s \in Steps, ComesNear(s) \/ ComesDue(s) \/ Decide(s) PROVE UNCHANGED outboxVars
    BY <2>5 DEF ComesNear, ComesDue, Decide
  <2>6. ASSUME NEW g \in replicas, DispatchStep(g) \/ DispatchFault(g) PROVE MovesInFlight(n)
    BY <2>1, <2>6, DispatchMoves
  <2>7. ASSUME Outside PROVE MovesInFlight(n)
    BY <2>1, <2>7, OutsideMoves
  <2>8. ASSUME UNCHANGED vars PROVE UNCHANGED outboxVars
    BY <2>8 DEF vars
  <2> QED BY <2>3, <2>4, <2>5, <2>6, <2>7, <2>8 DEF Next
<1>2. [\A n \in Notes : MovesInFlight(n)]_outboxVars <=>
      [\A n \in Notes :
         row[n].status \notin {"none", "pending"} /\ row'[n].status # row[n].status =>
           \/ row'[n].status = "read"
           \/ row'[n].status # "pending" /\ InFlight(n)]_outboxVars
  BY DEF MovesInFlight
<1> QED BY <1>1, <1>2, ReminderInvHolds, PTL DEF Spec, SettledMovesInFlight
================================================================================

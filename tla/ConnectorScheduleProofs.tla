------------------------ MODULE ConnectorScheduleProofs ------------------------
(***************************************************************************)
(* Theorems about ConnectorSchedule, for every set of plans, length of a   *)
(* minute and bound: type correctness for any number of tickers, and what  *)
(* a single ticker guarantees.                                             *)
(***************************************************************************)
EXTENDS ConnectorSchedule, FiniteSetTheorems, TLAPS

-----------------------------------------------------------------------------
(* Minutes and fire times. *)

\* Rounding down to a multiple of k.
LEMMA Rounding ==
    ASSUME NEW k \in Nat \ {0}, NEW t \in Nat
    PROVE  /\ t \div k \in Nat
           /\ (t \div k) * k \in Nat
           /\ (t \div k) * k <= t
           /\ t < (t \div k) * k + k
  OBVIOUS

\* Of two multiples the larger is larger by one of them at least.
LEMMA Multiples ==
    ASSUME NEW k \in Nat \ {0}, NEW a \in Nat, NEW b \in Nat, a * k < b * k
    PROVE  a * k + k <= b * k
<1>1. a < b
  OBVIOUS
<1>2. PICK c \in Nat : b = a + 1 + c
  BY <1>1
<1>3. b * k = a * k + k + c * k
  BY <1>2
<1>4. c * k \in Nat
  OBVIOUS
<1> QED
  BY <1>3, <1>4

\* Truncate rounds down to the minute.
LEMMA TruncateIs ==
    ASSUME NEW t \in Nat
    PROVE  /\ Truncate(t) \in Nat
           /\ Truncate(t) <= t
           /\ t < Truncate(t) + Minute
  BY Rounding, ScheduleAssumption DEF Truncate

\* It keeps the order of times.
LEMMA TruncateMonotone ==
    ASSUME NEW s \in Nat, NEW t \in Nat, s <= t
    PROVE  Truncate(s) <= Truncate(t)
<1> DEFINE a == s \div Minute  b == t \div Minute
<1>1. a \in Nat /\ b \in Nat /\ Minute \in Nat \ {0}
  BY Rounding, ScheduleAssumption
<1>2. a * Minute \in Nat /\ b * Minute \in Nat
  BY <1>1
<1>3. a * Minute <= s /\ t < b * Minute + Minute
  BY Rounding, ScheduleAssumption
<1> HIDE DEF a, b
<1>4. CASE b * Minute < a * Minute
  <2>1. b * Minute + Minute <= a * Minute
    BY <1>1, <1>4, Multiples
  <2> QED
    BY <1>1, <1>2, <1>3, <2>1
<1> QED
  BY <1>2, <1>4 DEF Truncate, a, b

\* A fire time that computeNext gives is in a later minute than the time it
\* was given, and no more than a period away.
LEMMA NextIsLater ==
    ASSUME NEW p \in Plans, NEW t \in Nat
    PROVE  /\ ComputeNext(p, t) \in Nat
           /\ ComputeNext(p, t) <= t + p.every
           /\ ComputeNext(p, t) # Null => Truncate(t) + Minute <= ComputeNext(p, t)
<1>1. /\ p.kind \in {"manual", "interval", "cron"}
      /\ p.every \in Nat \ {0} /\ Minute \in Nat \ {0} /\ p.every >= Minute
      /\ p.kind = "cron" => p.every % Minute = 0
  BY ScheduleAssumption
<1>2. Truncate(t) \in Nat /\ Truncate(t) <= t
  BY TruncateIs
<1>3. CASE p.kind = "manual"
  BY <1>1, <1>3 DEF ComputeNext, Null
<1>4. CASE p.kind = "interval"
  BY <1>1, <1>2, <1>4 DEF ComputeNext, Null
<1>5. CASE p.kind = "cron"
  <2> DEFINE e == p.every  n == t \div e
  <2>1. n \in Nat /\ n * e \in Nat /\ n * e <= t /\ t < n * e + e
    BY <1>1, Rounding
  <2>2. ComputeNext(p, t) = (n + 1) * e
    BY <1>5 DEF ComputeNext
  <2>3. (n + 1) * e = n * e + e
    BY <1>1, <2>1
  <2>4. PICK k \in Nat : e = k * Minute
    <3>1. e \div Minute \in Nat /\ e = (e \div Minute) * Minute
      BY <1>1, <1>5
    <3> QED
      BY <3>1
  <2>5. (n + 1) * e = ((n + 1) * k) * Minute /\ (n + 1) * k \in Nat
    BY <1>1, <2>1, <2>4
  <2>6. t \div Minute \in Nat /\ (t \div Minute) * Minute <= t
    BY <1>1, Rounding
  <2>7. (t \div Minute) * Minute < ((n + 1) * k) * Minute
    BY <1>1, <2>1, <2>3, <2>5, <2>6
  <2>8. (t \div Minute) * Minute + Minute <= ((n + 1) * k) * Minute
    BY <1>1, <2>5, <2>6, <2>7, Multiples
  <2> HIDE DEF n
  <2> QED
    BY <1>1, <1>2, <2>1, <2>2, <2>3, <2>5, <2>8 DEF Truncate
<1> QED
  BY <1>1, <1>3, <1>4, <1>5

LEMMA TicksAre == /\ Ticks \subseteq Nat
                  /\ \A t \in 1..MaxTime : Truncate(t) \in Ticks
  BY TruncateIs, ScheduleAssumption DEF Ticks

-----------------------------------------------------------------------------
(* Type correctness. *)

LEMMA InitType == Init => TypeOK
<1> SUFFICES ASSUME Init PROVE TypeOK
  OBVIOUS
<1>1. next \in Nat /\ next <= 1 + plan.every
  BY NextIsLater DEF Init
<1>2. next <= MaxTime + plan.every
  BY <1>1, ScheduleAssumption DEF Init
<1>3. /\ now \in 1..MaxTime
      /\ runs \in [Ticks -> {"none", "queued", "running", "settled"}]
      /\ clock \in [Replicas -> 1..MaxTime]
      /\ edits \in 0..MaxEdits /\ faults \in 0..MaxFaults
  BY ScheduleAssumption DEF Init
<1>4. row \in [Replicas -> [plan : Plans, next : Nat]]
  BY DEF Init, Null
<1> QED
  BY <1>1, <1>2, <1>3, <1>4 DEF Init, TypeOK

LEMMA NextType ==
    ASSUME NEW p \in Plans, NEW t \in 1..MaxTime
    PROVE  ComputeNext(p, t) \in Nat /\ \E q \in Plans : ComputeNext(p, t) <= MaxTime + q.every
<1>1. MaxTime \in Nat /\ t \in Nat /\ t <= MaxTime /\ p.every \in Nat
  BY ScheduleAssumption
<1>2. ComputeNext(p, t) \in Nat /\ ComputeNext(p, t) <= t + p.every
  BY <1>1, NextIsLater
<1>3. ComputeNext(p, t) <= MaxTime + p.every
  BY <1>1, <1>2
<1> QED
  BY <1>2, <1>3

LEMMA StepType == TypeOK /\ [Next]_vars => TypeOK'
<1> SUFFICES ASSUME TypeOK, [Next]_vars PROVE TypeOK'
  OBVIOUS
<1> USE ScheduleAssumption
<1>1. ASSUME NEW r \in Replicas, FireDue(r) PROVE TypeOK'
  <2>1. CASE Poll(r)
    BY <2>1 DEF TypeOK, Poll, Goto, rows
  <2>2. CASE Disarm(r)
    <3>1. next' \in Nat /\ \E p \in Plans : next' <= MaxTime + p.every
      BY <2>2 DEF TypeOK, Disarm, Null
    <3> QED BY <2>2, <3>1 DEF TypeOK, Disarm, Goto
  <2>3. CASE ReadUnarmed(r)
    BY <2>3 DEF TypeOK, ReadUnarmed, Goto, rows
  <2>4. CASE Arm(r)
    <3>1. row[r].plan \in Plans /\ clock[r] \in 1..MaxTime
      BY DEF TypeOK
    <3>2. next' = next \/ next' = ComputeNext(row[r].plan, clock[r])
      BY <2>4 DEF Arm
    <3>3. next' \in Nat /\ \E p \in Plans : next' <= MaxTime + p.every
      <4>1. next \in Nat /\ \E p \in Plans : next <= MaxTime + p.every
        BY DEF TypeOK
      <4>2. CASE next' = next
        BY <4>1, <4>2
      <4>3. CASE next' = ComputeNext(row[r].plan, clock[r])
        BY <3>1, <4>3, NextType
      <4> QED
        BY <3>2, <4>2, <4>3
    <3> QED BY <2>4, <3>3 DEF TypeOK, Arm, Goto
  <2>5. CASE ReadDue(r)
    BY <2>5 DEF TypeOK, ReadDue, Goto, rows
  <2>6. CASE CheckOverlap(r)
    BY <2>6 DEF TypeOK, CheckOverlap, Goto, rows
  <2>7. CASE Enqueue(r)
    BY <2>7, TicksAre DEF TypeOK, Enqueue, Goto
  <2>8. CASE AdvanceSchedule(r)
    <3>1. row[r].plan \in Plans /\ clock[r] \in 1..MaxTime
      BY DEF TypeOK
    <3>2. next' = ComputeNext(row[r].plan, clock[r])
      BY <2>8 DEF AdvanceSchedule
    <3>3. next' \in Nat /\ \E p \in Plans : next' <= MaxTime + p.every
      BY <3>1, <3>2, NextType
    <3> QED BY <2>8, <3>3 DEF TypeOK, AdvanceSchedule, Goto
  <2> QED
    BY <1>1, <2>1, <2>2, <2>3, <2>4, <2>5, <2>6, <2>7, <2>8 DEF FireDue
<1>2. ASSUME NEW r \in Replicas, Crash(r) PROVE TypeOK'
  BY <1>2 DEF TypeOK, Crash, Fault, Goto, rows
<1>3. ASSUME NEW r \in Replicas, StatementFails(r) PROVE TypeOK'
  <2>1. AfterFailure(pc[r]) \in {"due", "enqueue", "idle"}
    BY DEF AfterFailure
  <2> QED
    BY <1>3, <2>1 DEF TypeOK, StatementFails, Fault, Goto, rows
<1>4. ASSUME NEW p \in Plans, NEW on \in BOOLEAN, UpsertSchedule(p, on) PROVE TypeOK'
  <2>1. next' = Null \/ next' = ComputeNext(p, now)
    BY <1>4 DEF UpsertSchedule
  <2>2. Null \in Nat /\ Null <= MaxTime + p.every
    BY DEF Null
  <2>3. now \in 1..MaxTime
    BY DEF TypeOK
  <2>4. next' \in Nat /\ \E q \in Plans : next' <= MaxTime + q.every
    BY <2>1, <2>2, <2>3, NextType
  <2> QED
    BY <1>4, <2>4 DEF TypeOK, UpsertSchedule, Edit, tickers
<1>5. CASE SwitchConnector
  BY <1>5 DEF TypeOK, SwitchConnector, Edit, tickers
<1>6. CASE SwitchRevision
  BY <1>6 DEF TypeOK, SwitchRevision, Edit, tickers
<1>7. ASSUME NEW t \in Ticks, RunMoves(t) PROVE TypeOK'
  BY <1>7 DEF TypeOK, RunMoves, tickers
<1>8. CASE Tick
  BY <1>8 DEF TypeOK, Tick, rows, tickers
<1>9. CASE UNCHANGED vars
  BY <1>9 DEF TypeOK, vars, rows, tickers
<1> QED
  BY <1>1, <1>2, <1>3, <1>4, <1>5, <1>6, <1>7, <1>8, <1>9 DEF Next

\* Every reachable state of the schedule and its tickers is well typed, and
\* next_fire_at is never further ahead than a period of some plan
\* (computeNext, AdvanceSchedule, UpsertSchedule), for any number of tickers.
THEOREM TypeCorrect == Spec => []TypeOK
  BY InitType, StepType, PTL DEF Spec

-----------------------------------------------------------------------------
(* Clocks. *)

LEMMA ClockStep ==
    ASSUME TypeOK, [Next]_vars, \A r \in Replicas : ClockInv(r)
    PROVE  \A r \in Replicas : ClockInv(r)'
<1> SUFFICES ASSUME NEW q \in Replicas PROVE ClockInv(q)'
  OBVIOUS
<1> USE DEF ClockInv
<1>1. ASSUME NEW r \in Replicas, FireDue(r) PROVE ClockInv(q)'
  <2>1. CASE Poll(r)
    BY <2>1 DEF TypeOK, Poll, Goto
  <2>2. CASE Disarm(r)
    BY <2>2 DEF TypeOK, Disarm, Goto
  <2>3. CASE ReadUnarmed(r)
    BY <2>3 DEF TypeOK, ReadUnarmed, Goto
  <2>4. CASE Arm(r)
    BY <2>4 DEF TypeOK, Arm, Goto
  <2>5. CASE ReadDue(r)
    BY <2>5 DEF TypeOK, ReadDue, Goto, Due
  <2>6. CASE CheckOverlap(r)
    BY <2>6 DEF TypeOK, CheckOverlap, Goto
  <2>7. CASE Enqueue(r)
    BY <2>7 DEF TypeOK, Enqueue, Goto
  <2>8. CASE AdvanceSchedule(r)
    BY <2>8 DEF TypeOK, AdvanceSchedule, Goto
  <2> QED
    BY <1>1, <2>1, <2>2, <2>3, <2>4, <2>5, <2>6, <2>7, <2>8 DEF FireDue
<1>2. ASSUME NEW r \in Replicas, Crash(r) PROVE ClockInv(q)'
  BY <1>2 DEF TypeOK, Crash, Goto
<1>3. ASSUME NEW r \in Replicas, StatementFails(r) PROVE ClockInv(q)'
  <2>1. AfterFailure(pc[r]) \in {"overlap", "enqueue"} => pc[r] = "overlap"
    BY DEF AfterFailure
  <2> QED
    BY <1>3, <2>1 DEF TypeOK, StatementFails, Goto
<1>4. ASSUME NEW p \in Plans, NEW on \in BOOLEAN, UpsertSchedule(p, on) PROVE ClockInv(q)'
  BY <1>4 DEF UpsertSchedule, tickers
<1>5. CASE SwitchConnector \/ SwitchRevision
  BY <1>5 DEF SwitchConnector, SwitchRevision, tickers
<1>6. ASSUME NEW t \in Ticks, RunMoves(t) PROVE ClockInv(q)'
  BY <1>6 DEF RunMoves, tickers
<1>7. CASE Tick
  BY <1>7 DEF TypeOK, Tick, tickers
<1>8. CASE UNCHANGED vars
  BY <1>8 DEF vars, tickers
<1> QED
  BY <1>1, <1>2, <1>3, <1>4, <1>5, <1>6, <1>7, <1>8 DEF Next

-----------------------------------------------------------------------------
(* The next fire is in a later minute than every run. *)

\* A step that leaves the runs alone, sets no fire time but one that computeNext
\* gives for a time not before the ticker's clock, and moves the ticker to no
\* place that promises more.
LEMMA AheadKept ==
    ASSUME TypeOK, NEW r \in Replicas, AheadInv(r), Used' = Used,
           clock[r] \in Nat, clock'[r] \in Nat, clock[r] <= clock'[r],
           \/ next' = next /\ (pc'[r] # "advance" => pc[r] # "advance")
           \/ next' = Null
           \/ \E p \in Plans, t \in Nat : clock[r] <= t /\ next' = ComputeNext(p, t),
           pc'[r] \in {"overlap", "enqueue"} =>
               \/ pc[r] \in {"overlap", "enqueue"} /\ row'[r].next = row[r].next
               \/ pc[r] = "due" /\ next # Null /\ row'[r].next = next
    PROVE  AheadInv(r)'
<1>1. Used \subseteq Nat /\ Minute \in Nat
  BY TicksAre, ScheduleAssumption DEF Used
<1>2. Truncate(clock[r]) \in Nat /\ Truncate(clock'[r]) \in Nat
      /\ Truncate(clock[r]) <= Truncate(clock'[r])
  BY TruncateIs, TruncateMonotone
<1>3. \A t \in Used' : t <= Truncate(clock[r])'
  <2>1. Truncate(clock[r])' = Truncate(clock'[r])
    BY DEF Truncate
  <2> QED
    BY <1>1, <1>2, <2>1 DEF AheadInv
<1>4. pc'[r] # "advance" /\ next' # Null => \A t \in Used' : t + Minute <= next'
  <2>1. CASE next' = next /\ (pc'[r] # "advance" => pc[r] # "advance")
    BY <2>1 DEF AheadInv
  <2>2. CASE \E p \in Plans, t \in Nat : clock[r] <= t /\ next' = ComputeNext(p, t)
    <3>1. PICK p \in Plans, t \in Nat : clock[r] <= t /\ next' = ComputeNext(p, t)
      BY <2>2
    <3>2. Truncate(t) \in Nat /\ Truncate(clock[r]) <= Truncate(t)
      BY <3>1, TruncateIs, TruncateMonotone
    <3>3. next' \in Nat /\ (next' # Null => Truncate(t) + Minute <= next')
      BY <3>1, NextIsLater
    <3> QED
      BY <1>1, <1>2, <3>2, <3>3 DEF AheadInv
  <2> QED
    BY <2>1, <2>2
<1>5. pc'[r] \in {"overlap", "enqueue"} => \A t \in Used' : t + Minute <= row'[r].next
  BY DEF AheadInv
<1> QED
  BY <1>3, <1>4, <1>5 DEF AheadInv, Null

\* An undisturbed ticker finds its minute free: every run so far is of an earlier
\* minute than the fire time it serves, which has come.
LEMMA MinuteIsFree ==
    ASSUME TypeOK, NEW r \in Replicas, ClockInv(r), AheadInv(r), pc[r] = "enqueue"
    PROVE  /\ Truncate(clock[r]) \notin Used
           /\ row[r].next < Truncate(clock[r]) + Minute
<1>1. clock[r] \in Nat /\ row[r].next \in Nat /\ Minute \in Nat
  BY ScheduleAssumption DEF TypeOK
<1>2. clock[r] < Truncate(clock[r]) + Minute /\ Truncate(clock[r]) \in Nat
  BY <1>1, TruncateIs
<1> QED
  BY <1>1, <1>2 DEF ClockInv, AheadInv

LEMMA AheadStep ==
    ASSUME OneTicker, TypeOK, TypeOK', [Next]_vars, faults' = 0,
           \A r \in Replicas : ClockInv(r),
           faults = 0 => FiredInv /\ \A r \in Replicas : AheadInv(r)
    PROVE  FiredInv' /\ \A r \in Replicas : AheadInv(r)'
<1>1. faults = 0 /\ \A r \in Replicas : ~Crash(r) /\ ~StatementFails(r)
  <2>1. faults \in Nat
    BY ScheduleAssumption DEF TypeOK
  <2>2. \A r \in Replicas : ~Crash(r) /\ ~StatementFails(r)
    BY <2>1 DEF Crash, StatementFails, Fault
  <2> QED
    BY <2>2 DEF Next, FireDue, Poll, Disarm, ReadUnarmed, Arm, ReadDue, CheckOverlap, Enqueue,
        AdvanceSchedule, UpsertSchedule, SwitchConnector, SwitchRevision, RunMoves, Tick, vars
<1>2. FiredInv /\ \A r \in Replicas : AheadInv(r)
  BY <1>1
<1>3. ASSUME UNCHANGED fired, Used' = Used PROVE FiredInv'
  BY <1>2, <1>3 DEF FiredInv
<1>4. \A r \in Replicas : clock[r] \in Nat /\ clock'[r] \in Nat
  BY DEF TypeOK
<1>5. UNCHANGED runs => Used' = Used
  BY DEF Used
<1>6. ASSUME NEW r \in Replicas, FireDue(r) PROVE FiredInv' /\ \A q \in Replicas : AheadInv(q)'
  <2>1. SUFFICES FiredInv' /\ AheadInv(r)'
    BY DEF OneTicker
  <2>2. AheadInv(r) /\ ClockInv(r)
    BY <1>2
  <2>3. CASE Poll(r)
    <3>1. clock[r] <= clock'[r]
      BY <2>2, <2>3 DEF Poll, ClockInv, TypeOK
    <3> QED
      BY <1>3, <1>4, <1>5, <2>2, <2>3, <3>1, AheadKept DEF Poll, Goto, rows, TypeOK
  <2>4. CASE Disarm(r)
    BY <1>3, <1>4, <1>5, <2>2, <2>4, AheadKept DEF Disarm, Goto, TypeOK
  <2>5. CASE ReadUnarmed(r)
    BY <1>3, <1>4, <1>5, <2>2, <2>5, AheadKept DEF ReadUnarmed, Goto, rows, TypeOK
  <2>6. CASE Arm(r)
    <3>1. row[r].plan \in Plans
      BY DEF TypeOK
    <3> QED
      BY <1>3, <1>4, <1>5, <2>2, <2>6, <3>1, AheadKept DEF Arm, Goto, TypeOK
  <2>7. CASE ReadDue(r)
    BY <1>3, <1>4, <1>5, <2>2, <2>7, AheadKept DEF ReadDue, Due, Goto, rows, TypeOK
  <2>8. CASE CheckOverlap(r)
    BY <1>3, <1>4, <1>5, <2>2, <2>8, AheadKept DEF CheckOverlap, Goto, rows, TypeOK
  <2>9. CASE Enqueue(r)
    <3> DEFINE t0 == Truncate(clock[r])
    <3>1. t0 \in Ticks /\ t0 \in Nat /\ Minute \in Nat
      BY TicksAre, ScheduleAssumption DEF TypeOK
    <3>2. t0 \notin Used /\ row[r].next < t0 + Minute
      BY <2>2, <2>9, MinuteIsFree DEF Enqueue
    <3>3. runs[t0] = "none"
      BY <3>1, <3>2 DEF Used
    <3>4. runs' = [runs EXCEPT ![t0] = "queued"] /\ fired' = fired \cup {[due |-> row[r].next, tick |-> t0]}
      BY <2>9, <3>3 DEF Enqueue
    <3> HIDE DEF t0
    <3>5. Used' = Used \cup {t0}
      BY <3>1, <3>4 DEF Used, TypeOK
    <3>6. AheadInv(r)'
      <4>1. pc'[r] = "advance" /\ clock' = clock
        BY <2>9 DEF Enqueue, Goto, TypeOK
      <4>2. \A t \in Used' : t <= Truncate(clock[r])
        BY <2>2, <3>1, <3>5 DEF AheadInv, t0
      <4> QED
        BY <4>1, <4>2 DEF AheadInv, Truncate
    <3>7. \A f \in fired : f.due < row[r].next
      <4> SUFFICES ASSUME NEW f \in fired PROVE f.due < row[r].next
        OBVIOUS
      <4>1. f.due \in Nat /\ f.tick \in Nat /\ row[r].next \in Nat
        BY TicksAre DEF TypeOK
      <4>2. f.tick \in Used /\ f.due < f.tick + Minute
        BY <1>2 DEF FiredInv
      <4>3. f.tick + Minute <= row[r].next
        BY <2>2, <2>9, <4>2 DEF AheadInv, Enqueue
      <4> QED
        BY <3>1, <4>1, <4>2, <4>3
    <3>8. FiredInv'
      <4>1. \A f \in fired' : f.tick \in Used' /\ f.due < f.tick + Minute
        BY <1>2, <3>2, <3>4, <3>5 DEF FiredInv
      <4>2. \A f \in fired : f.due \in Nat
        BY DEF TypeOK
      <4>3. row[r].next \in Nat
        BY DEF TypeOK
      <4>4. \A f, g \in fired' : f.due = g.due => f = g
        BY <1>2, <3>4, <3>7, <4>2, <4>3 DEF FiredInv
      <4> QED
        BY <4>1, <4>4 DEF FiredInv
    <3> QED
      BY <3>6, <3>8
  <2>10. CASE AdvanceSchedule(r)
    <3>1. row[r].plan \in Plans
      BY DEF TypeOK
    <3> QED
      BY <1>3, <1>4, <1>5, <2>2, <2>10, <3>1, AheadKept DEF AdvanceSchedule, Goto, TypeOK
  <2> QED
    BY <1>6, <2>3, <2>4, <2>5, <2>6, <2>7, <2>8, <2>9, <2>10 DEF FireDue
<1>7. ASSUME NEW p \in Plans, NEW on \in BOOLEAN, UpsertSchedule(p, on)
      PROVE  FiredInv' /\ \A q \in Replicas : AheadInv(q)'
  <2>1. now \in Nat
    BY DEF TypeOK
  <2>2. \A q \in Replicas : clock[q] <= now
    BY DEF ClockInv
  <2> QED
    BY <1>2, <1>3, <1>4, <1>5, <1>7, <2>1, <2>2, AheadKept DEF UpsertSchedule, tickers
<1>8. CASE SwitchConnector \/ SwitchRevision
  BY <1>2, <1>3, <1>4, <1>5, <1>8, AheadKept DEF SwitchConnector, SwitchRevision, tickers
<1>9. ASSUME NEW t \in Ticks, RunMoves(t) PROVE FiredInv' /\ \A q \in Replicas : AheadInv(q)'
  <2>1. Used' = Used
    BY <1>9 DEF RunMoves, Used, TypeOK
  <2> QED
    BY <1>2, <1>3, <1>4, <1>9, <2>1, AheadKept DEF RunMoves, tickers
<1>10. CASE Tick
  BY <1>2, <1>3, <1>4, <1>5, <1>10, AheadKept DEF Tick, rows, tickers
<1>11. CASE UNCHANGED vars
  BY <1>2, <1>3, <1>4, <1>5, <1>11, AheadKept DEF vars, rows, tickers
<1> QED
  BY <1>1, <1>6, <1>7, <1>8, <1>9, <1>10, <1>11 DEF Next

-----------------------------------------------------------------------------
(* Overlap. *)

LEMMA CheckedStep ==
    ASSUME OneTicker, TypeOK, [Next]_vars, CheckedInv
    PROVE  CheckedInv'
<1> SUFFICES ASSUME Policy = "skip", ~blind'
             PROVE  /\ \A s, t \in Active' : s = t
                    /\ \A r \in Replicas : pc'[r] = "enqueue" => Active' = {}
  BY DEF CheckedInv
<1>1. ~blind
  BY DEF Next, FireDue, Poll, Disarm, ReadUnarmed, Arm, ReadDue, CheckOverlap, Enqueue, Crash, StatementFails,
      AdvanceSchedule, UpsertSchedule, SwitchConnector, SwitchRevision, RunMoves, Tick, vars, TypeOK
<1>2. /\ \A s, t \in Active : s = t
      /\ \A r \in Replicas : pc[r] = "enqueue" => Active = {}
  BY <1>1 DEF CheckedInv
<1>3. UNCHANGED runs => Active' = Active
  BY DEF Active
<1>4. ASSUME NEW r \in Replicas, FireDue(r) \/ Crash(r) \/ StatementFails(r), UNCHANGED runs,
             pc' = [pc EXCEPT ![r] = pc'[r]],
             pc'[r] = "enqueue" => Active = {}
      PROVE  /\ \A s, t \in Active' : s = t
             /\ \A q \in Replicas : pc'[q] = "enqueue" => Active' = {}
  BY <1>2, <1>3, <1>4 DEF OneTicker
<1>5. ASSUME NEW r \in Replicas, FireDue(r)
      PROVE  /\ \A s, t \in Active' : s = t
             /\ \A q \in Replicas : pc'[q] = "enqueue" => Active' = {}
  <2>1. CASE Poll(r) \/ Disarm(r) \/ ReadUnarmed(r) \/ Arm(r) \/ ReadDue(r) \/ AdvanceSchedule(r)
    <3>1. UNCHANGED runs /\ pc' = [pc EXCEPT ![r] = pc'[r]] /\ pc'[r] # "enqueue"
      BY <2>1 DEF Poll, Disarm, ReadUnarmed, Arm, ReadDue, AdvanceSchedule, Goto, rows, TypeOK
    <3> QED
      BY <1>4, <1>5, <3>1
  <2>2. CASE CheckOverlap(r)
    <3>1. UNCHANGED runs /\ pc' = [pc EXCEPT ![r] = pc'[r]]
      BY <2>2 DEF CheckOverlap, Goto, rows, TypeOK
    <3>2. pc'[r] = "enqueue" => ~HasActiveRun
      BY <2>2 DEF CheckOverlap, Goto, TypeOK
    <3>3. ~HasActiveRun => Active = {}
      BY DEF HasActiveRun, Active
    <3> QED
      BY <1>4, <1>5, <3>1, <3>2, <3>3
  <2>3. CASE Enqueue(r)
    <3>1. Active = {} /\ pc'[r] = "advance"
      BY <1>2, <2>3 DEF Enqueue, Goto, TypeOK
    <3>2. \A t \in Ticks \ {Truncate(clock[r])} : runs'[t] = runs[t]
      BY <2>3 DEF Enqueue, TypeOK
    <3>3. Active' \subseteq {Truncate(clock[r])}
      BY <3>1, <3>2 DEF Active
    <3> QED
      BY <3>1, <3>3 DEF OneTicker
  <2> QED
    BY <1>5, <2>1, <2>2, <2>3 DEF FireDue
<1>6. ASSUME NEW r \in Replicas, Crash(r)
      PROVE  /\ \A s, t \in Active' : s = t
             /\ \A q \in Replicas : pc'[q] = "enqueue" => Active' = {}
  <2>1. UNCHANGED runs /\ pc' = [pc EXCEPT ![r] = pc'[r]] /\ pc'[r] # "enqueue"
    BY <1>6 DEF Crash, Goto, rows, TypeOK
  <2> QED
    BY <1>4, <1>6, <2>1
<1>7. ASSUME NEW r \in Replicas, StatementFails(r)
      PROVE  /\ \A s, t \in Active' : s = t
             /\ \A q \in Replicas : pc'[q] = "enqueue" => Active' = {}
  <2>1. pc[r] # "overlap"
    BY <1>7 DEF StatementFails
  <2>2. AfterFailure(pc[r]) # "enqueue"
    BY <2>1 DEF AfterFailure
  <2>3. UNCHANGED runs /\ pc' = [pc EXCEPT ![r] = pc'[r]] /\ pc'[r] # "enqueue"
    BY <1>7, <2>2 DEF StatementFails, Goto, rows, TypeOK
  <2> QED
    BY <1>4, <1>7, <2>3
<1>8. ASSUME NEW t0 \in Ticks, RunMoves(t0)
      PROVE  /\ \A s, t \in Active' : s = t
             /\ \A q \in Replicas : pc'[q] = "enqueue" => Active' = {}
  <2>1. Active' \subseteq Active /\ UNCHANGED pc
    BY <1>8 DEF RunMoves, Active, tickers, TypeOK
  <2> QED
    BY <1>2, <2>1
<1>9. ASSUME UNCHANGED runs, UNCHANGED pc
      PROVE  /\ \A s, t \in Active' : s = t
             /\ \A q \in Replicas : pc'[q] = "enqueue" => Active' = {}
  BY <1>2, <1>3, <1>9
<1> QED
  BY <1>5, <1>6, <1>7, <1>8, <1>9
  DEF Next, UpsertSchedule, SwitchConnector, SwitchRevision, Tick, vars, rows, tickers

-----------------------------------------------------------------------------
(* What one ticker guarantees. *)

LEMMA InitInv == Init => ScheduleInv
<1> SUFFICES ASSUME Init PROVE ScheduleInv
  OBVIOUS
<1>1. Used = {} /\ Active = {} /\ fired = {}
  BY DEF Init, Used, Active
<1>2. \A r \in Replicas : ClockInv(r) /\ AheadInv(r)
  BY <1>1 DEF Init, ClockInv, AheadInv
<1> QED
  BY <1>1, <1>2, InitType DEF ScheduleInv, FiredInv, CheckedInv

LEMMA StepInv ==
    ASSUME OneTicker
    PROVE  ScheduleInv /\ [Next]_vars => ScheduleInv'
<1> SUFFICES ASSUME ScheduleInv, [Next]_vars PROVE ScheduleInv'
  OBVIOUS
<1>1. TypeOK /\ TypeOK'
  BY StepType DEF ScheduleInv
<1>2. \A r \in Replicas : ClockInv(r)'
  BY <1>1, ClockStep DEF ScheduleInv
<1>3. faults' = 0 => FiredInv' /\ \A r \in Replicas : AheadInv(r)'
  BY <1>1, AheadStep DEF ScheduleInv
<1>4. CheckedInv'
  BY <1>1, CheckedStep DEF ScheduleInv
<1> QED
  BY <1>1, <1>2, <1>3, <1>4 DEF ScheduleInv

LEMMA AlwaysInv ==
    ASSUME OneTicker
    PROVE  Spec => []ScheduleInv
  BY InitInv, StepInv, PTL DEF Spec

\* One ticker whose polls meet no failure enqueues one run at most for a fire
\* time, whatever users save while it polls and however late it comes round
\* (fireDue, although a run is named after the minute of the poll).
THEOREM FiresOnce ==
    ASSUME OneTicker
    PROVE  Spec => []FireOncePerDue
<1>1. ScheduleInv => FireOncePerDue
  BY DEF ScheduleInv, FiredInv, FireOncePerDue
<1> QED
  BY <1>1, AlwaysInv, PTL

\* The unique index on the minute never swallows a run of one undisturbed
\* ticker: the minute it enqueues for is still free (Store.Enqueue).
THEOREM NothingSwallowed ==
    ASSUME OneTicker
    PROVE  Spec => []IndexSwallowsNothing
<1>1. ASSUME ScheduleInv PROVE IndexSwallowsNothing
  <2> SUFFICES ASSUME faults = 0, NEW r \in Replicas, pc[r] = "enqueue"
               PROVE  runs[Truncate(clock[r])] = "none"
    BY DEF IndexSwallowsNothing
  <2>1. TypeOK /\ ClockInv(r) /\ AheadInv(r)
    BY <1>1 DEF ScheduleInv
  <2>2. Truncate(clock[r]) \notin Used /\ Truncate(clock[r]) \in Ticks
    BY <2>1, MinuteIsFree, TicksAre DEF TypeOK
  <2> QED
    BY <2>2 DEF Used
<1> QED
  BY <1>1, AlwaysInv, PTL

\* Under overlap policy "skip" the scheduled runs of one ticker never overlap,
\* through crashes and failed statements, unless the check for an active run
\* itself failed (fireDue, HasActiveRun).
THEOREM RunsDoNotOverlap ==
    ASSUME OneTicker
    PROVE  Spec => []NoOverlap
<1>1. ASSUME ScheduleInv PROVE NoOverlap
  <2> SUFFICES ASSUME Policy = "skip", ~blind PROVE Cardinality(Active) <= 1
    BY DEF NoOverlap
  <2>1. \A s, t \in Active : s = t
    BY <1>1 DEF ScheduleInv, CheckedInv
  <2>2. CASE Active = {}
    BY <2>2, FS_EmptySet
  <2>3. ASSUME NEW t \in Active PROVE Cardinality(Active) <= 1
    <3>1. Active = {t}
      BY <2>1
    <3>2. Cardinality({t}) = 1
      BY FS_Singleton
    <3> QED
      BY <3>1, <3>2
  <2> QED
    BY <2>2, <2>3
<1> QED
  BY <1>1, AlwaysInv, PTL

=============================================================================

--------------------------- MODULE RecalcQueueProofs ---------------------------
(***************************************************************************)
(* Theorems about RecalcQueue, for every number of gateways, requests,     *)
(* metrics, cells and failures, and every workload.                        *)
(***************************************************************************)
EXTENDS RecalcQueue, TLAPS

-----------------------------------------------------------------------------
(* Type correctness. *)

LEMMA InitType == Init => TypeOK
  BY RecalcAssumption
  DEF Init, TypeOK, NoBatch, BatchType, Statuses, Verdicts, Places, NoOne

LEMMA FaultType ==
    ASSUME TypeOK, NEW kind, Fault(kind)
    PROVE  budget' \in 0..MaxFaults
  BY RecalcAssumption DEF TypeOK, Fault

LEMMA AskTyped ==
    ASSUME TypeOK, NEW r \in Requests
    PROVE  /\ ask[r] \in AskType
           /\ ask[r].ids \in SUBSET Metrics
           /\ ask[r].cells \in SUBSET Cells
           /\ GatewayOf[r] \in Gateways
  BY RecalcAssumption DEF TypeOK, AskType

LEMMA JoinType ==
    ASSUME NEW b \in BatchType, NEW a \in AskType
    PROVE  Join(b, a) \in BatchType
  BY DEF BatchType, AskType, Join

LEMMA TakeType ==
    ASSUME TypeOK, NEW r \in Requests, NEW b \in BatchType, Take(r, b)
    PROVE  /\ running' \in [Gateways -> BOOLEAN]
           /\ taken' \in [Gateways -> BatchType]
           /\ batch' \in [Gateways -> BatchType]
           /\ next' \in [Gateways -> Nat \ {0}]
           /\ stage' \in [Gateways -> {"none", "lock", "plan", "calc"}]
           /\ pc' \in [Requests -> Places]
<1>1. GatewayOf[r] \in Gateways
  BY RecalcAssumption
<1>2. NoBatch \in BatchType
  BY DEF NoBatch, BatchType
<1> QED
  BY <1>1, <1>2 DEF Take, Goto, TypeOK, Places

LEMMA KeptType ==
    ASSUME TypeOK, NEW g \in Gateways
    PROVE  /\ next[g] - 1 \in Nat
           /\ Kept(g, next[g] - 1) \in SUBSET Nat
<1>1. next[g] \in Nat \ {0} /\ failed[g] \in SUBSET Nat
  BY DEF TypeOK
<1>2. next[g] - 1 \in Nat
  BY <1>1
<1> QED
  BY <1>1, <1>2 DEF Kept

LEMMA EndPassType ==
    ASSUME TypeOK, NEW g \in Gateways, NEW how \in Verdicts, EndPass(g, how),
           budget' \in 0..MaxFaults
    PROVE  TypeOK'
<1>1. failed' \in [Gateways -> SUBSET Nat] /\ last' \in [Gateways -> Nat]
  BY KeptType DEF EndPass, TypeOK
<1>2. pc' \in [Requests -> Places] /\ verdict' \in [Requests -> Verdicts]
  BY DEF EndPass, TypeOK, Places
<1>3. err' \in [Requests -> BOOLEAN]
  BY DEF EndPass, TypeOK
<1>4. lock' \in Gateways \cup {NoOne}
  BY DEF EndPass, TypeOK
<1>5. NoBatch \in BatchType
  BY DEF NoBatch, BatchType
<1> QED
  BY <1>1, <1>2, <1>3, <1>4, <1>5 DEF EndPass, TypeOK

LEMMA StoreType ==
    ASSUME TypeOK, NEW g \in Gateways, NEW m \in Metrics,
           UNCHANGED stored \/ \E read \in {seen[g], wrote} : Store(g, m, read)
    PROVE  stored' \in [Metrics -> [Cells -> SUBSET Requests]]
<1>1. CASE UNCHANGED stored
  BY <1>1 DEF TypeOK
<1>2. ASSUME NEW read \in {seen[g], wrote}, Store(g, m, read)
      PROVE  stored' \in [Metrics -> [Cells -> SUBSET Requests]]
  <2>1. read \in SUBSET Requests
    BY DEF TypeOK
  <2>2. [c \in Cells |-> IF c \in Region(g, m) THEN read ELSE stored[m][c]]
        \in [Cells -> SUBSET Requests]
    BY <2>1 DEF TypeOK
  <2> QED
    BY <1>2, <2>2 DEF Store, TypeOK
<1> QED
  BY <1>1, <1>2

LEMMA StepType == TypeOK /\ [Next]_vars => TypeOK'
<1> SUFFICES ASSUME TypeOK, [Next]_vars PROVE TypeOK'
  OBVIOUS
<1> USE DEF dbVars, queueVars, passVars, reqVars
<1>1. ASSUME NEW r \in Requests, Write(r) PROVE TypeOK'
  <2>1. raced' \in SUBSET Requests
    BY <1>1 DEF Write, TypeOK
  <2> QED
    BY <1>1, <2>1 DEF Write, Goto, TypeOK, Statuses, Places
<1>2. ASSUME NEW r \in Requests, Mark(r) PROVE TypeOK'
  BY <1>2 DEF Mark, Goto, TypeOK, Places
<1>3. ASSUME NEW r \in Requests, MarkFails(r) PROVE TypeOK'
  BY <1>3, FaultType DEF MarkFails, Goto, TypeOK, Places
<1>4. ASSUME NEW r \in Requests, LoadFails(r) PROVE TypeOK'
  BY <1>4, FaultType DEF LoadFails, Goto, TypeOK, Places
<1>5. ASSUME NEW r \in Requests, Enter(r) PROVE TypeOK'
  <2> DEFINE g == GatewayOf[r]
             b == Join(batch[g], ask[r])
  <2>1. g \in Gateways /\ b \in BatchType
    BY AskTyped, JoinType DEF TypeOK
  <2>2. mine' \in [Requests -> Nat]
    BY <1>5, <2>1 DEF Enter, TypeOK, Turn
  <2>3. CASE Take(r, b)
    BY <1>5, <2>1, <2>2, <2>3, TakeType DEF Enter, TypeOK
  <2>4. CASE batch' = [batch EXCEPT ![g] = b] /\ Goto(r, "wait")
             /\ UNCHANGED <<running, next, stage, taken>>
    BY <1>5, <2>1, <2>2, <2>4 DEF Enter, TypeOK, Goto, Places
  <2> QED
    BY <1>5, <2>3, <2>4 DEF Enter
<1>6. ASSUME NEW r \in Requests, Return(r) PROVE TypeOK'
  <2>1. err' \in [Requests -> BOOLEAN]
    BY <1>6 DEF Return, TypeOK
  <2> QED
    BY <1>6, <2>1 DEF Return, Goto, TypeOK, Places
<1>7. ASSUME NEW r \in Requests, WaitOn(r) PROVE TypeOK'
  BY <1>7 DEF WaitOn, Goto, TypeOK, Places
<1>8. ASSUME NEW r \in Requests, RunNext(r) PROVE TypeOK'
  <2>1. batch[GatewayOf[r]] \in BatchType
    BY AskTyped DEF TypeOK
  <2> QED
    BY <1>8, <2>1, TakeType DEF RunNext, TypeOK
<1>9. ASSUME NEW r \in Requests, Finish(r) PROVE TypeOK'
  BY <1>9 DEF Finish, Leave, Raise, Goto, TypeOK, Places
<1>10. ASSUME NEW r \in Requests, FinishFails(r) PROVE TypeOK'
  BY <1>10, FaultType DEF FinishFails, Leave, Goto, TypeOK, Places
<1>11. ASSUME NEW g \in Gateways, Lock(g) PROVE TypeOK'
  BY <1>11 DEF Lock, TypeOK
<1>12. ASSUME NEW g \in Gateways, Plan(g) PROVE TypeOK'
  <2>1. taken[g].ids \in SUBSET Metrics
    BY DEF TypeOK, BatchType
  <2> QED
    BY <1>12, <2>1 DEF Plan, TypeOK
<1>13. ASSUME NEW g \in Gateways, TimesOut(g) PROVE TypeOK'
  BY <1>13, FaultType DEF TimesOut, TypeOK
<1>14. ASSUME NEW g \in Gateways, LockFails(g) \/ PlanFails(g) \/ Panics(g) \/ PassEnds(g)
       PROVE  TypeOK'
  <2>1. budget' \in 0..MaxFaults
    BY <1>14, FaultType DEF LockFails, PlanFails, Panics, PassEnds, TypeOK
  <2>2. PICK how \in Verdicts : EndPass(g, how)
    BY <1>14 DEF LockFails, PlanFails, Panics, PassEnds, Verdicts
  <2> QED
    BY <2>1, <2>2, EndPassType
<1>15. ASSUME NEW g \in Gateways, NEW m \in Metrics, Begin(g, m) PROVE TypeOK'
  BY <1>15 DEF Begin, TypeOK, Statuses
<1>16. ASSUME NEW g \in Gateways, NEW m \in Metrics, Skip(g, m) PROVE TypeOK'
  <2>1. budget' \in 0..MaxFaults
    BY <1>16, FaultType DEF Skip, TypeOK
  <2> QED
    BY <1>16, <2>1 DEF Skip, TypeOK
<1>17. ASSUME NEW g \in Gateways, NEW m \in Metrics, Complete(g, m) PROVE TypeOK'
  <2>1. stored' \in [Metrics -> [Cells -> SUBSET Requests]]
    BY <1>17, StoreType DEF Complete
  <2> QED
    BY <1>17, <2>1 DEF Complete, TypeOK, Statuses
<1>18. ASSUME NEW g \in Gateways, NEW m \in Metrics, Errs(g, m) PROVE TypeOK'
  <2>1. stored' \in [Metrics -> [Cells -> SUBSET Requests]]
    BY <1>18, StoreType DEF Errs
  <2> QED
    BY <1>18, <2>1 DEF Errs, TypeOK, Statuses
<1>19. ASSUME NEW g \in Gateways, NEW m \in Metrics, Unrecorded(g, m) PROVE TypeOK'
  <2>1. stored' \in [Metrics -> [Cells -> SUBSET Requests]]
    BY <1>19, StoreType DEF Unrecorded
  <2>2. budget' \in 0..MaxFaults
    BY <1>19, FaultType DEF Unrecorded, TypeOK
  <2> QED
    BY <1>19, <2>1, <2>2 DEF Unrecorded, TypeOK
<1>20. ASSUME NEW g \in Gateways, Crash(g) PROVE TypeOK'
  <2>1. NoBatch \in BatchType
    BY DEF NoBatch, BatchType
  <2>2. /\ pc' \in [Requests -> Places] /\ mine' \in [Requests -> Nat]
        /\ lock' \in Gateways \cup {NoOne}
    BY <1>20 DEF Crash, TypeOK, Places
  <2>3. err' \in [Requests -> BOOLEAN]
    BY <1>20 DEF Crash, TypeOK
  <2> QED
    BY <1>20, <2>1, <2>2, <2>3, FaultType DEF Crash, TypeOK
<1>21. CASE UNCHANGED vars
  BY <1>21 DEF vars, TypeOK
<1> QED
  BY <1>1, <1>2, <1>3, <1>4, <1>5, <1>6, <1>7, <1>8, <1>9, <1>10, <1>11, <1>12, <1>13,
     <1>14, <1>15, <1>16, <1>17, <1>18, <1>19, <1>20, <1>21
  DEF Next, Call, Loop, Work

\* The fields and columns keep their shape whatever the callers, the passes
\* and the failures do, for any number of them.
THEOREM TypeCorrect == Spec => []TypeOK
  BY InitType, StepType, PTL DEF Spec

-----------------------------------------------------------------------------
(* The queue. *)

\* The four ways a pass ends.
LEMMA PassOver ==
    ASSUME NEW g \in Gateways, LockFails(g) \/ PlanFails(g) \/ Panics(g) \/ PassEnds(g)
    PROVE  \E how \in Verdicts \ {"none"} :
             /\ EndPass(g, how)
             /\ stage[g] # "none"
             /\ how = "ok" => stage[g] = "calc" /\ left[g] = {} /\ doing[g] = {} /\ ~short[g]
  BY DEF LockFails, PlanFails, Panics, PassEnds, Verdicts

LEMMA QueueInit == Init => QueueInv
  BY RecalcAssumption DEF Init, QueueInv, Queued

LEMMA QueueStep == TypeOK /\ QueueInv /\ [Next]_vars => QueueInv'
<1> SUFFICES ASSUME TypeOK, QueueInv, [Next]_vars PROVE QueueInv'
  OBVIOUS
<1> USE DEF dbVars, queueVars, passVars, reqVars
<1>1. ASSUME UNCHANGED <<wrote, running, next, last, pc, mine, verdict>>,
             \A g \in Gateways : stage'[g] = "none" <=> stage[g] = "none"
      PROVE  QueueInv'
  BY <1>1 DEF QueueInv, Queued
<1>2. ASSUME NEW r \in Requests, NEW place \in {"mark", "load", "finish", "over"},
             Goto(r, place), pc[r] # "run",
             pc[r] \in {"idle", "mark", "load"} \/ place \in {"finish", "over"},
             \A q \in Requests : q # r => mine'[q] = mine[q],
             wrote \subseteq wrote', r \in wrote',
             UNCHANGED <<running, next, last, stage, verdict>>
      PROVE  QueueInv'
  BY <1>2 DEF QueueInv, Queued, Goto, TypeOK
<1>3. ASSUME NEW r \in Requests, Enter(r) PROVE QueueInv'
  <2> DEFINE g == GatewayOf[r]
  <2>1. g \in Gateways /\ mine' = [mine EXCEPT ![r] = next[g]] /\ verdict[r] = "none" /\ pc[r] = "load"
        /\ UNCHANGED <<wrote, last, verdict>> /\ r \in wrote
    BY <1>3, RecalcAssumption DEF Enter, Turn, QueueInv
  <2>2. CASE running[g] /\ Goto(r, "wait") /\ UNCHANGED <<running, next, stage>>
    BY <2>1, <2>2 DEF QueueInv, Queued, Goto, TypeOK
  <2>3. CASE ~running[g] /\ Take(r, Join(batch[g], ask[r]))
    BY <2>1, <2>3, RecalcAssumption DEF QueueInv, Queued, Take, Goto, TypeOK
  <2> QED
    BY <1>3, <2>2, <2>3 DEF Enter
<1>4. ASSUME NEW r \in Requests, WaitOn(r) PROVE QueueInv'
  BY <1>4 DEF WaitOn, QueueInv, Queued, Goto, TypeOK
<1>5. ASSUME NEW r \in Requests, RunNext(r) PROVE QueueInv'
  <2> DEFINE g == GatewayOf[r]
  <2>1. g \in Gateways /\ pc[r] = "woken" /\ ~running[g] /\ mine[r] = next[g] /\ r \in wrote
        /\ UNCHANGED <<wrote, last, mine, verdict>>
    <3>1. g \in Gateways /\ last[g] \in Nat /\ mine[r] \in Nat /\ next[g] \in Nat
      BY RecalcAssumption DEF TypeOK
    <3>2. /\ pc[r] = "woken" /\ ~running[g] /\ last[g] < mine[r]
          /\ UNCHANGED <<wrote, last, mine, verdict>>
      BY <1>5 DEF RunNext
    <3>3. next[g] = last[g] + 1 /\ mine[r] \in 1..next[g] /\ r \in wrote
      BY <3>1, <3>2 DEF QueueInv, Queued
    <3> QED
      BY <3>1, <3>2, <3>3
  <2>2. Take(r, batch[g])
    BY <1>5 DEF RunNext
  <2>3. /\ running'[g] /\ stage'[g] = "lock" /\ next'[g] = next[g] + 1 /\ next[g] = last[g] + 1
        /\ \A h \in Gateways : h # g => running'[h] = running[h] /\ stage'[h] = stage[h] /\ next'[h] = next[h]
    BY <2>1, <2>2 DEF QueueInv, Take, TypeOK
  <2>4. pc'[r] = "run" /\ \A q \in Requests : q # r => pc'[q] = pc[q]
    BY <2>2 DEF Take, Goto, TypeOK
  <2>5. \A q \in Requests : GatewayOf[q] = g => pc[q] # "run"
    BY <2>1 DEF QueueInv
  <2>6. \A h \in Gateways : /\ running'[h] <=> stage'[h] # "none"
                            /\ next'[h] = last'[h] + (IF running'[h] THEN 2 ELSE 1)
    BY <2>1, <2>3 DEF QueueInv, TypeOK
  <2>7. ASSUME NEW q \in Requests
        PROVE  /\ Queued(q)' => /\ mine'[q] \in 1..next'[GatewayOf[q]]
                                /\ verdict'[q] = "none" <=> mine'[q] > last'[GatewayOf[q]]
               /\ pc'[q] = "run" => running'[GatewayOf[q]] /\ mine'[q] = next'[GatewayOf[q]] - 1
               /\ pc'[q] \in {"idle", "mark", "load"} => verdict'[q] = "none"
               /\ pc'[q] # "idle" => q \in wrote'
    BY <2>1, <2>3, <2>4, <2>5, RecalcAssumption DEF QueueInv, Queued, TypeOK
  <2>8. /\ \A q, p \in Requests :
             pc'[q] = "run" /\ pc'[p] = "run" /\ GatewayOf[q] = GatewayOf[p] => q = p
        /\ \A h \in Gateways : running'[h] => \E q \in Requests : pc'[q] = "run" /\ GatewayOf[q] = h
    BY <2>1, <2>3, <2>4, <2>5 DEF QueueInv
  <2> QED
    BY <2>6, <2>7, <2>8 DEF QueueInv
<1>6. ASSUME NEW g \in Gateways, NEW how \in Verdicts \ {"none"}, EndPass(g, how), stage[g] # "none"
      PROVE  QueueInv'
  <2>1. /\ running[g] /\ next[g] = last[g] + 2 /\ last'[g] = next[g] - 1
        /\ UNCHANGED <<wrote, next, mine>>
    BY <1>6 DEF EndPass, QueueInv, TypeOK
  <2>2. \A h \in Gateways : /\ running'[h] <=> stage'[h] # "none"
                            /\ next'[h] = last'[h] + (IF running'[h] THEN 2 ELSE 1)
    BY <1>6, <2>1 DEF EndPass, QueueInv, TypeOK
  <2>3. ASSUME NEW r \in Requests
        PROVE  /\ Queued(r)' => /\ mine'[r] \in 1..next'[GatewayOf[r]]
                                /\ verdict'[r] = "none" <=> mine'[r] > last'[GatewayOf[r]]
               /\ pc'[r] = "run" => running'[GatewayOf[r]] /\ mine'[r] = next'[GatewayOf[r]] - 1
               /\ pc'[r] \in {"idle", "mark", "load"} => verdict'[r] = "none"
               /\ pc'[r] # "idle" => r \in wrote'
    <3>1. CASE GatewayOf[r] = g
      <4>1. /\ pc'[r] # "run"
            /\ Queued(r)' => Queued(r)
            /\ pc'[r] \in {"idle", "mark", "load"} => pc'[r] = pc[r]
            /\ pc'[r] = "idle" <=> pc[r] = "idle"
        BY <1>6, <3>1 DEF EndPass, Queued, Here, Woken
      <4>2. verdict'[r] = IF Queued(r) /\ mine[r] = next[g] - 1 /\ verdict[r] = "none"
                          THEN how ELSE verdict[r]
        BY <1>6, <3>1 DEF EndPass, Served, Here
      <4>3. /\ mine[r] \in Nat /\ last[g] \in Nat /\ how # "none"
            /\ Queued(r) => mine[r] \in 1..next[g] /\ (verdict[r] = "none" <=> mine[r] > last[g])
            /\ pc[r] \in {"idle", "mark", "load"} => verdict[r] = "none" /\ ~Queued(r)
            /\ pc[r] # "idle" => r \in wrote
        BY <3>1 DEF QueueInv, TypeOK, Queued
      <4> QED
        BY <2>1, <3>1, <4>1, <4>2, <4>3
    <3>2. CASE GatewayOf[r] # g
      BY <1>6, <2>1, <3>2, RecalcAssumption DEF EndPass, QueueInv, Queued, Served, Here, Woken, TypeOK, Verdicts
    <3> QED
      BY <3>1, <3>2
  <2>4. \A r \in Requests : pc'[r] = "run" <=> pc[r] = "run" /\ GatewayOf[r] # g
    BY <1>6 DEF EndPass, Here, Woken
  <2>5. \A h \in Gateways : running'[h] <=> running[h] /\ h # g
    BY <1>6 DEF EndPass, TypeOK
  <2>6. /\ \A q, r \in Requests :
             pc'[q] = "run" /\ pc'[r] = "run" /\ GatewayOf[q] = GatewayOf[r] => q = r
        /\ \A h \in Gateways : running'[h] => \E r \in Requests : pc'[r] = "run" /\ GatewayOf[r] = h
    BY <2>4, <2>5 DEF QueueInv
  <2> QED
    BY <2>2, <2>3, <2>6 DEF QueueInv
<1>7. ASSUME NEW g \in Gateways, Crash(g) PROVE QueueInv'
  <2>1. \A r \in Requests : GatewayOf[r] = g => pc'[r] \in {"idle", "over", "lost"}
                                                /\ (pc'[r] = "idle" <=> pc[r] = "idle")
    BY <1>7 DEF Crash, Here
  <2>2. \A r \in Requests : GatewayOf[r] # g => pc'[r] = pc[r] /\ mine'[r] = mine[r]
    BY <1>7 DEF Crash, Here
  <2>3. /\ ~running'[g] /\ stage'[g] = "none" /\ next'[g] = 1 /\ last'[g] = 0
        /\ \A h \in Gateways : h # g => running'[h] = running[h] /\ stage'[h] = stage[h]
                                        /\ next'[h] = next[h] /\ last'[h] = last[h]
        /\ UNCHANGED <<wrote, verdict>>
    BY <1>7 DEF Crash, TypeOK
  <2>4. \A h \in Gateways : /\ running'[h] <=> stage'[h] # "none"
                            /\ next'[h] = last'[h] + (IF running'[h] THEN 2 ELSE 1)
    BY <2>3 DEF QueueInv
  <2>5. ASSUME NEW r \in Requests
        PROVE  /\ Queued(r)' => /\ mine'[r] \in 1..next'[GatewayOf[r]]
                                /\ verdict'[r] = "none" <=> mine'[r] > last'[GatewayOf[r]]
               /\ pc'[r] = "run" => running'[GatewayOf[r]] /\ mine'[r] = next'[GatewayOf[r]] - 1
               /\ pc'[r] \in {"idle", "mark", "load"} => verdict'[r] = "none"
               /\ pc'[r] # "idle" => r \in wrote'
    BY <2>1, <2>2, <2>3, RecalcAssumption DEF QueueInv, Queued
  <2>6. /\ \A q, r \in Requests :
             pc'[q] = "run" /\ pc'[r] = "run" /\ GatewayOf[q] = GatewayOf[r] => q = r
        /\ \A h \in Gateways : running'[h] => \E r \in Requests : pc'[r] = "run" /\ GatewayOf[r] = h
    BY <2>1, <2>2, <2>3 DEF QueueInv
  <2> QED
    BY <2>4, <2>5, <2>6 DEF QueueInv
<1> QED
  <2>1. ASSUME NEW r \in Requests, Write(r) \/ Mark(r) \/ MarkFails(r) \/ LoadFails(r)
                                   \/ Return(r) \/ Finish(r) \/ FinishFails(r)
        PROVE  QueueInv'
    <3>1. pc[r] # "idle" => r \in wrote
      BY DEF QueueInv
    <3>2. CASE Write(r)
      BY <3>2, <1>2 DEF Write
    <3>3. CASE Mark(r) \/ MarkFails(r) \/ LoadFails(r) \/ Return(r)
      BY <3>1, <3>3, <1>2 DEF Mark, MarkFails, LoadFails, Return
    <3>4. CASE Finish(r) \/ FinishFails(r)
      BY <3>1, <3>4, <1>2 DEF Finish, FinishFails, Leave, TypeOK
    <3> QED
      BY <2>1, <3>2, <3>3, <3>4
  <2>2. ASSUME NEW g \in Gateways, Lock(g) \/ Plan(g) \/ TimesOut(g)
               \/ \E m \in Metrics : Begin(g, m) \/ Skip(g, m) \/ Complete(g, m) \/ Errs(g, m) \/ Unrecorded(g, m)
        PROVE  QueueInv'
    BY <2>2, <1>1 DEF Lock, Plan, TimesOut, Begin, Skip, Complete, Errs, Unrecorded, TypeOK
  <2>3. CASE UNCHANGED vars
    BY <2>3, <1>1 DEF vars
  <2> QED
    BY <1>3, <1>4, <1>5, <1>6, <1>7, <2>1, <2>2, <2>3, PassOver DEF Next, Call, Loop, Work

-----------------------------------------------------------------------------
(* The pass lock, and what the results have seen. *)

LEMMA LockInit == Init => LockInv
<1> SUFFICES ASSUME Init PROVE LockInv
  OBVIOUS
<1>1. \A g \in Gateways : stage[g] = "none" /\ lock # g
  BY RecalcAssumption DEF Init
<1>2. \A g \in Gateways : left[g] = {} /\ doing[g] = {} /\ ~short[g]
  BY DEF Init
<1> QED
  BY <1>1, <1>2 DEF LockInv

LEMMA LockStep == TypeOK /\ QueueInv /\ LockInv /\ [Next]_vars => LockInv'
<1> SUFFICES ASSUME TypeOK, QueueInv, LockInv, [Next]_vars PROVE LockInv'
  OBVIOUS
<1> USE DEF dbVars, queueVars, passVars, reqVars
<1>1. CASE UNCHANGED <<lock, stage, left, doing, short>>
  BY <1>1 DEF LockInv
<1>2. ASSUME NEW r \in Requests, NEW b, Take(r, b), ~running[GatewayOf[r]],
             UNCHANGED <<lock, left, doing, short>>
      PROVE  LockInv'
  <2>1. GatewayOf[r] \in Gateways /\ stage[GatewayOf[r]] = "none"
    BY <1>2, RecalcAssumption DEF QueueInv, TypeOK
  <2>2. stage' = [stage EXCEPT ![GatewayOf[r]] = "lock"]
    BY <1>2 DEF Take
  <2> QED
    BY <1>2, <2>1, <2>2 DEF LockInv, TypeOK
<1>3. ASSUME NEW g \in Gateways, Lock(g) PROVE LockInv'
  BY <1>3, RecalcAssumption DEF Lock, LockInv, TypeOK
<1>4. ASSUME NEW g \in Gateways, Plan(g) PROVE LockInv'
  BY <1>4 DEF Plan, LockInv, TypeOK
<1>5. ASSUME NEW g \in Gateways, NEW how, EndPass(g, how) PROVE LockInv'
  BY <1>5, RecalcAssumption DEF EndPass, LockInv, TypeOK
<1>6. ASSUME NEW g \in Gateways, NEW m \in Metrics,
             Begin(g, m) \/ Skip(g, m) \/ Complete(g, m) \/ Errs(g, m) \/ Unrecorded(g, m)
      PROVE  LockInv'
  <2>1. stage[g] = "calc"
    BY <1>6 DEF Begin, Skip, Complete, Errs, Unrecorded, LockInv
  <2>2. CASE Begin(g, m)
    BY <2>1, <2>2 DEF Begin, LockInv, TypeOK
  <2>3. CASE Skip(g, m)
    BY <2>1, <2>3 DEF Skip, LockInv, TypeOK
  <2>4. CASE Complete(g, m) \/ Errs(g, m) \/ Unrecorded(g, m)
    BY <2>1, <2>4 DEF Complete, Errs, Unrecorded, LockInv, TypeOK
  <2> QED
    BY <1>6, <2>2, <2>3, <2>4
<1>7. ASSUME NEW g \in Gateways, Crash(g) PROVE LockInv'
  BY <1>7, RecalcAssumption DEF Crash, LockInv, TypeOK
<1> QED
  <2>1. ASSUME NEW r \in Requests, Write(r) \/ Call(r) \/ MarkFails(r) \/ LoadFails(r) \/ FinishFails(r)
        PROVE  LockInv'
    <3>1. CASE Enter(r)
      BY <3>1, <1>1, <1>2 DEF Enter
    <3>2. CASE RunNext(r)
      BY <3>2, <1>2 DEF RunNext
    <3> QED
      BY <2>1, <3>1, <3>2, <1>1 DEF Write, Call, Loop, Mark, Return, WaitOn, Finish, MarkFails, LoadFails, FinishFails
  <2>2. ASSUME NEW g \in Gateways, TimesOut(g) PROVE LockInv'
    BY <2>2, <1>1 DEF TimesOut
  <2>3. CASE UNCHANGED vars
    BY <2>3, <1>1 DEF vars
  <2> QED
    BY <1>3, <1>4, <1>5, <1>6, <1>7, <2>1, <2>2, <2>3, PassOver DEF Next, Work

\* Only one gateway's pass calculates at a time.
LEMMA CalcAlone ==
    ASSUME LockInv, NEW g \in Gateways, NEW h \in Gateways,
           stage[g] = "calc", stage[h] \in {"plan", "calc"}
    PROVE  g = h
  BY DEF LockInv

\* The steps of a pass that may store results of a metric.
Stores(g, m) == Complete(g, m) \/ Errs(g, m) \/ Unrecorded(g, m)

\* What such a step does to the results.
LEMMA StoreEffect ==
    ASSUME TypeOK, LockInv, SeenInv, NEW g \in Gateways, NEW m \in Metrics, Stores(g, m)
    PROVE  /\ stage[g] = "calc"
           /\ \A n \in Metrics, c \in Cells : n # m => stored'[n][c] = stored[n][c]
           /\ \A c \in Cells : stored[m][c] \subseteq stored'[m][c] /\ stored'[m][c] \subseteq wrote
           /\ Complete(g, m) => \A c \in Region(g, m) \cap Cells : seen[g] \subseteq stored'[m][c]
<1>1. stage[g] = "calc" /\ m \in doing[g]
  BY DEF Stores, Complete, Errs, Unrecorded, LockInv
<1>2. seen[g] \subseteq wrote /\ \A c \in Cells : stored[m][c] \subseteq seen[g]
  BY <1>1 DEF SeenInv
<1>3. CASE UNCHANGED stored
  <2>1. \A c \in Cells : stored[m][c] \subseteq stored'[m][c] /\ stored'[m][c] \subseteq wrote
    BY <1>2, <1>3
  <2>2. ASSUME Complete(g, m), NEW c \in Region(g, m) \cap Cells
        PROVE  seen[g] \subseteq stored'[m][c]
    <3>1. PICK read \in {seen[g], wrote} : Store(g, m, read)
      BY <2>2 DEF Complete
    <3>2. stored'[m][c] = read
      BY <3>1, <2>2 DEF Store, TypeOK
    <3> QED
      BY <3>1, <3>2, <1>2
  <2> QED
    BY <1>1, <1>3, <2>1, <2>2
<1>4. ASSUME NEW read \in {seen[g], wrote}, Store(g, m, read)
      PROVE  /\ \A n \in Metrics, c \in Cells : n # m => stored'[n][c] = stored[n][c]
             /\ \A c \in Cells : stored[m][c] \subseteq stored'[m][c] /\ stored'[m][c] \subseteq wrote
             /\ \A c \in Region(g, m) \cap Cells : seen[g] \subseteq stored'[m][c]
  <2>1. \A n \in Metrics, c \in Cells : n # m => stored'[n][c] = stored[n][c]
    BY <1>4 DEF Store, TypeOK
  <2>2. \A c \in Cells : stored'[m][c] = IF c \in Region(g, m) THEN read ELSE stored[m][c]
    BY <1>4 DEF Store, TypeOK
  <2>3. seen[g] \subseteq read /\ read \subseteq wrote
    BY <1>2
  <2> QED
    BY <1>2, <2>1, <2>2, <2>3
<1> QED
  BY <1>1, <1>3, <1>4 DEF Stores, Complete, Errs, Unrecorded

\* Every other step leaves the results as they are.
LEMMA StoredFrame ==
    ASSUME [Next]_vars, ~\E g \in Gateways, m \in Metrics : Stores(g, m)
    PROVE  UNCHANGED stored
  BY DEF Next, vars, Call, Loop, Work, Stores, Write, Mark, MarkFails, LoadFails, Enter, Return,
         WaitOn, RunNext, Finish, FinishFails, Lock, Plan, LockFails, PlanFails, Panics, PassEnds,
         EndPass, TimesOut, Begin, Skip, Crash, dbVars

LEMMA StoredGrows ==
    TypeOK /\ LockInv /\ SeenInv /\ [Next]_vars
    => \A m \in Metrics, c \in Cells : stored[m][c] \subseteq stored'[m][c]
<1> SUFFICES ASSUME TypeOK, LockInv, SeenInv, [Next]_vars
             PROVE  \A m \in Metrics, c \in Cells : stored[m][c] \subseteq stored'[m][c]
  OBVIOUS
<1>1. CASE \E g \in Gateways, m \in Metrics : Stores(g, m)
  BY <1>1, StoreEffect
<1>2. CASE ~\E g \in Gateways, m \in Metrics : Stores(g, m)
  BY <1>2, StoredFrame
<1> QED
  BY <1>1, <1>2

LEMMA SeenInit == Init => SeenInv
  BY DEF Init, SeenInv

LEMMA SeenStep == TypeOK /\ QueueInv /\ LockInv /\ SeenInv /\ [Next]_vars => SeenInv'
<1> SUFFICES ASSUME TypeOK, QueueInv, LockInv, SeenInv, [Next]_vars PROVE SeenInv'
  OBVIOUS
<1> USE DEF dbVars, queueVars, passVars, reqVars
<1>1. ASSUME UNCHANGED stored, wrote \subseteq wrote',
             \A g \in Gateways : stage'[g] = "calc" =>
                /\ stage[g] = "calc" /\ seen'[g] = seen[g]
                /\ left'[g] \cup doing'[g] \subseteq left[g] \cup doing[g]
      PROVE  SeenInv'
  BY <1>1 DEF SeenInv
<1>2. ASSUME NEW g \in Gateways, Plan(g) PROVE SeenInv'
  <2>1. UNCHANGED <<stored, wrote>>
    BY <1>2 DEF Plan
  <2>2. \A h \in Gateways : stage'[h] = "calc" => h = g
    BY <1>2, CalcAlone DEF Plan, TypeOK
  <2>3. seen'[g] = wrote
    BY <1>2 DEF Plan, TypeOK
  <2>4. left'[g] \cup doing'[g] \subseteq Metrics
    BY <1>2 DEF Plan, TypeOK, BatchType
  <2> QED
    BY <2>1, <2>2, <2>3, <2>4 DEF SeenInv
<1>3. ASSUME NEW g \in Gateways, NEW m \in Metrics, Stores(g, m) PROVE SeenInv'
  <2>1. UNCHANGED <<wrote, stage, seen, left>> /\ m \in doing[g]
    BY <1>3 DEF Stores, Complete, Errs, Unrecorded
  <2>2. doing'[g] = doing[g] \ {m}
    BY <1>3 DEF Stores, Complete, Errs, Unrecorded, TypeOK
  <2>3. \A h \in Gateways : stage'[h] = "calc" => h = g
    BY <1>3, <2>1, CalcAlone, StoreEffect
  <2>4. m \notin left[g]
    BY <2>1 DEF LockInv
  <2>5. left[g] \cup doing[g] \subseteq Metrics
    BY DEF TypeOK
  <2> QED
    BY <1>3, <2>1, <2>2, <2>3, <2>4, <2>5, StoreEffect DEF SeenInv
<1> QED
  <2>1. ASSUME NEW r \in Requests, Write(r) \/ Call(r) \/ MarkFails(r) \/ LoadFails(r) \/ FinishFails(r)
        PROVE  SeenInv'
    <3>1. CASE Enter(r) \/ RunNext(r)
      BY <3>1, <1>1, RecalcAssumption DEF Enter, RunNext, Take, TypeOK
    <3> QED
      BY <2>1, <3>1, <1>1 DEF Write, Call, Loop, Mark, Return, WaitOn, Finish, MarkFails, LoadFails, FinishFails
  <2>2. ASSUME NEW g \in Gateways, Lock(g) \/ TimesOut(g) PROVE SeenInv'
    BY <2>2, <1>1 DEF Lock, TimesOut, TypeOK
  <2>3. ASSUME NEW g \in Gateways, NEW m \in Metrics, Begin(g, m) \/ Skip(g, m) PROVE SeenInv'
    BY <2>3, <1>1 DEF Begin, Skip, TypeOK
  <2>4. ASSUME NEW g \in Gateways, NEW how, EndPass(g, how) PROVE SeenInv'
    BY <2>4, <1>1 DEF EndPass, TypeOK
  <2>5. ASSUME NEW g \in Gateways, Crash(g) PROVE SeenInv'
    BY <2>5, <1>1 DEF Crash, TypeOK
  <2>6. CASE UNCHANGED vars
    BY <2>6, <1>1 DEF vars
  <2> QED
    BY <1>2, <1>3, <2>1, <2>2, <2>3, <2>4, <2>5, <2>6, PassOver DEF Next, Work, Stores

\* The pass lock keeps passes of different gateways from putting an older
\* result over a newer one, for any number of gateways: NeverStaler. A pass
\* holds the lock from before it reads its inputs until its last result is
\* stored, so what it replaces has seen no more than it has.
THEOREM ResultsNeverGoBack == Spec => NeverStaler
<1>1. Init => TypeOK /\ QueueInv /\ LockInv /\ SeenInv
  BY InitType, QueueInit, LockInit, SeenInit
<1>2. TypeOK /\ QueueInv /\ LockInv /\ SeenInv /\ [Next]_vars
      => (TypeOK /\ QueueInv /\ LockInv /\ SeenInv)'
  BY StepType, QueueStep, LockStep, SeenStep
<1>3. TypeOK /\ QueueInv /\ LockInv /\ SeenInv /\ [Next]_vars
      => [\A m \in Metrics, c \in Cells : stored[m][c] \subseteq stored'[m][c]]_vars
  BY StoredGrows
<1> QED
  BY <1>1, <1>2, <1>3, PTL DEF Spec, NeverStaler

-----------------------------------------------------------------------------
(* What is merged is calculated. *)

LEMMA JoinCovers ==
    ASSUME NEW b, NEW r, NEW q, Covers(b, q) \/ q = r
    PROVE  Covers(Join(b, ask[r]), q)
  BY DEF Covers, Join

LEMMA BatchInit == Init => BatchInv
  BY DEF Init, BatchInv, Queued

LEMMA BatchStep == TypeOK /\ QueueInv /\ BatchInv /\ [Next]_vars => BatchInv'
<1> SUFFICES ASSUME TypeOK, QueueInv, BatchInv, [Next]_vars PROVE BatchInv'
  OBVIOUS
<1> USE DEF dbVars, queueVars, passVars, reqVars
<1>1. ASSUME UNCHANGED <<ask, batch, next, running, taken>>,
             \A r \in Requests : Queued(r)' => Queued(r) /\ mine'[r] = mine[r]
      PROVE  BatchInv'
  BY <1>1 DEF BatchInv, Covers
<1>2. ASSUME NEW r \in Requests, NEW b, Take(r, b), ~running[GatewayOf[r]], UNCHANGED ask,
             \A q \in Requests : q # r => mine'[q] = mine[q],
             mine'[r] = next[GatewayOf[r]],
             \A q \in Requests : GatewayOf[q] = GatewayOf[r] /\ (q = r \/ Covers(batch[GatewayOf[r]], q))
                                 => Covers(b, q)
      PROVE  BatchInv'
  <2> DEFINE g == GatewayOf[r]
  <2>1. /\ g \in Gateways /\ next[g] \in Nat
        /\ next'[g] = next[g] + 1 /\ taken'[g] = b
        /\ \A h \in Gateways : h # g => next'[h] = next[h] /\ taken'[h] = taken[h]
                                        /\ batch'[h] = batch[h] /\ running'[h] = running[h]
    BY <1>2, RecalcAssumption DEF Take, TypeOK
  <2>2. \A q \in Requests : q # r => pc'[q] = pc[q]
    BY <1>2 DEF Take, Goto, TypeOK
  <2>3. ASSUME NEW q \in Requests, Queued(q)', GatewayOf[q] = g
        PROVE  mine'[q] <= next[g] /\ mine'[q] \in Nat /\ (mine'[q] = next[g] => Covers(b, q))
    <3>1. CASE q = r
      BY <1>2, <2>1, <2>3, <3>1
    <3>2. CASE q # r
      <4>1. Queued(q) /\ mine'[q] = mine[q]
        BY <1>2, <2>2, <2>3, <3>2 DEF Queued
      <4>2. mine[q] \in 1..next[g]
        BY <4>1, <2>3 DEF QueueInv
      <4>3. mine[q] = next[g] => Covers(batch[g], q)
        BY <4>1, <2>3 DEF BatchInv
      <4> QED
        BY <1>2, <2>1, <2>3, <4>1, <4>2, <4>3
    <3> QED
      BY <3>1, <3>2
  <2>4. ASSUME NEW q \in Requests, Queued(q)'
        PROVE  /\ mine'[q] = next'[GatewayOf[q]] => Covers(batch'[GatewayOf[q]], q)
               /\ running'[GatewayOf[q]] /\ mine'[q] = next'[GatewayOf[q]] - 1
                    => Covers(taken'[GatewayOf[q]], q)
    <3>1. CASE GatewayOf[q] = g
      BY <2>1, <2>3, <2>4, <3>1
    <3>2. CASE GatewayOf[q] # g
      <4>1. q # r /\ GatewayOf[q] \in Gateways
        BY <3>2, RecalcAssumption
      <4>2. Queued(q) /\ mine'[q] = mine[q]
        BY <1>2, <2>2, <2>4, <4>1 DEF Queued
      <4> QED
        BY <2>1, <3>2, <4>1, <4>2 DEF BatchInv
    <3> QED
      BY <3>1, <3>2
  <2> QED
    BY <1>2, <2>4 DEF BatchInv, Covers
<1>3. ASSUME NEW r \in Requests, Enter(r) PROVE BatchInv'
  <2> DEFINE g == GatewayOf[r]
             b == Join(batch[g], ask[r])
  <2>1. g \in Gateways /\ mine' = [mine EXCEPT ![r] = next[g]] /\ UNCHANGED ask
    BY <1>3, RecalcAssumption DEF Enter, Turn
  <2>2. CASE ~running[g] /\ Take(r, b)
    <3>1. mine'[r] = next[g] /\ \A q \in Requests : q # r => mine'[q] = mine[q]
      BY <2>1 DEF TypeOK
    <3>2. \A q \in Requests : q = r \/ Covers(batch[g], q) => Covers(b, q)
      BY JoinCovers
    <3> HIDE DEF b
    <3> QED
      BY <2>1, <2>2, <3>1, <3>2, <1>2
  <2>3. CASE running[g] /\ batch' = [batch EXCEPT ![g] = b] /\ Goto(r, "wait")
             /\ UNCHANGED <<running, next, taken>>
    <3>1. \A q \in Requests : Queued(q)' /\ q # r => Queued(q) /\ mine'[q] = mine[q]
      BY <2>1, <2>3 DEF Queued, Goto, TypeOK
    <3>2. batch'[g] = b /\ \A h \in Gateways : h # g => batch'[h] = batch[h]
      BY <2>1, <2>3 DEF TypeOK
    <3>3. mine'[r] = next[g] /\ next[g] \in Nat
      BY <2>1 DEF TypeOK
    <3>4. \A q \in Requests : q = r \/ Covers(batch[g], q) => Covers(b, q)
      BY JoinCovers
    <3> HIDE DEF b
    <3>5. ASSUME NEW q \in Requests, Queued(q)'
          PROVE  /\ mine'[q] = next[GatewayOf[q]] => Covers(batch'[GatewayOf[q]], q)
                 /\ running[GatewayOf[q]] /\ mine'[q] = next[GatewayOf[q]] - 1
                      => Covers(taken[GatewayOf[q]], q)
      <4>1. CASE q = r
        BY <3>2, <3>3, <3>4, <4>1
      <4>2. CASE q # r
        <5>1. Queued(q) /\ mine'[q] = mine[q] /\ GatewayOf[q] \in Gateways
          BY <3>1, <3>5, <4>2, RecalcAssumption
        <5> QED
          BY <3>2, <3>4, <5>1 DEF BatchInv
      <4> QED
        BY <4>1, <4>2
    <3> QED
      BY <2>1, <2>3, <3>5 DEF BatchInv, Covers
  <2> QED
    BY <1>3, <2>2, <2>3 DEF Enter
<1>4. ASSUME NEW r \in Requests, RunNext(r) PROVE BatchInv'
  <2>1. /\ ~running[GatewayOf[r]] /\ Take(r, batch[GatewayOf[r]]) /\ UNCHANGED <<ask, mine>>
        /\ Queued(r) /\ last[GatewayOf[r]] < mine[r]
    BY <1>4 DEF RunNext, Queued
  <2>2. mine[r] = next[GatewayOf[r]]
    <3>1. next[GatewayOf[r]] = last[GatewayOf[r]] + 1 /\ mine[r] \in 1..next[GatewayOf[r]]
      BY <2>1, RecalcAssumption DEF QueueInv
    <3>2. last[GatewayOf[r]] \in Nat /\ mine[r] \in Nat
      BY RecalcAssumption DEF TypeOK
    <3> QED
      BY <2>1, <3>1, <3>2
  <2>3. Covers(batch[GatewayOf[r]], r)
    BY <2>1, <2>2 DEF BatchInv
  <2> QED
    BY <2>1, <2>2, <2>3, <1>2
<1>5. ASSUME NEW g \in Gateways, NEW how \in Verdicts \ {"none"}, EndPass(g, how) PROVE BatchInv'
  <2>1. UNCHANGED <<ask, batch, next, mine>>
    BY <1>5 DEF EndPass
  <2>2. \A r \in Requests : Queued(r)' => Queued(r)
    BY <1>5 DEF EndPass, Queued, Woken, Here
  <2>3. \A h \in Gateways : running'[h] => running[h] /\ taken'[h] = taken[h]
    BY <1>5 DEF EndPass, TypeOK
  <2> QED
    BY <2>1, <2>2, <2>3, RecalcAssumption DEF BatchInv, Covers
<1>6. ASSUME NEW g \in Gateways, Crash(g) PROVE BatchInv'
  <2>1. UNCHANGED ask
    BY <1>6 DEF Crash
  <2>2. \A r \in Requests : Queued(r)' => Queued(r) /\ mine'[r] = mine[r] /\ GatewayOf[r] # g
    BY <1>6 DEF Crash, Queued, Here
  <2>3. \A h \in Gateways : h # g => running'[h] = running[h] /\ taken'[h] = taken[h]
                                     /\ batch'[h] = batch[h] /\ next'[h] = next[h]
    BY <1>6 DEF Crash, TypeOK
  <2> QED
    BY <2>1, <2>2, <2>3, RecalcAssumption DEF BatchInv, Covers
<1> QED
  <2>1. ASSUME NEW r \in Requests, Write(r) \/ Call(r) \/ MarkFails(r) \/ LoadFails(r) \/ FinishFails(r)
        PROVE  BatchInv'
    <3>1. CASE Write(r) \/ Mark(r) \/ MarkFails(r) \/ LoadFails(r) \/ Return(r) \/ WaitOn(r)
      BY <3>1, <1>1 DEF Write, Mark, MarkFails, LoadFails, Return, WaitOn, Goto, Queued, TypeOK
    <3>2. CASE Finish(r) \/ FinishFails(r)
      BY <3>2, <1>1 DEF Finish, FinishFails, Leave, Goto, Queued, TypeOK
    <3> QED
      BY <2>1, <3>1, <3>2, <1>3, <1>4 DEF Call, Loop
  <2>2. ASSUME NEW g \in Gateways, Lock(g) \/ Plan(g) \/ TimesOut(g) PROVE BatchInv'
    BY <2>2, <1>1 DEF Lock, Plan, TimesOut, Queued
  <2>3. ASSUME NEW g \in Gateways, NEW m \in Metrics, Begin(g, m) \/ Skip(g, m) \/ Stores(g, m)
        PROVE  BatchInv'
    BY <2>3, <1>1 DEF Begin, Skip, Stores, Complete, Errs, Unrecorded, Queued
  <2>4. CASE UNCHANGED vars
    BY <2>4, <1>1 DEF vars, Queued
  <2> QED
    BY <1>5, <1>6, <2>1, <2>2, <2>3, <2>4, PassOver DEF Next, Work, Stores

LEMMA AskFrame == [Next]_vars => ask' = ask
  BY DEF Next, vars, Call, Loop, Work, Write, Mark, MarkFails, LoadFails, Enter, Return, WaitOn,
         RunNext, Finish, FinishFails, Lock, Plan, LockFails, PlanFails, Panics, PassEnds, EndPass,
         TimesOut, Begin, Skip, Complete, Errs, Unrecorded, Crash, reqVars

\* A write that has landed in a metric's results stays there.
LEMMA LandedStays ==
    ASSUME TypeOK, LockInv, SeenInv, [Next]_vars, NEW r \in Requests, NEW m \in Metrics, Landed(r, m)
    PROVE  Landed(r, m)'
<1>1. Touched(r)' = Touched(r) /\ Touched(r) \subseteq Cells
  BY AskFrame, AskTyped DEF Touched
<1>2. \A c \in Cells : stored[m][c] \subseteq stored'[m][c]
  BY StoredGrows
<1> QED
  BY <1>1, <1>2 DEF Landed

\* Who a calculating pass serves does not grow while it calculates.
LEMMA ServedFrame ==
    ASSUME TypeOK, QueueInv, [Next]_vars, NEW r \in Requests, NEW g \in Gateways,
           stage[g] = "calc", stage'[g] = "calc", Served(r, g)'
    PROVE  Served(r, g)
<1> USE DEF dbVars, queueVars, passVars, reqVars
<1>1. GatewayOf[r] = g /\ Queued(r)' /\ mine'[r] = next'[g] - 1 /\ next[g] \in Nat
  BY DEF Served, Here, TypeOK
<1>2. CASE next'[g] = next[g] /\ mine'[r] = mine[r] /\ (Queued(r)' => Queued(r))
  BY <1>1, <1>2 DEF Served, Here
<1>3. ASSUME NEW q \in Requests, Enter(q) PROVE Served(r, g)
  <2>1. CASE GatewayOf[q] = g
    <3>1. running[g]
      BY DEF QueueInv, TypeOK
    <3>2. UNCHANGED next /\ mine' = [mine EXCEPT ![q] = next[g]] /\ Goto(q, "wait")
      BY <1>3, <2>1, <3>1 DEF Enter, Turn
    <3>3. q # r
      BY <1>1, <3>2 DEF TypeOK
    <3> QED
      BY <1>2, <3>2, <3>3 DEF Queued, Goto, TypeOK
  <2>2. CASE GatewayOf[q] # g
    <3>1. q # r
      BY <1>1, <2>2
    <3> QED
      BY <1>2, <1>3, <2>2, <3>1, RecalcAssumption DEF Enter, Take, Queued, Goto, TypeOK
  <2> QED
    BY <2>1, <2>2
<1>4. ASSUME NEW q \in Requests, RunNext(q) PROVE Served(r, g)
  <2>1. GatewayOf[q] # g /\ q # r
    BY <1>1, <1>4 DEF RunNext, QueueInv
  <2> QED
    BY <1>2, <1>4, <2>1, RecalcAssumption DEF RunNext, Take, Queued, Goto, TypeOK
<1>5. ASSUME NEW h \in Gateways, NEW how, EndPass(h, how) PROVE Served(r, g)
  BY <1>2, <1>5 DEF EndPass, Queued, Here, Woken
<1>6. ASSUME NEW h \in Gateways, Crash(h) PROVE Served(r, g)
  <2>1. h # g
    BY <1>6 DEF Crash, TypeOK
  <2> QED
    BY <1>1, <1>2, <1>6, <2>1 DEF Crash, Queued, Here, TypeOK
<1> QED
  <2>1. ASSUME NEW q \in Requests, Write(q) \/ Call(q) \/ MarkFails(q) \/ LoadFails(q) \/ FinishFails(q)
        PROVE  Served(r, g)
    <3>1. CASE Write(q) \/ Mark(q) \/ MarkFails(q) \/ LoadFails(q) \/ Return(q) \/ WaitOn(q)
      BY <3>1, <1>2 DEF Write, Mark, MarkFails, LoadFails, Return, WaitOn, Goto, Queued, TypeOK
    <3>2. CASE Finish(q) \/ FinishFails(q)
      <4>1. q # r
        BY <1>1, <3>2 DEF Finish, FinishFails, Leave, Goto, Queued, TypeOK
      <4> QED
        BY <3>2, <4>1, <1>2 DEF Finish, FinishFails, Leave, Goto, Queued, TypeOK
    <3> QED
      BY <2>1, <3>1, <3>2, <1>3, <1>4 DEF Call, Loop
  <2>2. ASSUME NEW h \in Gateways, Lock(h) \/ Plan(h) \/ TimesOut(h) PROVE Served(r, g)
    BY <2>2, <1>2 DEF Lock, Plan, TimesOut, Queued
  <2>3. ASSUME NEW h \in Gateways, NEW m \in Metrics, Begin(h, m) \/ Skip(h, m) \/ Stores(h, m)
        PROVE  Served(r, g)
    BY <2>3, <1>2 DEF Begin, Skip, Stores, Complete, Errs, Unrecorded, Queued
  <2>4. CASE UNCHANGED vars
    BY <2>4, <1>2 DEF vars, Queued
  <2> QED
    BY <1>5, <1>6, <2>1, <2>2, <2>3, <2>4, PassOver DEF Next, Work, Stores

\* What Complete stores covers a write the pass has read, when the write's
\* cells are in the region or had landed before.
LEMMA CompleteLands ==
    ASSUME TypeOK, LockInv, SeenInv, [Next]_vars, NEW g \in Gateways, NEW m \in Metrics, Complete(g, m),
           NEW r \in Requests, r \in seen[g],
           Touched(r) \subseteq Region(g, m) \/ m \notin clean[g] \/ Landed(r, m)
    PROVE  Landed(r, m)'
<1>1. Touched(r)' = Touched(r) /\ Touched(r) \subseteq Cells
  BY AskFrame, AskTyped DEF Touched
<1>2. \A c \in Region(g, m) \cap Cells : seen[g] \subseteq stored'[m][c]
  BY StoreEffect DEF Stores
<1>3. CASE Touched(r) \subseteq Region(g, m)
  BY <1>1, <1>2, <1>3 DEF Landed
<1>4. CASE m \notin clean[g]
  BY <1>1, <1>2, <1>4 DEF Landed, Region
<1>5. CASE Landed(r, m)
  BY <1>5, LandedStays
<1> QED
  BY <1>3, <1>4, <1>5

\* The region of a pass takes in the cells of every request it serves.
LEMMA RegionCovers ==
    ASSUME TypeOK, NEW r \in Requests, NEW g \in Gateways, Covers(taken[g], r), NEW m \in ask[r].ids
    PROVE  Touched(r) \subseteq Region(g, m)
<1>1. CASE ask[r].cells = {}
  BY <1>1 DEF Covers, Region, Touched
<1>2. CASE ask[r].cells # {}
  <2>1. Touched(r) = ask[r].cells /\ ask[r].cells \subseteq Cells
    BY <1>2, AskTyped DEF Touched
  <2>2. \A c \in ask[r].cells : <<m, c>> \in taken[g].cells
    BY DEF Covers
  <2> QED
    BY <2>1, <2>2 DEF Region
<1> QED
  BY <1>1, <1>2

LEMMA RecalcInit == Init => RecalcInv
  BY DEF Init, RecalcInv, Recalculated

LEMMA RecalcStep ==
    TypeOK /\ QueueInv /\ BatchInv /\ LockInv /\ SeenInv /\ RecalcInv /\ [Next]_vars => RecalcInv'
<1> SUFFICES ASSUME TypeOK, QueueInv, BatchInv, LockInv, SeenInv, RecalcInv, [Next]_vars
             PROVE  RecalcInv'
  OBVIOUS
<1> USE DEF dbVars, queueVars, passVars, reqVars
<1>a. ask' = ask /\ \A r \in Requests : Touched(r)' = Touched(r) /\ ask[r].ids \subseteq Metrics
  BY AskFrame, AskTyped DEF Touched
<1>b. \A r \in Requests, m \in Metrics : Landed(r, m) => Landed(r, m)'
  BY LandedStays
<1>1. ASSUME UNCHANGED verdict, wrote \subseteq wrote',
             \A m \in Metrics : status'[m] = "clean" => status[m] = "clean",
             \A g \in Gateways : stage'[g] = "calc" =>
                /\ stage[g] = "calc" /\ seen'[g] = seen[g] /\ clean'[g] = clean[g]
                /\ left'[g] \cup doing'[g] \subseteq left[g] \cup doing[g]
                /\ ~short'[g] => /\ ~short[g]
                                 /\ \A m \in Metrics : status'[m] = "clean" /\ m \in left[g] \cup doing[g]
                                                       => m \in left'[g] \cup doing'[g]
      PROVE  RecalcInv'
  <2>1. \A r \in Requests : verdict'[r] = "ok" => r \in wrote'
    BY <1>1 DEF RecalcInv
  <2>2. \A r \in Requests : verdict'[r] = "ok" =>
            \A m \in ask'[r].ids : status'[m] = "clean" => Landed(r, m)'
    BY <1>1, <1>a, <1>b DEF RecalcInv, Recalculated, Landed
  <2>3. ASSUME NEW g \in Gateways, stage'[g] = "calc", NEW r \in Requests
        PROVE  /\ verdict'[r] = "ok" =>
                    /\ r \in seen'[g]
                    /\ \A m \in (left'[g] \cup doing'[g]) \cap clean'[g] : m \in ask'[r].ids => Landed(r, m)'
               /\ Served(r, g)' =>
                    /\ r \in seen'[g]
                    /\ ~short'[g] => \A m \in ask'[r].ids \ (left'[g] \cup doing'[g]) :
                                        status'[m] = "clean" => Landed(r, m)'
    <3>1. Served(r, g)' => Served(r, g)
      BY <1>1, <2>3, ServedFrame
    <3>2. verdict'[r] = "ok" =>
            /\ r \in seen'[g]
            /\ \A m \in (left'[g] \cup doing'[g]) \cap clean'[g] : m \in ask'[r].ids => Landed(r, m)'
      BY <1>1, <1>a, <1>b, <2>3 DEF RecalcInv
    <3>3. Served(r, g)' => /\ r \in seen'[g]
                           /\ ~short'[g] => \A m \in ask'[r].ids \ (left'[g] \cup doing'[g]) :
                                              status'[m] = "clean" => Landed(r, m)'
      BY <1>1, <1>a, <1>b, <2>3, <3>1 DEF RecalcInv
    <3> QED
      BY <3>2, <3>3
  <2> QED
    BY <2>1, <2>2, <2>3 DEF RecalcInv, Recalculated, Landed
<1>2. ASSUME NEW g \in Gateways, Plan(g) PROVE RecalcInv'
  <2>1. UNCHANGED <<wrote, stored, status, verdict, pc, mine, next, running, taken>> /\ stage[g] = "plan"
    BY <1>2 DEF Plan
  <2>2. /\ seen'[g] = wrote /\ clean'[g] = {m \in Metrics : status[m] = "clean"}
        /\ left'[g] = taken[g].ids
    BY <1>2 DEF Plan, TypeOK
  <2>3. \A h \in Gateways : stage'[h] = "calc" => h = g
    BY <1>2, CalcAlone DEF Plan, TypeOK
  <2>4. \A r \in Requests : verdict[r] = "ok" =>
            \A m \in ask[r].ids : status[m] = "clean" => Landed(r, m)'
    BY <1>a, <1>b DEF RecalcInv, Recalculated, Landed
  <2>5. \A r \in Requests : Served(r, g)' => r \in wrote /\ ask[r].ids \subseteq left'[g]
    <3>1. running[g]
      BY <2>1 DEF QueueInv
    <3>2. \A r \in Requests : Served(r, g)' => Served(r, g)
      BY <2>1 DEF Served, Here, Queued
    <3>3. \A r \in Requests : Served(r, g) => r \in wrote /\ Covers(taken[g], r)
      BY <3>1 DEF Served, Here, QueueInv, BatchInv, Queued
    <3> QED
      BY <2>2, <3>2, <3>3 DEF Covers
  <2>6. \A r \in Requests : verdict[r] = "ok" => r \in wrote
    BY DEF RecalcInv
  <2>7. ASSUME NEW r \in Requests
        PROVE  /\ verdict'[r] = "ok" =>
                    /\ r \in seen'[g]
                    /\ \A m \in (left'[g] \cup doing'[g]) \cap clean'[g] : m \in ask'[r].ids => Landed(r, m)'
               /\ Served(r, g)' =>
                    /\ r \in seen'[g]
                    /\ ~short'[g] => \A m \in ask'[r].ids \ (left'[g] \cup doing'[g]) :
                                        status'[m] = "clean" => Landed(r, m)'
    BY <1>a, <2>1, <2>2, <2>4, <2>5, <2>6
  <2> QED
    BY <1>a, <2>1, <2>3, <2>4, <2>6, <2>7 DEF RecalcInv, Recalculated, Landed
<1>3. ASSUME NEW g \in Gateways, NEW m \in Metrics, Complete(g, m) PROVE RecalcInv'
  <2>1. /\ UNCHANGED <<wrote, verdict, pc, mine, next, running, taken, stage, seen, clean, left, short>>
        /\ m \in doing[g]
        /\ doing'[g] = doing[g] \ {m} /\ status' = [status EXCEPT ![m] = "clean"]
    BY <1>3 DEF Complete, TypeOK
  <2>2. stage[g] = "calc" /\ \A h \in Gateways : stage'[h] = "calc" => h = g
    BY <1>3, <2>1, StoreEffect, CalcAlone DEF Stores
  <2>3. ASSUME NEW r \in Requests, verdict[r] = "ok", m \in ask[r].ids PROVE Landed(r, m)'
    <3>1. r \in seen[g] /\ (m \in clean[g] => Landed(r, m))
      BY <2>1, <2>2, <2>3 DEF RecalcInv
    <3> QED
      BY <1>3, <3>1, CompleteLands
  <2>4. ASSUME NEW r \in Requests, Served(r, g), m \in ask[r].ids PROVE Landed(r, m)'
    <3>1. r \in seen[g]
      BY <2>2, <2>4 DEF RecalcInv
    <3>2. running[g]
      BY <2>2 DEF QueueInv
    <3>3. Covers(taken[g], r)
      BY <2>4, <3>2 DEF Served, Here, BatchInv
    <3> QED
      BY <1>3, <2>4, <3>1, <3>3, RegionCovers, CompleteLands
  <2>5. \A n \in Metrics : n # m => status'[n] = status[n]
    BY <2>1 DEF TypeOK
  <2>6. \A r \in Requests : Served(r, g)' => Served(r, g)
    BY <2>1 DEF Served, Here, Queued
  <2>7. \A r \in Requests : verdict'[r] = "ok" =>
            \A n \in ask'[r].ids : status'[n] = "clean" => Landed(r, n)'
    BY <1>a, <1>b, <2>1, <2>3, <2>5 DEF RecalcInv, Recalculated, Landed
  <2>8. ASSUME NEW r \in Requests
        PROVE  /\ verdict'[r] = "ok" =>
                    /\ r \in seen'[g]
                    /\ \A n \in (left'[g] \cup doing'[g]) \cap clean'[g] : n \in ask'[r].ids => Landed(r, n)'
               /\ Served(r, g)' =>
                    /\ r \in seen'[g]
                    /\ ~short'[g] => \A n \in ask'[r].ids \ (left'[g] \cup doing'[g]) :
                                        status'[n] = "clean" => Landed(r, n)'
    <3>1. verdict[r] = "ok" =>
            /\ r \in seen[g]
            /\ \A n \in (left[g] \cup doing[g]) \cap clean[g] : n \in ask[r].ids => Landed(r, n)
      BY <2>2 DEF RecalcInv
    <3>2. Served(r, g) =>
            /\ r \in seen[g]
            /\ ~short[g] => \A n \in ask[r].ids \ (left[g] \cup doing[g]) :
                                status[n] = "clean" => Landed(r, n)
      BY <2>2 DEF RecalcInv
    <3>3. verdict'[r] = "ok" =>
            /\ r \in seen'[g]
            /\ \A n \in (left'[g] \cup doing'[g]) \cap clean'[g] : n \in ask'[r].ids => Landed(r, n)'
      BY <1>a, <1>b, <2>1, <3>1
    <3>4. Served(r, g)' =>
            /\ r \in seen'[g]
            /\ ~short'[g] => \A n \in ask'[r].ids \ (left'[g] \cup doing'[g]) :
                                status'[n] = "clean" => Landed(r, n)'
      BY <1>a, <1>b, <2>1, <2>4, <2>5, <2>6, <3>2
    <3> QED
      BY <3>3, <3>4
  <2>9. \A r \in Requests : verdict'[r] = "ok" => r \in wrote'
    BY <2>1 DEF RecalcInv
  <2> QED
    BY <2>2, <2>7, <2>8, <2>9 DEF RecalcInv, Recalculated, Landed
<1>4. ASSUME NEW g \in Gateways, NEW how \in Verdicts \ {"none"}, EndPass(g, how), stage[g] # "none",
             how = "ok" => stage[g] = "calc" /\ left[g] = {} /\ doing[g] = {} /\ ~short[g]
      PROVE  RecalcInv'
  <2>1. UNCHANGED <<wrote, stored, status>>
    BY <1>4 DEF EndPass
  <2>2. ASSUME NEW h \in Gateways, stage'[h] = "calc"
        PROVE  /\ h # g /\ stage[h] = "calc" /\ seen'[h] = seen[h] /\ clean'[h] = clean[h]
               /\ left'[h] = left[h] /\ doing'[h] = doing[h] /\ short'[h] = short[h]
    BY <1>4, <2>2 DEF EndPass, TypeOK
  <2>3. ASSUME NEW r \in Requests, verdict'[r] = "ok", verdict[r] # "ok"
        PROVE  how = "ok" /\ Served(r, g)
    BY <1>4, <2>3 DEF EndPass
  <2>4. ASSUME NEW r \in Requests, verdict'[r] = "ok"
        PROVE  r \in wrote' /\ \A m \in ask'[r].ids : status'[m] = "clean" => Landed(r, m)'
    <3>1. CASE verdict[r] = "ok"
      BY <1>a, <1>b, <2>1, <3>1 DEF RecalcInv, Recalculated, Landed
    <3>2. CASE verdict[r] # "ok"
      <4>1. how = "ok" /\ Served(r, g)
        BY <2>3, <2>4, <3>2
      <4>2. r \in wrote
        BY <4>1 DEF Served, QueueInv, Queued
      <4>3. \A m \in ask[r].ids : status[m] = "clean" => Landed(r, m)
        BY <1>4, <4>1 DEF RecalcInv
      <4> QED
        BY <1>a, <1>b, <2>1, <4>2, <4>3
    <3> QED
      BY <3>1, <3>2
  <2>5. ASSUME NEW h \in Gateways, stage'[h] = "calc", NEW r \in Requests, verdict'[r] = "ok"
        PROVE  verdict[r] = "ok"
    BY <1>4, <2>2, <2>3, <2>5, CalcAlone
  <2>6. ASSUME NEW h \in Gateways, stage'[h] = "calc", NEW r \in Requests
        PROVE  /\ verdict'[r] = "ok" =>
                    /\ r \in seen'[h]
                    /\ \A m \in (left'[h] \cup doing'[h]) \cap clean'[h] : m \in ask'[r].ids => Landed(r, m)'
               /\ Served(r, h)' =>
                    /\ r \in seen'[h]
                    /\ ~short'[h] => \A m \in ask'[r].ids \ (left'[h] \cup doing'[h]) :
                                        status'[m] = "clean" => Landed(r, m)'
    <3>1. Served(r, h)' => Served(r, h)
      BY <2>2, <2>6, ServedFrame
    <3>2. verdict'[r] = "ok" =>
            /\ r \in seen'[h]
            /\ \A m \in (left'[h] \cup doing'[h]) \cap clean'[h] : m \in ask'[r].ids => Landed(r, m)'
      BY <1>a, <1>b, <2>2, <2>5, <2>6 DEF RecalcInv
    <3>3. Served(r, h)' =>
            /\ r \in seen'[h]
            /\ ~short'[h] => \A m \in ask'[r].ids \ (left'[h] \cup doing'[h]) :
                                status'[m] = "clean" => Landed(r, m)'
      BY <1>a, <1>b, <2>1, <2>2, <2>6, <3>1 DEF RecalcInv
    <3> QED
      BY <3>2, <3>3
  <2> QED
    BY <2>4, <2>6 DEF RecalcInv, Recalculated, Landed
<1> QED
  <2>1. ASSUME NEW r \in Requests, Write(r) \/ Call(r) \/ MarkFails(r) \/ LoadFails(r) \/ FinishFails(r)
        PROVE  RecalcInv'
    <3>1. CASE Write(r)
      BY <3>1, <1>1 DEF Write, TypeOK
    <3>2. CASE Enter(r) \/ RunNext(r)
      BY <3>2, <1>1, RecalcAssumption DEF Enter, RunNext, Take, TypeOK
    <3> QED
      BY <2>1, <3>1, <3>2, <1>1 DEF Call, Loop, Mark, Return, WaitOn, Finish, MarkFails, LoadFails, FinishFails
  <2>2. ASSUME NEW g \in Gateways, Lock(g) \/ TimesOut(g) PROVE RecalcInv'
    BY <2>2, <1>1 DEF Lock, TimesOut, TypeOK
  <2>3. ASSUME NEW g \in Gateways, NEW m \in Metrics, Begin(g, m) \/ Skip(g, m) PROVE RecalcInv'
    <3>1. UNCHANGED <<verdict, wrote, stage, seen, clean>>
      BY <2>3 DEF Begin, Skip
    <3>2. \A n \in Metrics : status'[n] = "clean" => status[n] = "clean"
      BY <2>3 DEF Begin, Skip, TypeOK
    <3>3. \A h \in Gateways : /\ left'[h] \cup doing'[h] \subseteq left[h] \cup doing[h]
                              /\ short'[h] \/ (~short[h] /\ left[h] \cup doing[h] \subseteq left'[h] \cup doing'[h])
      <4>1. CASE Begin(g, m)
        <5>1. /\ \A h \in Gateways : left'[h] = IF h = g THEN left[h] \ {m} ELSE left[h]
              /\ \A h \in Gateways : doing'[h] = IF h = g THEN doing[h] \cup {m} ELSE doing[h]
              /\ m \in left[g] /\ short' = short
          BY <4>1 DEF Begin, TypeOK
        <5> QED
          BY <5>1
      <4>2. CASE Skip(g, m)
        <5>1. /\ \A h \in Gateways : left'[h] = IF h = g THEN left[h] \ {m} ELSE left[h]
              /\ doing' = doing
              /\ \A h \in Gateways : IF h = g THEN short'[h] ELSE short'[h] = short[h]
          BY <4>2 DEF Skip, TypeOK
        <5> QED
          BY <5>1
      <4> QED
        BY <2>3, <4>1, <4>2
    <3> QED
      BY <3>1, <3>2, <3>3, <1>1
  <2>4. ASSUME NEW g \in Gateways, NEW m \in Metrics, Errs(g, m) \/ Unrecorded(g, m) PROVE RecalcInv'
    <3>1. UNCHANGED <<verdict, wrote, stage, seen, clean, left>>
      BY <2>4 DEF Errs, Unrecorded
    <3>2. \A n \in Metrics : status'[n] = "clean" => status[n] = "clean"
      BY <2>4 DEF Errs, Unrecorded, TypeOK
    <3>3. doing' = [doing EXCEPT ![g] = @ \ {m}]
      BY <2>4 DEF Errs, Unrecorded
    <3>4. \A h \in Gateways : doing'[h] = IF h = g THEN doing[h] \ {m} ELSE doing[h]
      BY <3>3 DEF TypeOK
    <3>5. \A h \in Gateways : short'[h] \/ (~short[h] /\ (h # g \/ status'[m] # "clean"))
      BY <2>4 DEF Errs, Unrecorded, TypeOK
    <3> QED
      BY <3>1, <3>2, <3>4, <3>5, <1>1
  <2>5. ASSUME NEW g \in Gateways, Crash(g) PROVE RecalcInv'
    BY <2>5, <1>1 DEF Crash, TypeOK
  <2>6. CASE UNCHANGED vars
    BY <2>6, <1>1 DEF vars
  <2> QED
    BY <1>2, <1>3, <1>4, <2>1, <2>2, <2>3, <2>4, <2>5, <2>6, PassOver DEF Next, Work

\* The invariants of the queue and of the pass, together.
PassInv == TypeOK /\ QueueInv /\ BatchInv /\ LockInv /\ SeenInv /\ RecalcInv

LEMMA PassInvariant == Spec => []PassInv
<1>1. Init => PassInv
  BY InitType, QueueInit, BatchInit, LockInit, SeenInit, RecalcInit DEF PassInv
<1>2. PassInv /\ [Next]_vars => PassInv'
  BY StepType, QueueStep, BatchStep, LockStep, SeenStep, RecalcStep DEF PassInv
<1> QED
  BY <1>1, <1>2, PTL DEF Spec

\* A caller whose pass ran to its end finds its write in every result it
\* reaches, or the metric marked (Recalculated), however requests are merged
\* and passes of other gateways fall in between.
THEOREM CallersAreRecalculated == Spec => []Recalculated
<1>1. PassInv => Recalculated
  BY DEF PassInv, RecalcInv
<1> QED
  BY <1>1, PassInvariant, PTL

-----------------------------------------------------------------------------
(* Dirty marks made in the write's own transaction. *)

LEMMA DirtyInit == Init => DirtyInv
  BY DEF Init, DirtyInv, DirtyOutlivesGateway

LEMMA DirtyStep ==
    TypeOK /\ QueueInv /\ LockInv /\ SeenInv /\ DirtyInv /\ [Next]_vars => DirtyInv'
<1> SUFFICES ASSUME TypeOK, QueueInv, LockInv, SeenInv, DirtyInv, [Next]_vars
             PROVE  DirtyInv'
  OBVIOUS
<1> USE DEF dbVars, queueVars, passVars, reqVars
<1>a. ask' = ask /\ \A r \in Requests : Touched(r)' = Touched(r) /\ ask[r].ids \subseteq Metrics
  BY AskFrame, AskTyped DEF Touched
<1>b. \A r \in Requests, m \in Metrics : Landed(r, m) => Landed(r, m)'
  BY LandedStays
<1>c. wrote' \subseteq Requests
  BY StepType DEF TypeOK
<1>1. ASSUME UNCHANGED <<wrote, raced>>,
             \A m \in Metrics : status'[m] = "clean" => status[m] = "clean",
             \A g \in Gateways : stage'[g] = "calc" =>
                /\ stage[g] = "calc" /\ seen'[g] = seen[g] /\ clean'[g] = clean[g]
                /\ left'[g] \cup doing'[g] \subseteq left[g] \cup doing[g]
      PROVE  DirtyInv'
  <2>1. \A r \in wrote' \ raced' : ask'[r].durable =>
            \A m \in ask'[r].ids : status'[m] = "clean" => Landed(r, m)'
    BY <1>1, <1>a, <1>b, <1>c DEF DirtyInv, DirtyOutlivesGateway, Landed
  <2>2. ASSUME NEW g \in Gateways, stage'[g] = "calc", NEW r \in wrote' \ raced', ask'[r].durable,
               NEW m \in (left'[g] \cup doing'[g]) \cap ask'[r].ids
        PROVE  r \in seen'[g] /\ (m \in clean'[g] => Landed(r, m)')
    <3>1. r \in seen[g] /\ (m \in clean[g] => Landed(r, m))
      BY <1>1, <1>a, <2>2 DEF DirtyInv
    <3> QED
      BY <1>1, <1>a, <1>b, <1>c, <2>2, <3>1
  <2> QED
    BY <2>1, <2>2 DEF DirtyInv, DirtyOutlivesGateway, Landed
<1>2. ASSUME NEW q \in Requests, Write(q) PROVE DirtyInv'
  <2>1. /\ UNCHANGED <<stage, seen, clean, left, doing>>
        /\ wrote' = wrote \cup {q} /\ raced \subseteq raced'
        /\ ask[q].durable /\ UnderWay \cap ask[q].ids # {} => q \in raced'
    BY <1>2 DEF Write
  <2>2. \A m \in Metrics : /\ status'[m] = "clean" => status[m] = "clean"
                           /\ ask[q].durable /\ m \in ask[q].ids => status'[m] # "clean"
    BY <1>2 DEF Write, TypeOK
  <2>3. \A r \in wrote' \ raced' : ask'[r].durable =>
            \A m \in ask'[r].ids : status'[m] = "clean" => Landed(r, m)'
    BY <1>a, <1>b, <1>c, <2>1, <2>2 DEF DirtyInv, DirtyOutlivesGateway, Landed
  <2>4. ASSUME NEW g \in Gateways, stage'[g] = "calc", NEW r \in wrote' \ raced', ask'[r].durable,
               NEW m \in (left'[g] \cup doing'[g]) \cap ask'[r].ids
        PROVE  r \in seen'[g] /\ (m \in clean'[g] => Landed(r, m)')
    <3>1. r # q
      BY <1>a, <2>1, <2>4 DEF UnderWay
    <3>2. r \in seen[g] /\ (m \in clean[g] => Landed(r, m))
      BY <1>a, <2>1, <2>4, <3>1 DEF DirtyInv
    <3> QED
      BY <1>a, <1>b, <1>c, <2>1, <2>4, <3>2
  <2> QED
    BY <2>3, <2>4 DEF DirtyInv, DirtyOutlivesGateway, Landed
<1>3. ASSUME NEW g \in Gateways, Plan(g) PROVE DirtyInv'
  <2>1. UNCHANGED <<wrote, raced, status>>
    BY <1>3 DEF Plan
  <2>2. seen'[g] = wrote /\ clean'[g] = {m \in Metrics : status[m] = "clean"}
    BY <1>3 DEF Plan, TypeOK
  <2>3. \A h \in Gateways : stage'[h] = "calc" => h = g
    BY <1>3, CalcAlone DEF Plan, TypeOK
  <2>4. \A r \in wrote \ raced : ask[r].durable =>
            \A m \in ask[r].ids : status[m] = "clean" => Landed(r, m)'
    BY <1>a, <1>b, <1>c, <2>1 DEF DirtyInv, DirtyOutlivesGateway, Landed
  <2> QED
    BY <1>a, <1>c, <2>1, <2>2, <2>3, <2>4 DEF DirtyInv, DirtyOutlivesGateway, Landed
<1>4. ASSUME NEW g \in Gateways, NEW m \in Metrics, Complete(g, m) PROVE DirtyInv'
  <2>1. /\ UNCHANGED <<wrote, raced, stage, seen, clean, left>> /\ m \in doing[g]
        /\ doing'[g] \subseteq doing[g] /\ status' = [status EXCEPT ![m] = "clean"]
    BY <1>4 DEF Complete, TypeOK
  <2>2. stage[g] = "calc" /\ \A h \in Gateways : stage'[h] = "calc" => h = g
    BY <1>4, <2>1, StoreEffect, CalcAlone DEF Stores
  <2>3. ASSUME NEW r \in wrote \ raced, ask[r].durable, m \in ask[r].ids PROVE Landed(r, m)'
    <3>1. r \in seen[g] /\ (m \in clean[g] => Landed(r, m))
      BY <2>1, <2>2, <2>3 DEF DirtyInv
    <3> QED
      BY <1>4, <1>c, <2>1, <3>1, CompleteLands
  <2>4. \A n \in Metrics : n # m => status'[n] = status[n]
    BY <2>1 DEF TypeOK
  <2>5. \A r \in wrote' \ raced' : ask'[r].durable =>
            \A n \in ask'[r].ids : status'[n] = "clean" => Landed(r, n)'
    BY <1>a, <1>b, <1>c, <2>1, <2>3, <2>4 DEF DirtyInv, DirtyOutlivesGateway, Landed
  <2>6. ASSUME NEW r \in wrote' \ raced', ask'[r].durable,
               NEW n \in (left'[g] \cup doing'[g]) \cap ask'[r].ids
        PROVE  r \in seen'[g] /\ (n \in clean'[g] => Landed(r, n)')
    <3>1. r \in seen[g] /\ (n \in clean[g] => Landed(r, n))
      BY <1>a, <2>1, <2>2, <2>6 DEF DirtyInv
    <3> QED
      BY <1>a, <1>b, <1>c, <2>1, <2>6, <3>1
  <2> QED
    BY <2>2, <2>5, <2>6 DEF DirtyInv, DirtyOutlivesGateway, Landed
<1> QED
  <2>1. ASSUME NEW r \in Requests, Call(r) \/ MarkFails(r) \/ LoadFails(r) \/ FinishFails(r)
        PROVE  DirtyInv'
    <3>1. CASE Enter(r) \/ RunNext(r)
      BY <3>1, <1>1, RecalcAssumption DEF Enter, RunNext, Take, TypeOK
    <3> QED
      BY <2>1, <3>1, <1>1 DEF Call, Loop, Mark, Return, WaitOn, Finish, MarkFails, LoadFails, FinishFails
  <2>2. ASSUME NEW g \in Gateways, Lock(g) \/ TimesOut(g) PROVE DirtyInv'
    BY <2>2, <1>1 DEF Lock, TimesOut, TypeOK
  <2>3. ASSUME NEW g \in Gateways, NEW m \in Metrics,
               Begin(g, m) \/ Skip(g, m) \/ Errs(g, m) \/ Unrecorded(g, m)
        PROVE  DirtyInv'
    <3>1. UNCHANGED <<wrote, raced, stage, seen, clean>>
      BY <2>3 DEF Begin, Skip, Errs, Unrecorded
    <3>2. \A n \in Metrics : status'[n] = "clean" => status[n] = "clean"
      BY <2>3 DEF Begin, Skip, Errs, Unrecorded, TypeOK
    <3>3. \A h \in Gateways : left'[h] \cup doing'[h] \subseteq left[h] \cup doing[h]
      BY <2>3 DEF Begin, Skip, Errs, Unrecorded, TypeOK
    <3> QED
      BY <3>1, <3>2, <3>3, <1>1
  <2>4. ASSUME NEW g \in Gateways, NEW how, EndPass(g, how) PROVE DirtyInv'
    BY <2>4, <1>1 DEF EndPass, TypeOK
  <2>5. ASSUME NEW g \in Gateways, Crash(g) PROVE DirtyInv'
    BY <2>5, <1>1 DEF Crash, TypeOK
  <2>6. CASE UNCHANGED vars
    BY <2>6, <1>1 DEF vars
  <2> QED
    BY <1>2, <1>3, <1>4, <2>1, <2>2, <2>3, <2>4, <2>5, <2>6, PassOver DEF Next, Work

\* A write that marked its metrics dirty in its own transaction survives the
\* gateway that took it: DirtyOutlivesGateway.
THEOREM DirtyMarksSurvive == Spec => []DirtyOutlivesGateway
<1>1. Init => DirtyInv
  BY DirtyInit
<1>2. PassInv /\ DirtyInv /\ [Next]_vars => DirtyInv'
  BY DirtyStep DEF PassInv
<1>3. DirtyInv => DirtyOutlivesGateway
  BY DEF DirtyInv
<1> QED
  BY <1>1, <1>2, <1>3, PassInvariant, PTL DEF Spec

-----------------------------------------------------------------------------
(* Errors of a pass. *)

LEMMA ErrorInit == Init => ErrorInv
  BY DEF Init, ErrorInv, ErrorReachesAll, Queued

LEMMA ErrorStep == TypeOK /\ QueueInv /\ ErrorInv /\ [Next]_vars => ErrorInv'
<1> SUFFICES ASSUME TypeOK, QueueInv, ErrorInv, [Next]_vars PROVE ErrorInv'
  OBVIOUS
<1> USE DEF dbVars, queueVars, passVars, reqVars
<1>1. ASSUME UNCHANGED <<last, failed, verdict>>,
             \A r \in Requests : Queued(r)' => Queued(r) /\ mine'[r] = mine[r],
             \A r \in Requests : pc'[r] = "finish" => pc[r] = "finish" /\ mine'[r] = mine[r] /\ err'[r] = err[r]
      PROVE  ErrorInv'
  BY <1>1 DEF ErrorInv, ErrorReachesAll
<1>2. ASSUME NEW r \in Requests, LoadFails(r) PROVE ErrorInv'
  <2>1. verdict[r] = "none" /\ UNCHANGED <<last, failed, verdict, mine>>
    BY <1>2 DEF LoadFails, QueueInv
  <2>2. pc'[r] = "finish" /\ \A q \in Requests : q # r => pc'[q] = pc[q] /\ err'[q] = err[q]
    BY <1>2 DEF LoadFails, Goto, TypeOK
  <2> QED
    BY <2>1, <2>2 DEF ErrorInv, ErrorReachesAll, Queued
<1>3. ASSUME NEW r \in Requests, Enter(r) PROVE ErrorInv'
  <2> DEFINE g == GatewayOf[r]
  <2>1. /\ g \in Gateways /\ UNCHANGED <<last, failed, verdict, err>>
        /\ mine' = [mine EXCEPT ![r] = next[g]] /\ pc[r] = "load"
        /\ Goto(r, "wait") \/ Goto(r, "run")
    BY <1>3, RecalcAssumption DEF Enter, Turn, Take
  <2>2. verdict[r] = "none"
    BY <2>1 DEF QueueInv
  <2>3. next[g] \notin failed[g]
    <3>1. next[g] \in Nat /\ last[g] \in Nat /\ next[g] > last[g]
      <4>1. next[g] \in Nat /\ last[g] \in Nat
        BY <2>1 DEF TypeOK
      <4>2. next[g] = last[g] + 1 \/ next[g] = last[g] + 2
        BY <2>1 DEF QueueInv
      <4> QED
        BY <4>1, <4>2
    <3>2. \A n \in failed[g] : n <= last[g] /\ n \in Nat
      BY <2>1 DEF ErrorInv, TypeOK
    <3> QED
      BY <3>1, <3>2
  <2>4. /\ mine'[r] = next[g] /\ pc'[r] # "finish"
        /\ \A q \in Requests : q # r => pc'[q] = pc[q] /\ mine'[q] = mine[q]
    BY <2>1 DEF Goto, TypeOK
  <2> QED
    BY <2>1, <2>2, <2>3, <2>4 DEF ErrorInv, ErrorReachesAll, Queued
<1>4. ASSUME NEW r \in Requests, Return(r) PROVE ErrorInv'
  <2>1. /\ UNCHANGED <<last, failed, verdict, mine>> /\ Queued(r)
        /\ err'[r] <=> mine[r] \in failed[GatewayOf[r]]
        /\ pc'[r] = "finish"
        /\ \A q \in Requests : q # r => pc'[q] = pc[q] /\ err'[q] = err[q]
    BY <1>4 DEF Return, Queued, Goto, TypeOK
  <2> QED
    BY <2>1 DEF ErrorInv, ErrorReachesAll, Queued
<1>5. ASSUME NEW g \in Gateways, NEW how \in Verdicts \ {"none"}, EndPass(g, how), stage[g] # "none"
      PROVE  ErrorInv'
  <2> DEFINE gen == next[g] - 1
  <2>1. gen = last[g] + 1 /\ last[g] \in Nat /\ gen \in Nat /\ running[g] /\ Keep \in Nat
    BY <1>5, RecalcAssumption DEF QueueInv, TypeOK
  <2>2. /\ UNCHANGED mine /\ last'[g] = gen
        /\ \A h \in Gateways : h # g => last'[h] = last[h] /\ failed'[h] = failed[h]
    BY <1>5 DEF EndPass, TypeOK
  <2>3. failed'[g] = {n \in failed[g] \cup {gen} : n + Keep >= gen /\ (n = gen => how = "error")}
    <3>1. failed'[g] = IF how = "error" THEN Kept(g, gen) ELSE Kept(g, gen) \ {gen}
      BY <1>5 DEF EndPass, TypeOK
    <3> QED
      BY <3>1 DEF Kept
  <2>4. \A n \in failed[g] : n \in Nat /\ n <= last[g]
    BY DEF ErrorInv, TypeOK
  <2>5. \A h \in Gateways : \A n \in failed'[h] : n <= last'[h]
    BY <2>1, <2>2, <2>3, <2>4 DEF ErrorInv
  <2>6. ASSUME NEW r \in Requests, Queued(r)'
        PROVE  /\ verdict'[r] = "error" /\ last'[GatewayOf[r]] <= mine'[r] + Keep
                    => mine'[r] \in failed'[GatewayOf[r]]
               /\ mine'[r] \in failed'[GatewayOf[r]] => verdict'[r] = "error"
    <3>1. Queued(r)
      BY <1>5, <2>6 DEF EndPass, Queued, Woken, Here
    <3>2. CASE GatewayOf[r] # g
      <4>1. verdict'[r] = verdict[r] /\ GatewayOf[r] \in Gateways
        BY <1>5, <3>2, RecalcAssumption DEF EndPass, Served, Here
      <4> QED
        BY <2>2, <3>1, <3>2, <4>1 DEF ErrorInv
    <3>3. CASE GatewayOf[r] = g
      <4>1. verdict'[r] = IF mine[r] = gen /\ verdict[r] = "none" THEN how ELSE verdict[r]
        BY <1>5, <3>1, <3>3 DEF EndPass, Served, Here
      <4>2. mine[r] \in Nat /\ (verdict[r] = "none" <=> mine[r] > last[g])
        BY <3>1, <3>3 DEF QueueInv, TypeOK
      <4>3. /\ verdict[r] = "error" /\ last[g] <= mine[r] + Keep => mine[r] \in failed[g]
            /\ mine[r] \in failed[g] => verdict[r] = "error"
        BY <3>1, <3>3 DEF ErrorInv
      <4>4. CASE mine[r] = gen
        BY <2>1, <2>2, <2>3, <2>4, <3>3, <4>1, <4>2, <4>4
      <4>5. CASE mine[r] # gen
        BY <2>1, <2>2, <2>3, <2>4, <3>3, <4>1, <4>2, <4>3, <4>5
      <4> QED
        BY <4>4, <4>5
    <3> QED
      BY <3>2, <3>3
  <2>7. ASSUME NEW r \in Requests, pc'[r] = "finish"
        PROVE  /\ verdict'[r] = "error" /\ last'[GatewayOf[r]] <= mine'[r] + Keep => err'[r]
               /\ verdict'[r] \in {"ok", "short"} => ~err'[r]
    <3>1. CASE pc[r] = "finish"
      <4>1. verdict'[r] = verdict[r] /\ err'[r] = err[r]
        BY <1>5, <3>1 DEF EndPass, Served, Queued, TypeOK
      <4>2. last[GatewayOf[r]] <= last'[GatewayOf[r]] /\ last[GatewayOf[r]] \in Nat
            /\ last'[GatewayOf[r]] \in Nat /\ mine[r] \in Nat
        BY <2>1, <2>2, RecalcAssumption DEF TypeOK
      <4>3. /\ verdict[r] = "error" /\ last[GatewayOf[r]] <= mine[r] + Keep => err[r]
            /\ verdict[r] \in {"ok", "short"} => ~err[r]
        BY <3>1 DEF ErrorInv, ErrorReachesAll
      <4> QED
        BY <2>1, <2>2, <4>1, <4>2, <4>3
    <3>2. CASE pc[r] # "finish"
      <4>1. GatewayOf[r] = g /\ pc[r] = "run" /\ how = "panic"
        BY <1>5, <2>7, <3>2 DEF EndPass, Here, Woken
      <4>2. mine[r] = gen
        BY <4>1 DEF QueueInv
      <4>3. verdict[r] = "none"
        BY <2>1, <4>1, <4>2 DEF QueueInv, Queued, TypeOK
      <4>4. verdict'[r] = "panic"
        BY <1>5, <4>1, <4>2, <4>3 DEF EndPass, Served, Here, Queued
      <4> QED
        BY <4>4
    <3> QED
      BY <3>1, <3>2
  <2> QED
    BY <2>5, <2>6, <2>7 DEF ErrorInv, ErrorReachesAll
<1>6. ASSUME NEW g \in Gateways, Crash(g) PROVE ErrorInv'
  <2>1. \A r \in Requests : Queued(r)' \/ pc'[r] = "finish" =>
            /\ GatewayOf[r] # g /\ pc'[r] = pc[r] /\ mine'[r] = mine[r] /\ err'[r] = err[r]
    BY <1>6 DEF Crash, Queued, Here, TypeOK
  <2>2. /\ failed'[g] = {} /\ UNCHANGED verdict
        /\ \A h \in Gateways : h # g => failed'[h] = failed[h] /\ last'[h] = last[h]
    BY <1>6 DEF Crash, TypeOK
  <2> QED
    BY <2>1, <2>2, RecalcAssumption DEF ErrorInv, ErrorReachesAll, Queued
<1> QED
  <2>1. ASSUME NEW r \in Requests, Write(r) \/ Call(r) \/ MarkFails(r) \/ LoadFails(r) \/ FinishFails(r)
        PROVE  ErrorInv'
    <3>1. CASE Write(r) \/ Mark(r) \/ MarkFails(r) \/ WaitOn(r)
      BY <3>1, <1>1 DEF Write, Mark, MarkFails, WaitOn, Goto, Queued, TypeOK
    <3>2. CASE Finish(r) \/ FinishFails(r)
      BY <3>2, <1>1 DEF Finish, FinishFails, Leave, Goto, Queued, TypeOK
    <3>3. CASE RunNext(r)
      BY <3>3, <1>1 DEF RunNext, Take, Goto, Queued, TypeOK
    <3> QED
      BY <2>1, <3>1, <3>2, <3>3, <1>2, <1>3, <1>4 DEF Call, Loop
  <2>2. ASSUME NEW g \in Gateways, Lock(g) \/ Plan(g) \/ TimesOut(g) PROVE ErrorInv'
    BY <2>2, <1>1 DEF Lock, Plan, TimesOut, Queued
  <2>3. ASSUME NEW g \in Gateways, NEW m \in Metrics, Begin(g, m) \/ Skip(g, m) \/ Stores(g, m)
        PROVE  ErrorInv'
    BY <2>3, <1>1 DEF Begin, Skip, Stores, Complete, Errs, Unrecorded, Queued
  <2>4. CASE UNCHANGED vars
    BY <2>4, <1>1 DEF vars, Queued
  <2> QED
    BY <1>5, <1>6, <2>1, <2>2, <2>3, <2>4, PassOver DEF Next, Work, Stores

\* The error of a pass is returned by every caller it served, and by no
\* other: ErrorReachesAll.
THEOREM ErrorsReachTheirCallers == Spec => []ErrorReachesAll
<1>1. Init => ErrorInv
  BY ErrorInit
<1>2. PassInv /\ ErrorInv /\ [Next]_vars => ErrorInv'
  BY ErrorStep DEF PassInv
<1>3. ErrorInv => ErrorReachesAll
  BY DEF ErrorInv
<1> QED
  BY <1>1, <1>2, <1>3, PassInvariant, PTL DEF Spec

-----------------------------------------------------------------------------
(* The counters the grid compares. *)

LEMMA GapInit == Init => GapInv
  BY DEF Init, GapInv

LEMMA GapStep == TypeOK /\ GapInv /\ [Next]_vars => GapInv'
<1> SUFFICES ASSUME TypeOK, GapInv, [Next]_vars PROVE GapInv'
  OBVIOUS
<1> USE DEF dbVars, queueVars, passVars, reqVars
<1>1. ASSUME UNCHANGED <<requested, done, seq>>,
             \A r \in Requests : pc'[r] \in {"over", "idle", "mark"} => pc'[r] = pc[r] \/ pc[r] = "idle"
      PROVE  GapInv'
  <2>1. \A r \in Requests : seq[r] \in Nat
    BY DEF TypeOK
  <2>2. done \in Nat
    BY DEF TypeOK
  <2> QED
    BY <1>1, <2>1, <2>2 DEF GapInv
<1>2. ASSUME NEW r \in Requests, Mark(r) PROVE GapInv'
  BY <1>2 DEF Mark, Goto, GapInv, TypeOK
<1>3. ASSUME NEW r \in Requests, Finish(r) PROVE GapInv'
  <2>1. done' = (IF seq[r] > done THEN seq[r] ELSE done) /\ UNCHANGED <<requested, seq>>
    BY <1>3 DEF Finish, Raise, TypeOK
  <2>2. pc' = [pc EXCEPT ![r] = "over"]
    BY <1>3 DEF Finish, Leave, Goto
  <2> QED
    BY <2>1, <2>2 DEF GapInv, TypeOK
<1>4. ASSUME NEW r \in Requests, FinishFails(r) PROVE GapInv'
  BY <1>4 DEF FinishFails, Leave, Goto, GapInv, TypeOK
<1> QED
  <2>1. ASSUME NEW r \in Requests, Write(r) \/ Call(r) \/ MarkFails(r) \/ LoadFails(r) \/ FinishFails(r)
        PROVE  GapInv'
    <3>1. CASE Write(r) \/ MarkFails(r) \/ LoadFails(r) \/ Return(r) \/ WaitOn(r)
      BY <3>1, <1>1 DEF Write, MarkFails, LoadFails, Return, WaitOn, Goto, TypeOK
    <3>2. CASE Enter(r) \/ RunNext(r)
      BY <3>2, <1>1 DEF Enter, RunNext, Take, Goto, TypeOK
    <3> QED
      BY <2>1, <3>1, <3>2, <1>2, <1>3, <1>4 DEF Call, Loop
  <2>2. ASSUME NEW g \in Gateways, Lock(g) \/ Plan(g) \/ TimesOut(g) PROVE GapInv'
    BY <2>2, <1>1 DEF Lock, Plan, TimesOut
  <2>3. ASSUME NEW g \in Gateways, NEW m \in Metrics, Begin(g, m) \/ Skip(g, m) \/ Stores(g, m)
        PROVE  GapInv'
    BY <2>3, <1>1 DEF Begin, Skip, Stores, Complete, Errs, Unrecorded
  <2>4. ASSUME NEW g \in Gateways, NEW how, EndPass(g, how) PROVE GapInv'
    BY <2>4, <1>1 DEF EndPass, Here, Woken
  <2>5. ASSUME NEW g \in Gateways, Crash(g) PROVE GapInv'
    BY <2>5, <1>1 DEF Crash, Here
  <2>6. CASE UNCHANGED vars
    BY <2>6, <1>1 DEF vars
  <2> QED
    BY <2>1, <2>2, <2>3, <2>4, <2>5, <2>6, PassOver DEF Next, Work, Stores

\* However many recalculations finish in whatever order, once all are
\* recorded the grid reports nothing pending: GapCloses.
THEOREM GapAlwaysCloses == Spec => []GapCloses
<1>1. TypeOK /\ GapInv => GapCloses
  <2> SUFFICES ASSUME TypeOK, GapInv,
                      \A r \in Requests : seq[r] > 0 => pc[r] = "over",
                      \A n \in 1..requested : \E r \in Requests : seq[r] = n
               PROVE  done = requested
    BY DEF GapCloses
  <2>1. requested \in Nat /\ done \in Nat /\ done <= requested
    BY DEF TypeOK, GapInv
  <2>2. CASE requested > 0
    <3>1. PICK r \in Requests : seq[r] = requested
      BY <2>1, <2>2
    <3> QED
      BY <2>1, <2>2, <3>1 DEF GapInv
  <2> QED
    BY <2>1, <2>2
<1> QED
  BY <1>1, GapInit, GapStep, TypeCorrect, PTL DEF Spec

-----------------------------------------------------------------------------
(* The queue implements what it promises its callers. *)

\* The requests the pass under way in g serves.
ServingOf(g) == {r \in Requests : running[g] /\ Served(r, g) /\ verdict[r] = "none"}

phaseBar   == [r \in Requests |-> PhaseOf(r)]
servingBar == [g \in Gateways |-> ServingOf(g)]

LEMMA PhaseMap ==
    ASSUME NEW r \in Requests
    PROVE  /\ pc[r] \in {"idle", "mark", "load"} => PhaseOf(r) = "new"
           /\ Queued(r) /\ verdict[r] = "none" => PhaseOf(r) = "asked"
           /\ Queued(r) /\ verdict[r] # "none" => PhaseOf(r) = "served"
           /\ pc[r] \in {"finish", "over"} => PhaseOf(r) = "answered"
           /\ pc[r] = "lost" => PhaseOf(r) = "lost"
  BY DEF PhaseOf, Queued

\* A request that is asked for waits for a pass that has not ended; the pass
\* under way serves those whose number it has.
LEMMA AskedServing ==
    ASSUME TypeOK, QueueInv, NEW r \in Requests
    PROVE  /\ PhaseOf(r) = "asked" <=> Queued(r) /\ mine[r] > last[GatewayOf[r]]
           /\ \A g \in Gateways : r \in ServingOf(g) <=>
                GatewayOf[r] = g /\ running[g] /\ Queued(r) /\ mine[r] = next[g] - 1
<1>1. pc[r] \in Places /\ mine[r] \in Nat /\ GatewayOf[r] \in Gateways
  BY RecalcAssumption DEF TypeOK
<1>2. PhaseOf(r) = "asked" <=> Queued(r) /\ verdict[r] = "none"
  BY <1>1, PhaseMap DEF Places, Queued
<1>3. Queued(r) => (verdict[r] = "none" <=> mine[r] > last[GatewayOf[r]])
  BY DEF QueueInv
<1>4. ASSUME NEW g \in Gateways
      PROVE  r \in ServingOf(g) <=> GatewayOf[r] = g /\ running[g] /\ Queued(r) /\ mine[r] = next[g] - 1
  <2>1. running[g] => next[g] - 1 > last[g]
    <3>1. running[g] => next[g] = last[g] + 2
      BY DEF QueueInv
    <3>2. last[g] \in Nat
      BY DEF TypeOK
    <3> QED
      BY <3>1, <3>2
  <2> QED
    BY <1>3, <2>1 DEF ServingOf, Served, Here
<1> QED
  BY <1>2, <1>3, <1>4

LEMMA PromiseInitial == Init => Promise!PromiseInit
  BY DEF Init, Promise!PromiseInit, PhaseOf

\* A step that changes no request's phase and no pass's requests is none of
\* the promise's.
LEMMA PromiseStutter ==
    ASSUME \A r \in Requests : PhaseOf(r)' = PhaseOf(r),
           \A g \in Gateways : ServingOf(g)' = ServingOf(g)
    PROVE  UNCHANGED Promise!promiseVars
  BY DEF Promise!promiseVars, ServingOf

\* Caller r of g takes the batch: the pass begins for every request asked for.
LEMMA TakeServes ==
    ASSUME TypeOK, QueueInv, NEW r \in Requests, NEW b, Take(r, b), ~running[GatewayOf[r]],
           mine'[r] = next[GatewayOf[r]], UNCHANGED verdict, verdict[r] = "none",
           \A q \in Requests : q # r => mine'[q] = mine[q]
    PROVE  /\ ServingOf(GatewayOf[r]) = {}
           /\ ServingOf(GatewayOf[r])' =
                {q \in Requests : GatewayOf[q] = GatewayOf[r] /\ (q = r \/ PhaseOf(q) = "asked")}
           /\ \A g \in Gateways : g # GatewayOf[r] => ServingOf(g)' = ServingOf(g)
           /\ PhaseOf(r)' = "asked"
           /\ \A q \in Requests : q # r => PhaseOf(q)' = PhaseOf(q)
<1> DEFINE g == GatewayOf[r]
<1>1. g \in Gateways /\ next[g] \in Nat /\ last[g] \in Nat /\ next[g] = last[g] + 1
  BY RecalcAssumption DEF QueueInv, TypeOK
<1>2. /\ running'[g] /\ next'[g] = next[g] + 1 /\ pc'[r] = "run"
      /\ \A q \in Requests : q # r => pc'[q] = pc[q]
      /\ \A h \in Gateways : h # g => running'[h] = running[h] /\ next'[h] = next[h]
  BY <1>1 DEF Take, Goto, TypeOK
<1>3. ServingOf(g) = {}
  BY DEF ServingOf
<1>4. PhaseOf(r)' = "asked" /\ \A q \in Requests : q # r => PhaseOf(q)' = PhaseOf(q)
  BY <1>2 DEF PhaseOf
<1>5. ASSUME NEW h \in Gateways, h # g PROVE ServingOf(h)' = ServingOf(h)
  <2>1. \A q \in Requests : Served(q, h)' <=> Served(q, h)
    BY <1>2, <1>5 DEF Served, Here, Queued
  <2> QED
    BY <1>2, <1>5, <2>1 DEF ServingOf
<1>6. ASSUME NEW q \in Requests
      PROVE  q \in ServingOf(g)' <=> GatewayOf[q] = g /\ (q = r \/ PhaseOf(q) = "asked")
  <2>1. CASE q = r
    BY <1>1, <1>2, <2>1 DEF ServingOf, Served, Here, Queued
  <2>2. CASE q # r
    <3>1. q \in ServingOf(g)' <=> GatewayOf[q] = g /\ Queued(q) /\ mine[q] = next[g] /\ verdict[q] = "none"
      BY <1>1, <1>2, <2>2 DEF ServingOf, Served, Here, Queued
    <3>2. Queued(q) => mine[q] \in 1..next[GatewayOf[q]] /\ (verdict[q] = "none" <=> mine[q] > last[GatewayOf[q]])
      BY DEF QueueInv
    <3>3. PhaseOf(q) = "asked" <=> Queued(q) /\ mine[q] > last[GatewayOf[q]]
      BY AskedServing
    <3> QED
      BY <1>1, <2>2, <3>1, <3>2, <3>3
  <2> QED
    BY <2>1, <2>2
<1>7. ServingOf(g)' \subseteq Requests
  BY DEF ServingOf
<1>8. ServingOf(g)' = {q \in Requests : GatewayOf[q] = g /\ (q = r \/ PhaseOf(q) = "asked")}
  BY <1>6, <1>7
<1> QED
  BY <1>3, <1>4, <1>5, <1>8

LEMMA PromiseStep == TypeOK /\ QueueInv /\ [Next]_vars => [Promise!PromiseNext]_(Promise!promiseVars)
<1> SUFFICES ASSUME TypeOK, QueueInv, [Next]_vars
             PROVE  Promise!PromiseNext \/ UNCHANGED Promise!promiseVars
  OBVIOUS
<1> USE DEF dbVars, queueVars, passVars, reqVars
<1>1. ASSUME UNCHANGED <<running, next, mine, verdict>>,
             \A r \in Requests : PhaseOf(r)' = PhaseOf(r) /\ (Queued(r)' <=> Queued(r))
      PROVE  UNCHANGED Promise!promiseVars
  <2>1. \A g \in Gateways : ServingOf(g)' = ServingOf(g)
    BY <1>1 DEF ServingOf, Served, Here
  <2> QED
    BY <1>1, <2>1, PromiseStutter
<1>2. ASSUME NEW r \in Requests, Enter(r) PROVE Promise!PromiseNext
  <2> DEFINE g == GatewayOf[r]
             b == Join(batch[g], ask[r])
  <2>1. /\ g \in Gateways /\ UNCHANGED verdict /\ verdict[r] = "none" /\ pc[r] = "load"
        /\ mine'[r] = next[g] /\ \A q \in Requests : q # r => mine'[q] = mine[q]
    <3>1. mine' = [mine EXCEPT ![r] = next[g]] /\ pc[r] = "load" /\ UNCHANGED verdict
      BY <1>2 DEF Enter, Turn
    <3>2. verdict[r] = "none"
      BY <3>1 DEF QueueInv
    <3> QED
      BY <3>1, <3>2, RecalcAssumption DEF TypeOK
  <2>2. PhaseOf(r) = "new"
    BY <2>1, PhaseMap
  <2>3. CASE ~running[g] /\ Take(r, b)
    <3> HIDE DEF b
    <3>1. /\ ServingOf(g) = {}
          /\ ServingOf(g)' = {q \in Requests : GatewayOf[q] = g /\ (q = r \/ PhaseOf(q) = "asked")}
          /\ \A h \in Gateways : h # g => ServingOf(h)' = ServingOf(h)
          /\ PhaseOf(r)' = "asked"
          /\ \A q \in Requests : q # r => PhaseOf(q)' = PhaseOf(q)
      BY <2>1, <2>3, TakeServes
    <3>2. ServingOf(g)' = {q \in Requests : GatewayOf[q] = g /\ phaseBar[q] = "asked"} \cup {r}
      BY <3>1 DEF phaseBar
    <3>3. phaseBar' = [phaseBar EXCEPT ![r] = "asked"]
      BY <3>1 DEF phaseBar
    <3>4. servingBar' = [servingBar EXCEPT ![g] =
                            {q \in Requests : GatewayOf[q] = g /\ phaseBar[q] = "asked"} \cup {r}]
      BY <2>1, <3>1, <3>2 DEF servingBar
    <3>5. Promise!AskAndBegin(r)
      BY <2>1, <2>2, <3>1, <3>3, <3>4
      DEF Promise!AskAndBegin, Promise!In, phaseBar, servingBar, ServingOf
    <3> QED
      BY <3>5 DEF Promise!PromiseNext
  <2>4. CASE running[g] /\ Goto(r, "wait") /\ UNCHANGED <<running, next>>
    <3>1. /\ PhaseOf(r)' = "asked"
          /\ \A q \in Requests : q # r => pc'[q] = pc[q] /\ PhaseOf(q)' = PhaseOf(q)
      BY <2>1, <2>4 DEF Goto, TypeOK, PhaseOf
    <3>2. ASSUME NEW h \in Gateways PROVE ServingOf(h)' = ServingOf(h)
      <4>1. ~Served(r, h) /\ ~Served(r, h)'
        BY <2>1, <2>4 DEF Served, Here, Queued, TypeOK
      <4>2. \A q \in Requests : q # r => (Served(q, h)' <=> Served(q, h))
        BY <2>1, <2>4, <3>1 DEF Served, Here, Queued
      <4> QED
        BY <2>1, <2>4, <4>1, <4>2 DEF ServingOf
    <3>3. phaseBar' = [phaseBar EXCEPT ![r] = "asked"]
      BY <3>1 DEF phaseBar
    <3>4. servingBar' = servingBar
      BY <3>2 DEF servingBar
    <3>5. Promise!Ask(r)
      BY <2>2, <3>3, <3>4 DEF Promise!Ask, phaseBar, servingBar, ServingOf
    <3> QED
      BY <3>5 DEF Promise!PromiseNext
  <2> QED
    BY <1>2, <2>3, <2>4 DEF Enter
<1>3. ASSUME NEW r \in Requests, RunNext(r) PROVE Promise!PromiseNext
  <2> DEFINE g == GatewayOf[r]
  <2>1. /\ g \in Gateways /\ UNCHANGED <<verdict, mine>> /\ Queued(r) /\ last[g] < mine[r]
        /\ ~running[g] /\ Take(r, batch[g])
    BY <1>3, RecalcAssumption DEF RunNext, Queued
  <2>2. verdict[r] = "none" /\ mine[r] = next[g]
    <3>1. next[g] = last[g] + 1 /\ mine[r] \in 1..next[g] /\ (verdict[r] = "none" <=> mine[r] > last[g])
      BY <2>1 DEF QueueInv
    <3>2. last[g] \in Nat /\ mine[r] \in Nat
      BY <2>1 DEF TypeOK
    <3> QED
      BY <2>1, <3>1, <3>2
  <2>3. PhaseOf(r) = "asked"
    BY <2>1, <2>2, PhaseMap
  <2>4. /\ ServingOf(g) = {}
        /\ ServingOf(g)' = {q \in Requests : GatewayOf[q] = g /\ (q = r \/ PhaseOf(q) = "asked")}
        /\ \A h \in Gateways : h # g => ServingOf(h)' = ServingOf(h)
        /\ PhaseOf(r)' = "asked"
        /\ \A q \in Requests : q # r => PhaseOf(q)' = PhaseOf(q)
    BY <2>1, <2>2, TakeServes
  <2>5. ServingOf(g)' = {q \in Requests : GatewayOf[q] = g /\ phaseBar[q] = "asked"}
    BY <2>3, <2>4 DEF phaseBar
  <2>6. phaseBar' = phaseBar
    BY <2>3, <2>4 DEF phaseBar
  <2>7. servingBar' = [servingBar EXCEPT ![g] = {q \in Requests : GatewayOf[q] = g /\ phaseBar[q] = "asked"}]
    BY <2>1, <2>4, <2>5 DEF servingBar
  <2>8. r \in {q \in Requests : GatewayOf[q] = g /\ phaseBar[q] = "asked"}
    BY <2>3 DEF phaseBar
  <2>9. Promise!BeginPass(g)
    BY <2>1, <2>4, <2>6, <2>7, <2>8 DEF Promise!BeginPass, Promise!In, phaseBar, servingBar, ServingOf
  <2> QED
    BY <2>1, <2>9 DEF Promise!PromiseNext
<1>4. ASSUME NEW r \in Requests, PhaseOf(r) \in {"new", "served"}, PhaseOf(r)' = "answered",
             \A q \in Requests : q # r => pc'[q] = pc[q],
             \A g \in Gateways : r \notin ServingOf(g) /\ ~Served(r, g)',
             UNCHANGED <<running, next, mine, verdict>>
      PROVE  Promise!PromiseNext
  <2>1. \A q \in Requests : q # r => PhaseOf(q)' = PhaseOf(q)
    BY <1>4 DEF PhaseOf
  <2>2. ASSUME NEW g \in Gateways PROVE ServingOf(g)' = ServingOf(g)
    <3>1. \A q \in Requests : q # r => (Served(q, g)' <=> Served(q, g))
      BY <1>4 DEF Served, Here, Queued
    <3>2. r \notin ServingOf(g)'
      BY <1>4 DEF ServingOf
    <3> QED
      BY <1>4, <3>1, <3>2 DEF ServingOf
  <2>3. phaseBar' = [phaseBar EXCEPT ![r] = "answered"] /\ servingBar' = servingBar
    BY <1>4, <2>1, <2>2 DEF phaseBar, servingBar
  <2>4. Promise!Answer(r)
    BY <1>4, <2>3 DEF Promise!Answer, phaseBar, servingBar, ServingOf
  <2> QED
    BY <2>4 DEF Promise!PromiseNext
<1>5. ASSUME NEW r \in Requests, LoadFails(r) PROVE Promise!PromiseNext
  <2>1. pc[r] = "load" /\ UNCHANGED <<running, next, mine, verdict>>
        /\ pc'[r] = "finish" /\ \A q \in Requests : q # r => pc'[q] = pc[q]
    BY <1>5 DEF LoadFails, Goto, TypeOK
  <2>2. PhaseOf(r) = "new" /\ PhaseOf(r)' = "answered"
    BY <2>1 DEF PhaseOf
  <2>3. \A g \in Gateways : r \notin ServingOf(g) /\ ~Served(r, g)'
    BY <2>1 DEF ServingOf, Served, Queued
  <2> QED
    BY <2>1, <2>2, <2>3, <1>4
<1>6. ASSUME NEW r \in Requests, Return(r) PROVE Promise!PromiseNext
  <2>1. Queued(r) /\ last[GatewayOf[r]] >= mine[r] /\ UNCHANGED <<running, next, mine, verdict>>
        /\ pc'[r] = "finish" /\ \A q \in Requests : q # r => pc'[q] = pc[q]
    BY <1>6 DEF Return, Goto, Queued, TypeOK
  <2>2. verdict[r] # "none"
    <3>1. verdict[r] = "none" <=> mine[r] > last[GatewayOf[r]]
      BY <2>1 DEF QueueInv
    <3>2. mine[r] \in Nat /\ last[GatewayOf[r]] \in Nat
      BY RecalcAssumption DEF TypeOK
    <3> QED
      BY <2>1, <3>1, <3>2
  <2>3. PhaseOf(r) = "served" /\ PhaseOf(r)' = "answered"
    BY <2>1, <2>2 DEF PhaseOf, Queued
  <2>4. \A g \in Gateways : r \notin ServingOf(g) /\ ~Served(r, g)'
    BY <2>1, <2>2 DEF ServingOf, Served, Queued
  <2> QED
    BY <2>1, <2>3, <2>4, <1>4
<1>7. ASSUME NEW g \in Gateways, NEW how \in Verdicts \ {"none"}, EndPass(g, how), stage[g] # "none"
      PROVE  Promise!PromiseNext
  <2>1. running[g] /\ UNCHANGED <<next, mine>> /\ ~running'[g]
        /\ \A h \in Gateways : h # g => running'[h] = running[h]
    BY <1>7 DEF EndPass, QueueInv, TypeOK
  <2>2. PICK run \in Requests : pc[run] = "run" /\ GatewayOf[run] = g
    BY <2>1 DEF QueueInv
  <2>3. run \in ServingOf(g)
    <3>1. mine[run] = next[g] - 1
      BY <2>2 DEF QueueInv
    <3> QED
      BY <2>1, <2>2, <3>1, AskedServing DEF Queued
  <2>4. ServingOf(g)' = {}
    BY <2>1 DEF ServingOf
  <2>5. ASSUME NEW h \in Gateways, h # g PROVE ServingOf(h)' = ServingOf(h)
    <3>1. \A q \in Requests : GatewayOf[q] = h => pc'[q] = pc[q] /\ verdict'[q] = verdict[q]
      BY <1>7, <2>5 DEF EndPass, Served, Here
    <3> QED
      BY <2>1, <2>5, <3>1 DEF ServingOf, Served, Here, Queued
  <2>6. servingBar' = [servingBar EXCEPT ![g] = {}]
    BY <2>4, <2>5 DEF servingBar
  <2>7. \A q \in Requests : q \in ServingOf(g) => /\ GatewayOf[q] = g /\ Queued(q) /\ verdict'[q] = how
                                                  /\ verdict[q] = "none"
    BY <1>7 DEF EndPass, ServingOf, Served, Here
  <2>8. \A q \in Requests : q \notin ServingOf(g) => verdict'[q] = verdict[q] /\ q # run
    BY <1>7, <2>1, <2>3 DEF EndPass, ServingOf
  <2>9. \A q \in Requests : q # run => /\ pc[q] = "run" => GatewayOf[q] # g
                                       /\ GatewayOf[q] = g /\ Queued(q) => pc'[q] = "woken"
                                       /\ GatewayOf[q] # g \/ ~Queued(q) => pc'[q] = pc[q]
    BY <1>7, <2>2 DEF EndPass, Here, Woken, Queued, QueueInv
  <2>10. ASSUME NEW q \in Requests, q # run
         PROVE  PhaseOf(q)' = IF q \in ServingOf(g) THEN "served" ELSE PhaseOf(q)
    <3>1. CASE q \in ServingOf(g)
      <4>1. pc'[q] = "woken" /\ verdict'[q] # "none"
        BY <2>7, <2>9, <2>10, <3>1
      <4> QED
        BY <3>1, <4>1 DEF PhaseOf
    <3>2. CASE q \notin ServingOf(g)
      <4>1. verdict'[q] = verdict[q]
        BY <2>8, <3>2
      <4>2. CASE GatewayOf[q] = g /\ Queued(q)
        BY <2>9, <2>10, <3>2, <4>1, <4>2 DEF PhaseOf, Queued
      <4>3. CASE ~(GatewayOf[q] = g /\ Queued(q))
        BY <2>9, <2>10, <3>2, <4>1, <4>3 DEF PhaseOf
      <4> QED
        BY <4>2, <4>3
    <3> QED
      BY <3>1, <3>2
  <2>11. CASE how = "panic"
    <3>1. pc'[run] = "finish"
      BY <1>7, <2>2, <2>11 DEF EndPass, Here
    <3>2. PhaseOf(run)' = "answered"
      BY <3>1 DEF PhaseOf
    <3>3. phaseBar' = [q \in Requests |-> IF q = run THEN "answered"
                                          ELSE IF q \in servingBar[g] THEN "served" ELSE phaseBar[q]]
      BY <2>10, <3>2 DEF phaseBar, servingBar
    <3>4. Promise!PanicPass(g)
      BY <2>3, <2>6, <3>3 DEF Promise!PanicPass, phaseBar, servingBar, ServingOf
    <3> QED
      BY <3>4 DEF Promise!PromiseNext
  <2>12. CASE how # "panic"
    <3>1. pc'[run] = "woken" /\ verdict'[run] # "none"
      BY <1>7, <2>2, <2>3, <2>7, <2>12 DEF EndPass, Here, Woken
    <3>2. PhaseOf(run)' = "served"
      BY <3>1 DEF PhaseOf
    <3>3. phaseBar' = [q \in Requests |-> IF q \in servingBar[g] THEN "served" ELSE phaseBar[q]]
      BY <2>3, <2>10, <3>2 DEF phaseBar, servingBar
    <3>4. Promise!EndPass(g)
      BY <2>3, <2>6, <3>3 DEF Promise!EndPass, phaseBar, servingBar, ServingOf
    <3> QED
      BY <3>4 DEF Promise!PromiseNext
  <2> QED
    BY <2>11, <2>12
<1>8. ASSUME NEW g \in Gateways, Crash(g) PROVE Promise!PromiseNext
  <2>1. /\ UNCHANGED verdict /\ ~running'[g]
        /\ \A h \in Gateways : h # g => running'[h] = running[h] /\ next'[h] = next[h]
        /\ \A r \in Requests : GatewayOf[r] # g => pc'[r] = pc[r] /\ mine'[r] = mine[r]
        /\ \A r \in Requests : GatewayOf[r] = g =>
                pc'[r] = IF pc[r] \in {"idle", "over"} THEN pc[r] ELSE "lost"
    BY <1>8 DEF Crash, Here, TypeOK
  <2>2. ServingOf(g)' = {}
    BY <2>1 DEF ServingOf
  <2>3. ASSUME NEW h \in Gateways, h # g PROVE ServingOf(h)' = ServingOf(h)
    BY <2>1, <2>3 DEF ServingOf, Served, Here, Queued
  <2>4. servingBar' = [servingBar EXCEPT ![g] = {}]
    BY <2>2, <2>3 DEF servingBar
  <2>5. ASSUME NEW r \in Requests
        PROVE  /\ PhaseOf(r)' \in {"new", "asked", "served", "answered", "lost"}
               /\ \/ PhaseOf(r)' = PhaseOf(r) /\ ~(GatewayOf[r] = g /\ PhaseOf(r) \in {"asked", "served"})
                  \/ PhaseOf(r)' = "lost" /\ GatewayOf[r] = g
    <3>1. PhaseOf(r)' \in {"new", "asked", "served", "answered", "lost"}
      BY DEF PhaseOf
    <3>2. CASE GatewayOf[r] # g
      BY <2>1, <3>1, <3>2 DEF PhaseOf
    <3>3. CASE GatewayOf[r] = g /\ pc[r] \in {"idle", "over"}
      BY <2>1, <3>1, <3>3 DEF PhaseOf
    <3>4. CASE GatewayOf[r] = g /\ pc[r] \notin {"idle", "over"}
      BY <2>1, <3>1, <3>4 DEF PhaseOf
    <3> QED
      BY <3>2, <3>3, <3>4
  <2>6. Promise!Lose(g)
    <3>1. phaseBar' \in [Requests -> {"new", "asked", "served", "answered", "lost"}]
      BY <2>5 DEF phaseBar
    <3>2. \A r \in Requests :
            \/ phaseBar'[r] = phaseBar[r] /\ ~(GatewayOf[r] = g /\ phaseBar[r] \in {"asked", "served"})
            \/ phaseBar'[r] = "lost" /\ GatewayOf[r] = g
      BY <2>5 DEF phaseBar
    <3> QED
      BY <2>4, <3>1, <3>2 DEF Promise!Lose, phaseBar, servingBar, ServingOf
  <2> QED
    BY <2>6 DEF Promise!PromiseNext
<1> QED
  <2>1. ASSUME NEW r \in Requests, Write(r) \/ Mark(r) \/ MarkFails(r) \/ WaitOn(r)
        PROVE  UNCHANGED Promise!promiseVars
    <3>1. UNCHANGED <<running, next, mine, verdict>>
      BY <2>1 DEF Write, Mark, MarkFails, WaitOn
    <3>2. \A q \in Requests : q # r => pc'[q] = pc[q]
      BY <2>1 DEF Write, Mark, MarkFails, WaitOn, Goto, TypeOK
    <3>3. \/ pc[r] \in {"idle", "mark"} /\ pc'[r] \in {"mark", "load"}
          \/ pc[r] = "woken" /\ pc'[r] = "wait"
      BY <2>1 DEF Write, Mark, MarkFails, WaitOn, Goto, TypeOK
    <3>4. PhaseOf(r)' = PhaseOf(r) /\ (Queued(r)' <=> Queued(r))
      BY <3>1, <3>3 DEF PhaseOf, Queued
    <3>5. \A q \in Requests : q # r => PhaseOf(q)' = PhaseOf(q) /\ (Queued(q)' <=> Queued(q))
      BY <3>1, <3>2 DEF PhaseOf, Queued
    <3> QED
      BY <3>1, <3>4, <3>5, <1>1
  <2>2. ASSUME NEW r \in Requests, Finish(r) \/ FinishFails(r) PROVE UNCHANGED Promise!promiseVars
    <3>1. UNCHANGED <<running, next, verdict>> /\ pc[r] = "finish" /\ pc'[r] = "over"
          /\ \A q \in Requests : q # r => pc'[q] = pc[q] /\ mine'[q] = mine[q]
      BY <2>2 DEF Finish, FinishFails, Leave, Goto, TypeOK
    <3>2. \A q \in Requests : PhaseOf(q)' = PhaseOf(q)
      BY <3>1 DEF PhaseOf
    <3>3. \A q \in Requests, g \in Gateways : Served(q, g)' <=> Served(q, g)
      BY <3>1 DEF Served, Here, Queued
    <3>4. \A g \in Gateways : ServingOf(g)' = ServingOf(g)
      BY <3>1, <3>3 DEF ServingOf
    <3> QED
      BY <3>2, <3>4, PromiseStutter
  <2>3. ASSUME UNCHANGED <<running, next, mine, verdict, pc>> PROVE UNCHANGED Promise!promiseVars
    BY <2>3, <1>1 DEF PhaseOf, Queued
  <2>4. ASSUME NEW g \in Gateways, Lock(g) \/ Plan(g) \/ TimesOut(g) PROVE UNCHANGED Promise!promiseVars
    BY <2>4, <2>3 DEF Lock, Plan, TimesOut
  <2>5. ASSUME NEW g \in Gateways, NEW m \in Metrics, Begin(g, m) \/ Skip(g, m) \/ Stores(g, m)
        PROVE  UNCHANGED Promise!promiseVars
    BY <2>5, <2>3 DEF Begin, Skip, Stores, Complete, Errs, Unrecorded
  <2>6. CASE UNCHANGED vars
    BY <2>6, <2>3 DEF vars
  <2> QED
    BY <1>2, <1>3, <1>5, <1>6, <1>7, <1>8, <2>1, <2>2, <2>4, <2>5, <2>6, PassOver
    DEF Next, Call, Loop, Work, Stores

\* The pass queue implements RecalcPromise (KeepsPromise): a request returns
\* only once a pass that began after it has ended, whoever ran that pass, and
\* a pass serves every request that was waiting when it began.
THEOREM QueueKeepsPromise == Spec => KeepsPromise
<1>1. PassInv /\ [Next]_vars => [Promise!PromiseNext]_(Promise!promiseVars)
  BY PromiseStep DEF PassInv
<1> QED
  BY <1>1, PromiseInitial, PassInvariant, PTL DEF Spec, KeepsPromise, Promise!PromiseSpec

=============================================================================

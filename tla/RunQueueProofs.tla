---------------------------- MODULE RunQueueProofs ----------------------------
(***************************************************************************)
(* Theorems about RunQueue, for every number of processes, slots, runs,    *)
(* pages and failures.                                                     *)
(***************************************************************************)
EXTENDS RunQueue, TLAPS

-----------------------------------------------------------------------------
(* Type correctness. *)

LEMMA InitType == Init => TypeOK
  BY RunQueueAssumption DEF Init, TypeOK, Busy, Steps, Results, Settled, NoRun, NoProc

LEMMA LeaseType ==
    ASSUME TypeOK, NEW r \in Runs, NEW p \in Procs, Lease(r, p)
    PROVE  /\ status' \in [Runs -> Settled \cup {"absent", "queued", "running"}]
           /\ owner' \in [Runs -> Procs \cup {NoProc}]
           /\ lease' \in [Runs -> {"null", "held", "lapsed"}]
           /\ job' = job /\ cancel' = cancel
  BY DEF TypeOK, Lease

LEMMA EndsType ==
    ASSUME TypeOK, NEW s \in Slots, NEW res \in Results, Ends(s, res)
    PROVE  /\ pc' \in [Slots -> Steps]
           /\ result' \in [Slots -> Results]
           /\ UNCHANGED <<run, page, sent, errs, live, told>>
           /\ Busy(s) => \A t \in Slots : Busy(t)' => run'[t] \in Runs
  BY DEF TypeOK, Ends, Goto, Steps, Busy

LEMMA GotoType ==
    ASSUME TypeOK, NEW s \in Slots, NEW step \in Steps, Goto(s, step)
    PROVE  /\ pc' \in [Slots -> Steps]
           /\ Busy(s) /\ UNCHANGED run => \A t \in Slots : Busy(t)' => run'[t] \in Runs
  BY DEF TypeOK, Goto, Busy

LEMMA EndsKeepsType ==
    ASSUME TypeOK, NEW s \in Slots, Busy(s), NEW res \in Results, Ends(s, res),
           writes' \in [Runs -> Nat], UNCHANGED <<rowVars, proc, events, budget>>
    PROVE  TypeOK'
<1>1. /\ pc' \in [Slots -> Steps] /\ result' \in [Slots -> Results]
      /\ UNCHANGED <<run, page, sent, errs, live, told>>
      /\ \A t \in Slots : Busy(t)' => run'[t] \in Runs
  BY EndsType
<1> QED
  BY <1>1 DEF TypeOK, rowVars

LEMMA GotoKeepsType ==
    ASSUME TypeOK, NEW s \in Slots, Busy(s), NEW step \in Steps, Goto(s, step),
           writes' \in [Runs -> Nat], page' \in [Slots -> 1..MaxPages],
           sent' \in [Slots -> BOOLEAN], errs' \in [Slots -> BOOLEAN],
           UNCHANGED <<rowVars, run, result, live, told, proc, events, budget>>
    PROVE  TypeOK'
<1>1. pc' \in [Slots -> Steps] /\ \A t \in Slots : Busy(t)' => run'[t] \in Runs
  BY GotoType
<1> QED
  BY <1>1 DEF TypeOK, rowVars

LEMMA FreeType ==
    ASSUME TypeOK, NEW S \in SUBSET Slots, Free(S)
    PROVE  /\ pc'     \in [Slots -> Steps]
           /\ run'    \in [Slots -> Runs \cup {NoRun}]
           /\ page'   \in [Slots -> 1..MaxPages]
           /\ sent'   \in [Slots -> BOOLEAN]
           /\ errs'   \in [Slots -> BOOLEAN]
           /\ result' \in [Slots -> Results]
           /\ live'   \in [Slots -> BOOLEAN]
           /\ told'   \in [Slots -> BOOLEAN]
           /\ \A t \in Slots : Busy(t)' => run'[t] \in Runs
  BY RunQueueAssumption DEF TypeOK, Free, Busy, Steps, Results, Settled, NoRun

LEMMA FaultType ==
    ASSUME TypeOK, NEW kind, Fault(kind)
    PROVE  budget' \in 0..MaxFaults /\ kind \in Faults
  BY RunQueueAssumption DEF TypeOK, Fault

LEMMA PushResultType ==
    ASSUME NEW s, NEW wrote, NEW failed
    PROVE  PushResult(s, wrote, failed) \in Results
  BY DEF PushResult, Results, Settled

LEMMA StepType == TypeOK /\ [Next]_vars => TypeOK'
<1> SUFFICES ASSUME TypeOK, [Next]_vars PROVE TypeOK'
  OBVIOUS
<1> USE RunQueueAssumption
<1>1. ASSUME NEW r \in Runs, Enqueue(r) PROVE TypeOK'
  BY <1>1 DEF Enqueue, TypeOK, Busy, slotVars
<1>2. ASSUME NEW r \in Runs, Cancel(r) PROVE TypeOK'
  BY <1>2 DEF Cancel, TypeOK, Busy, slotVars, Settled
<1>3. ASSUME NEW s \in Slots, NEW r \in Runs, Claim(s, r) PROVE TypeOK'
  <2>1. ProcOf[s] \in Procs
    OBVIOUS
  <2>2. Lease(r, ProcOf[s])
    BY <1>3 DEF Claim
  <2>3. cancel[r] \in BOOLEAN
    BY DEF TypeOK, Busy
  <2> QED
    BY <1>3, <2>1, <2>2, <2>3, LeaseType DEF Claim, TypeOK, Busy, Steps, Results, Settled
<1>4. ASSUME NEW s \in Slots, NEW r \in Runs, ClaimUnread(s, r) PROVE TypeOK'
  <2>1. ProcOf[s] \in Procs /\ Lease(r, ProcOf[s])
    BY <1>4 DEF ClaimUnread
  <2>2. UNCHANGED <<slotVars, proc, writes, events>> /\ budget' \in 0..MaxFaults
    BY <1>4, FaultType DEF ClaimUnread
  <2> QED
    BY <2>1, <2>2, LeaseType DEF TypeOK, Busy, slotVars
<1>5. ASSUME NEW s \in Slots, NEW r \in Runs, Heartbeat(s, r) PROVE TypeOK'
  BY <1>5 DEF Heartbeat, TypeOK, Busy, slotVars
<1>6. ASSUME NEW r \in Runs, LapseUnattended(r) PROVE TypeOK'
  BY <1>6 DEF LapseUnattended, TypeOK, Busy, slotVars
<1>7. ASSUME NEW r \in Runs, LapseAttended(r) PROVE TypeOK'
  BY <1>7, FaultType DEF LapseAttended, TypeOK, Busy, slotVars
<1>8. ASSUME NEW s \in Slots, Load(s) PROVE TypeOK'
  <2>1. Busy(s) /\ UNCHANGED <<rowVars, proc, writes, events, budget>>
    BY <1>8 DEF Load, Busy
  <2>2. writes' \in [Runs -> Nat]
    BY <2>1 DEF TypeOK
  <2>3. CASE \E res \in Results : Ends(s, res)
    BY <2>1, <2>2, <2>3, EndsKeepsType
  <2>4. ASSUME NEW bad \in BOOLEAN, errs' = [errs EXCEPT ![s] = bad],
               NEW step \in {"check", "request"}, Goto(s, step),
               UNCHANGED <<run, page, sent, result, live, told>>
        PROVE  TypeOK'
    <3>1. /\ errs' \in [Slots -> BOOLEAN] /\ sent' \in [Slots -> BOOLEAN]
          /\ page' \in [Slots -> 1..MaxPages]
      BY <2>4 DEF TypeOK
    <3>2. step \in Steps
      BY DEF Steps
    <3> QED
      BY <2>1, <2>2, <2>4, <3>1, <3>2, GotoKeepsType
  <2>5. \/ \E res \in Results : Ends(s, res)
        \/ \E bad \in BOOLEAN, step \in {"check", "request"} :
             /\ errs' = [errs EXCEPT ![s] = bad]
             /\ Goto(s, step)
             /\ UNCHANGED <<run, page, sent, result, live, told>>
    BY <1>8, PushResultType DEF Load, Results, Settled
  <2> QED
    BY <2>3, <2>4, <2>5
<1>9. ASSUME NEW s \in Slots, CheckCancel(s) PROVE TypeOK'
  <2>1. Busy(s) /\ UNCHANGED <<rowVars, proc, writes, events, budget>>
    BY <1>9 DEF CheckCancel, Busy
  <2>2. writes' \in [Runs -> Nat]
    BY <2>1 DEF TypeOK
  <2>3. CASE Ends(s, "cancelled")
    BY <2>1, <2>2, <2>3, EndsKeepsType DEF Results, Settled
  <2>4. CASE Goto(s, "request") /\ UNCHANGED <<run, page, sent, errs, result, live, told>>
    <3>1. /\ errs' \in [Slots -> BOOLEAN] /\ sent' \in [Slots -> BOOLEAN]
          /\ page' \in [Slots -> 1..MaxPages] /\ "request" \in Steps
      BY <2>4 DEF TypeOK, Steps
    <3> QED
      BY <2>1, <2>2, <2>4, <3>1, GotoKeepsType
  <2> QED
    BY <1>9, <2>3, <2>4 DEF CheckCancel
<1>10. ASSUME NEW s \in Slots, Fetch(s) PROVE TypeOK'
  <2>1. Busy(s) /\ UNCHANGED <<rowVars, proc, writes, events, budget>>
    BY <1>10 DEF Fetch, FetchPage, ReadModel, Busy
  <2>2. writes' \in [Runs -> Nat]
    BY <2>1 DEF TypeOK
  <2>3. CASE Ends(s, "failed")
    BY <2>1, <2>2, <2>3, EndsKeepsType DEF Results, Settled
  <2>4. CASE MorePages(s) /\ page' = [page EXCEPT ![s] = @ + 1] /\ Goto(s, "check")
             /\ UNCHANGED <<run, sent, errs, result, live, told>>
    <3>1. page' \in [Slots -> 1..MaxPages]
      BY <2>4 DEF TypeOK, MorePages
    <3>2. errs' \in [Slots -> BOOLEAN] /\ sent' \in [Slots -> BOOLEAN] /\ "check" \in Steps
      BY <2>4 DEF TypeOK, Steps
    <3> QED
      BY <2>1, <2>2, <2>4, <3>1, <3>2, GotoKeepsType
  <2>5. CASE Goto(s, "commit") /\ UNCHANGED <<run, page, sent, errs, result, live, told>>
    <3>1. /\ errs' \in [Slots -> BOOLEAN] /\ sent' \in [Slots -> BOOLEAN]
          /\ page' \in [Slots -> 1..MaxPages] /\ "commit" \in Steps
      BY <2>5 DEF TypeOK, Steps
    <3> QED
      BY <2>1, <2>2, <2>5, <3>1, GotoKeepsType
  <2> QED
    BY <1>10, <2>3, <2>4, <2>5 DEF Fetch, FetchPage, ReadModel
<1>11. ASSUME NEW s \in Slots, Commit(s) PROVE TypeOK'
  <2>1. writes' \in [Runs -> Nat]
    <3>1. writes' = writes \/ writes' = [writes EXCEPT ![run[s]] = @ + 1]
      BY <1>11 DEF Commit
    <3>2. run[s] \in Runs
      BY <1>11 DEF TypeOK, Busy, Commit
    <3>3. writes \in [Runs -> Nat] /\ writes[run[s]] + 1 \in Nat
      BY <3>2 DEF TypeOK
    <3> QED
      BY <3>1, <3>2, <3>3
  <2>2. Busy(s) /\ UNCHANGED <<rowVars, proc, events, budget>>
    BY <1>11 DEF Commit, Busy
  <2>3. CASE \E res \in Results : Ends(s, res)
    BY <2>1, <2>2, <2>3, EndsKeepsType
  <2>4. CASE Goto(s, "written") /\ UNCHANGED <<run, page, sent, errs, result, live, told>>
    <3>1. /\ errs' \in [Slots -> BOOLEAN] /\ sent' \in [Slots -> BOOLEAN]
          /\ page' \in [Slots -> 1..MaxPages] /\ "written" \in Steps
      BY <2>4 DEF TypeOK, Steps
    <3> QED
      BY <2>1, <2>2, <2>4, <3>1, GotoKeepsType
  <2> QED
    BY <1>11, <2>3, <2>4 DEF Commit, Results, Settled
<1>12. ASSUME NEW s \in Slots, Written(s) PROVE TypeOK'
  <2>1. Busy(s) /\ UNCHANGED <<rowVars, proc, writes, events, budget>>
    BY <1>12 DEF Written, Busy
  <2>2. writes' \in [Runs -> Nat]
    BY <2>1 DEF TypeOK
  <2>3. \E res \in Results : Ends(s, res)
    BY <1>12 DEF Written, Results, Settled
  <2> QED
    BY <2>1, <2>2, <2>3, EndsKeepsType
<1>13. ASSUME NEW s \in Slots, Send(s) PROVE TypeOK'
  <2>1. writes' \in [Runs -> Nat]
    <3>1. writes' = writes \/ writes' = [writes EXCEPT ![run[s]] = @ + 1]
      BY <1>13 DEF Send
    <3>2. run[s] \in Runs
      BY <1>13 DEF TypeOK, Busy, Send
    <3>3. writes \in [Runs -> Nat] /\ writes[run[s]] + 1 \in Nat
      BY <3>2 DEF TypeOK
    <3> QED
      BY <3>1, <3>2, <3>3
  <2>2. Busy(s) /\ UNCHANGED <<rowVars, proc, events, budget>>
    BY <1>13 DEF Send, Busy
  <2>3. CASE \E res \in Results : Ends(s, res)
    BY <2>1, <2>2, <2>3, EndsKeepsType
  <2>4. ASSUME NEW wrote \in BOOLEAN, NEW failed \in BOOLEAN, MorePages(s),
               page' = [page EXCEPT ![s] = @ + 1],
               sent' = [sent EXCEPT ![s] = wrote], errs' = [errs EXCEPT ![s] = failed],
               Goto(s, "check"), UNCHANGED <<run, result, live, told>>
        PROVE  TypeOK'
    <3>1. page' \in [Slots -> 1..MaxPages]
      BY <2>4 DEF TypeOK, MorePages
    <3>2. sent' \in [Slots -> BOOLEAN] /\ errs' \in [Slots -> BOOLEAN] /\ "check" \in Steps
      BY <2>4 DEF TypeOK, Steps
    <3> QED
      BY <2>1, <2>2, <2>4, <3>1, <3>2, GotoKeepsType
  <2>5. CASE Ends(s, "failed") \/ Ends(s, PushResult(s, FALSE, errs[s]))
    BY <2>3, <2>5, PushResultType DEF Results, Settled
  <2>6. ASSUME NEW ok \in BOOLEAN,
               Ends(s, IF Job(s).conn = "batch" /\ ~ok
                       THEN IF sent[s] THEN "partial" ELSE "failed"
                       ELSE PushResult(s, sent[s] \/ ok, errs[s] \/ ~ok))
        PROVE  TypeOK'
    <3>1. (IF Job(s).conn = "batch" /\ ~ok
           THEN IF sent[s] THEN "partial" ELSE "failed"
           ELSE PushResult(s, sent[s] \/ ok, errs[s] \/ ~ok)) \in Results
      BY PushResultType DEF Results, Settled
    <3> QED
      BY <2>3, <2>6, <3>1
  <2>7. sent[s] \in BOOLEAN /\ errs[s] \in BOOLEAN
    BY DEF TypeOK
  <2> QED
    BY <1>13, <2>4, <2>5, <2>6, <2>7 DEF Send
<1>14. ASSUME NEW s \in Slots, Finish(s) PROVE TypeOK'
  <2>1. /\ status' \in [Runs -> Settled \cup {"absent", "queued", "running"}]
        /\ lease' \in [Runs -> {"null", "held", "lapsed"}]
        /\ cancel' \in [Runs -> BOOLEAN]
    <3>1. result[s] \in Settled /\ run[s] \in Runs
      BY <1>14 DEF TypeOK, Busy, Results, Finish
    <3>2. CASE live[s]
      <4>1. /\ status' = [status EXCEPT ![run[s]] = result[s]]
            /\ lease' = [lease EXCEPT ![run[s]] = "null"]
            /\ cancel' = [cancel EXCEPT ![run[s]] = FALSE]
        BY <1>14, <3>2 DEF Finish
      <4> QED
        BY <3>1, <4>1 DEF TypeOK
    <3>3. CASE ~live[s]
      BY <1>14, <3>3 DEF Finish, TypeOK
    <3> QED
      BY <3>2, <3>3
  <2> QED
    BY <1>14, <2>1, GotoType DEF Finish, TypeOK, Busy, Steps
<1>15. ASSUME NEW s \in Slots, Dispatch(s) PROVE TypeOK'
  <2>1. Free({s})
    BY <1>15 DEF Dispatch
  <2>2. EventOf(result[s]) \in {"integration_completed", "integration_failed"}
    BY DEF EventOf
  <2>3. events' \in [Runs -> Seq({"integration_completed", "integration_failed"})]
    <3> DEFINE E == {"integration_completed", "integration_failed"}
    <3>1. run[s] \in Runs /\ Append(events[run[s]], EventOf(result[s])) \in Seq(E)
      BY <1>15, <2>2 DEF TypeOK, Busy, Dispatch
    <3>2. \/ events' = events
          \/ events' = [events EXCEPT ![run[s]] = Append(@, EventOf(result[s]))]
      BY <1>15 DEF Dispatch
    <3>3. events \in [Runs -> Seq(E)]
      BY DEF TypeOK, Busy
    <3> HIDE DEF E
    <3> QED
      BY <3>1, <3>2, <3>3 DEF E
  <2> QED
    BY <1>15, <2>1, <2>3, FreeType DEF Dispatch, TypeOK, Busy, rowVars
<1>16. ASSUME NEW s \in Slots, CheckUnread(s) PROVE TypeOK'
  BY <1>16, GotoType, FaultType DEF CheckUnread, TypeOK, Busy, rowVars, Steps
<1>17. ASSUME NEW s \in Slots, FinishFails(s) PROVE TypeOK'
  BY <1>17, GotoType, FaultType DEF FinishFails, TypeOK, Busy, rowVars, Steps
<1>18. ASSUME NEW s \in Slots, Timeout(s) PROVE TypeOK'
  BY <1>18, FaultType DEF Timeout, TypeOK, Busy, rowVars
<1>19. ASSUME NEW p \in Procs, Start(p) PROVE TypeOK'
  BY <1>19 DEF Start, TypeOK, Busy, rowVars, slotVars
<1>20. ASSUME NEW p \in Procs, Shutdown(p) PROVE TypeOK'
  BY <1>20, FaultType DEF Shutdown, TypeOK, Busy, rowVars
<1>21. ASSUME NEW p \in Procs, Exit(p) PROVE TypeOK'
  BY <1>21 DEF Exit, TypeOK, Busy, rowVars, slotVars
<1>22. ASSUME NEW p \in Procs, Crash(p) PROVE TypeOK'
  <2>1. Free({s \in Slots : ProcOf[s] = p})
    BY <1>22 DEF Crash
  <2>2. {s \in Slots : ProcOf[s] = p} \in SUBSET Slots
    OBVIOUS
  <2> QED
    BY <1>22, <2>1, <2>2, FreeType, FaultType DEF Crash, TypeOK, Busy, rowVars
<1>23. CASE UNCHANGED vars
  BY <1>23 DEF vars, rowVars, slotVars, TypeOK, Busy
<1> QED
  BY <1>1, <1>2, <1>3, <1>4, <1>5, <1>6, <1>7, <1>8, <1>9, <1>10, <1>11, <1>12, <1>13,
     <1>14, <1>15, <1>16, <1>17, <1>18, <1>19, <1>20, <1>21, <1>22, <1>23
     DEF Next, Attempt

\* Every reachable state is well typed, whatever fails and however often.
THEOREM TypeCorrect == Spec => []TypeOK
  BY InitType, StepType, PTL DEF Spec

-----------------------------------------------------------------------------
(* The lease: one attempt that can write, and a settled run stays settled. *)

\* A step of an attempt that touches no row and leaves the attempt executing.
QuietStep(s) ==
    /\ pc[s] \notin {"idle", "event"}
    /\ \E step \in Steps \ {"idle"} : pc' = [pc EXCEPT ![s] = step]
    /\ UNCHANGED <<rowVars, run, live, told, proc, events>>

LEMMA QuietSteps ==
    ASSUME NEW s \in Slots,
           Load(s) \/ CheckCancel(s) \/ CheckUnread(s) \/ Fetch(s) \/ Commit(s)
             \/ Written(s) \/ Send(s) \/ FinishFails(s)
    PROVE  QuietStep(s)
<1>1. CASE Load(s)
  BY <1>1 DEF Load, QuietStep, Ends, Goto, Steps
<1>2. CASE CheckCancel(s)
  BY <1>2 DEF CheckCancel, QuietStep, Ends, Goto, Steps
<1>3. CASE CheckUnread(s)
  BY <1>3 DEF CheckUnread, QuietStep, Goto, Steps
<1>4. CASE Fetch(s)
  BY <1>4 DEF Fetch, FetchPage, ReadModel, QuietStep, Ends, Goto, Steps
<1>5. CASE Commit(s)
  BY <1>5 DEF Commit, QuietStep, Ends, Goto, Steps
<1>6. CASE Written(s)
  BY <1>6 DEF Written, QuietStep, Ends, Goto, Steps
<1>7. CASE Send(s)
  <2>1. \/ \E res : Ends(s, res)
        \/ Goto(s, "check") /\ UNCHANGED <<run, result, live, told>>
    BY <1>7 DEF Send
  <2> QED
    BY <1>7, <2>1 DEF Send, QuietStep, Ends, Goto, Steps
<1>8. CASE FinishFails(s)
  BY <1>8 DEF FinishFails, QuietStep, Goto, Steps
<1> QED
  BY <1>1, <1>2, <1>3, <1>4, <1>5, <1>6, <1>7, <1>8

LEMMA LeaseInit == Init => LeaseInv
  BY DEF Init, LeaseInv, LeaseMeansRunning, AttemptHoldsLease, ExclusiveAttempt, Busy

\* A claim takes a run that no attempt able to write is executing.
LEMMA ClaimedIsFree ==
    ASSUME TypeOK, LeaseInv, NEW r \in Runs, NEW p \in Procs, Claimable(r, p)
    PROVE  /\ \A t \in Slots : Busy(t) /\ live[t] => run[t] # r
           /\ status[r] \notin Settled
<1>1. status[r] \in {"queued", "running"} /\ lease[r] # "held"
  BY DEF Claimable, LeaseInv, LeaseMeansRunning
<1> QED
  BY <1>1 DEF LeaseInv, AttemptHoldsLease, Settled, TypeOK

LEMMA LeaseStep ==
    ASSUME "heartbeat" \notin Faults
    PROVE  TypeOK /\ LeaseInv /\ [Next]_vars => LeaseInv'
<1> SUFFICES ASSUME TypeOK, LeaseInv, [Next]_vars PROVE LeaseInv'
  OBVIOUS
<1> USE RunQueueAssumption
<1> USE DEF LeaseInv, LeaseMeansRunning, AttemptHoldsLease, ExclusiveAttempt, Busy
<1>1. ASSUME NEW r \in Runs, Enqueue(r) PROVE LeaseInv'
  BY <1>1 DEF Enqueue, TypeOK, slotVars, Settled
<1>2. ASSUME NEW r \in Runs, Cancel(r) PROVE LeaseInv'
  BY <1>2 DEF Cancel, TypeOK, slotVars, Settled
<1>3. ASSUME NEW s \in Slots, NEW r \in Runs, Claim(s, r) PROVE LeaseInv'
  <2>1. \A t \in Slots : Busy(t) /\ live[t] => run[t] # r
    BY <1>3, ClaimedIsFree DEF Claim, Lease
  <2>2. /\ status' = [status EXCEPT ![r] = "running"]
        /\ owner' = [owner EXCEPT ![r] = ProcOf[s]]
        /\ lease' = [lease EXCEPT ![r] = "held"]
        /\ pc' = [pc EXCEPT ![s] = "load"]
        /\ run' = [run EXCEPT ![s] = r]
        /\ live' = [live EXCEPT ![s] = TRUE]
    BY <1>3 DEF Claim, Lease
  <2>3. LeaseMeansRunning'
    BY <2>2 DEF TypeOK
  <2>4. AttemptHoldsLease'
    BY <2>1, <2>2 DEF TypeOK
  <2>5. ExclusiveAttempt'
    BY <2>1, <2>2 DEF TypeOK
  <2> QED
    BY <2>3, <2>4, <2>5
<1>4. ASSUME NEW s \in Slots, NEW r \in Runs, ClaimUnread(s, r) PROVE LeaseInv'
  <2>1. \A t \in Slots : Busy(t) /\ live[t] => run[t] # r
    BY <1>4, ClaimedIsFree DEF ClaimUnread, Lease
  <2>2. /\ status' = [status EXCEPT ![r] = "running"]
        /\ owner' = [owner EXCEPT ![r] = ProcOf[s]]
        /\ lease' = [lease EXCEPT ![r] = "held"]
        /\ UNCHANGED slotVars
    BY <1>4 DEF ClaimUnread, Lease
  <2> QED
    BY <2>1, <2>2 DEF TypeOK, slotVars
<1>5. ASSUME NEW s \in Slots, NEW r \in Runs, Heartbeat(s, r) PROVE LeaseInv'
  BY <1>5 DEF Heartbeat, TypeOK, slotVars
<1>6. ASSUME NEW r \in Runs, LapseUnattended(r) PROVE LeaseInv'
  <2>1. \A s \in Slots : Busy(s) /\ live[s] => run[s] # r
    BY <1>6 DEF LapseUnattended, Beats, Settled
  <2> QED
    BY <1>6, <2>1 DEF LapseUnattended, TypeOK, slotVars
<1>7. ASSUME NEW r \in Runs, LapseAttended(r) PROVE LeaseInv'
  BY <1>7, FaultType DEF LapseAttended
<1>8. ASSUME NEW s \in Slots, QuietStep(s) PROVE LeaseInv'
  BY <1>8 DEF QuietStep, TypeOK, rowVars
<1>9. ASSUME NEW s \in Slots, Finish(s) PROVE LeaseInv'
  <2>1. CASE live[s]
    <3>1. /\ status' = [status EXCEPT ![run[s]] = result[s]]
          /\ lease' = [lease EXCEPT ![run[s]] = "null"]
          /\ pc' = [pc EXCEPT ![s] = "event"]
          /\ UNCHANGED <<owner, run, live>>
      BY <1>9, <2>1 DEF Finish, Goto
    <3>2. run[s] \in Runs /\ result[s] \in Settled /\ Busy(s)
      BY <1>9 DEF Finish, TypeOK, Results
    <3>3. \A t \in Slots \ {s} : Busy(t) /\ live[t] => run[t] # run[s]
      BY <2>1, <3>2
    <3> QED
      BY <2>1, <3>1, <3>2, <3>3 DEF TypeOK
  <2>2. CASE ~live[s]
    BY <1>9, <2>2 DEF Finish, Goto, TypeOK
  <2> QED
    BY <2>1, <2>2
<1>10. ASSUME NEW S \in SUBSET Slots, Free(S), UNCHANGED rowVars PROVE LeaseInv'
  BY <1>10 DEF Free, TypeOK, rowVars
<1>11. ASSUME NEW s \in Slots, Timeout(s) PROVE LeaseInv'
  BY <1>11 DEF Timeout, TypeOK, rowVars
<1>12. ASSUME NEW p \in Procs, Shutdown(p) PROVE LeaseInv'
  BY <1>12 DEF Shutdown, TypeOK, rowVars
<1>13. CASE UNCHANGED <<rowVars, slotVars>>
  BY <1>13 DEF rowVars, slotVars
<1>14. ASSUME NEW s \in Slots, Dispatch(s) PROVE LeaseInv'
  BY <1>10, <1>14 DEF Dispatch
<1>15. ASSUME NEW p \in Procs, Crash(p) PROVE LeaseInv'
  <2>1. Free({s \in Slots : ProcOf[s] = p}) /\ UNCHANGED rowVars
    BY <1>15 DEF Crash, rowVars
  <2> QED
    BY <1>10, <2>1
<1>16. ASSUME NEW p \in Procs, Start(p) \/ Exit(p) PROVE LeaseInv'
  BY <1>13, <1>16 DEF Start, Exit
<1>17. CASE UNCHANGED vars
  BY <1>13, <1>17 DEF vars
<1> QED
  BY <1>1, <1>2, <1>3, <1>4, <1>5, <1>6, <1>7, <1>8, <1>9, <1>11, <1>12, <1>14, <1>15,
     <1>16, <1>17, QuietSteps DEF Next, Attempt

LEMMA LeaseInvariant ==
    ASSUME "heartbeat" \notin Faults
    PROVE  Spec => [](TypeOK /\ LeaseInv)
<1>1. Init => TypeOK /\ LeaseInv
  BY InitType, LeaseInit
<1>2. TypeOK /\ LeaseInv /\ [Next]_vars => (TypeOK /\ LeaseInv)'
  BY StepType, LeaseStep
<1> QED
  BY <1>1, <1>2, PTL DEF Spec

\* As long as heartbeats get through, a run is executed by one attempt at a
\* time: an older attempt whose lease was taken over can no longer write.
THEOREM LeaseExclusion ==
    ASSUME "heartbeat" \notin Faults
    PROVE  Spec => []ExclusiveAttempt
<1>1. TypeOK /\ LeaseInv => ExclusiveAttempt
  BY DEF LeaseInv
<1> QED
  BY <1>1, LeaseInvariant, PTL

\* As long as heartbeats get through, no step changes the status of a settled
\* run: Finish needs no owner or status in its WHERE clause for that.
THEOREM FinishedForGood ==
    ASSUME "heartbeat" \notin Faults
    PROVE  Spec => SettledIsFinal
<1> DEFINE Keeps == \A r \in Runs : status[r] \in Settled => status'[r] = status[r]
<1>1. TypeOK /\ LeaseInv /\ [Next]_vars => Keeps
  <2> SUFFICES ASSUME TypeOK, LeaseInv, [Next]_vars,
                      NEW q \in Runs, status[q] \in Settled
               PROVE  status'[q] = status[q]
    OBVIOUS
  <2> USE RunQueueAssumption
  <2>1. ASSUME NEW r \in Runs, Enqueue(r) \/ Cancel(r) PROVE status'[q] = status[q]
    BY <2>1 DEF Enqueue, Cancel, TypeOK, Settled
  <2>2. ASSUME NEW s \in Slots, NEW r \in Runs, Claim(s, r) \/ ClaimUnread(s, r)
        PROVE  status'[q] = status[q]
    <3>1. Lease(r, ProcOf[s])
      BY <2>2 DEF Claim, ClaimUnread
    <3>2. status[r] \notin Settled
      BY <3>1, ClaimedIsFree DEF Lease
    <3> QED
      BY <3>1, <3>2 DEF Lease, TypeOK
  <2>3. ASSUME NEW s \in Slots, Finish(s) PROVE status'[q] = status[q]
    <3>1. CASE live[s]
      <4>1. status[run[s]] = "running"
        BY <2>3, <3>1 DEF Finish, LeaseInv, AttemptHoldsLease, Busy
      <4> QED
        BY <2>3, <3>1, <4>1 DEF Finish, TypeOK, Settled
    <3>2. CASE ~live[s]
      BY <2>3, <3>2 DEF Finish
    <3> QED
      BY <3>1, <3>2
  <2>4. ASSUME NEW s \in Slots, QuietStep(s) PROVE status'[q] = status[q]
    BY <2>4 DEF QuietStep, rowVars
  <2>5. CASE UNCHANGED status
    BY <2>5
  <2>6. ASSUME NEW s \in Slots,
               Dispatch(s) \/ Timeout(s) \/ (\E r \in Runs : Heartbeat(s, r))
        PROVE  UNCHANGED status
    BY <2>6 DEF Dispatch, Timeout, Heartbeat, rowVars
  <2>7. ASSUME NEW p \in Procs, Start(p) \/ Shutdown(p) \/ Exit(p) \/ Crash(p)
        PROVE  UNCHANGED status
    BY <2>7 DEF Start, Shutdown, Exit, Crash, rowVars
  <2>8. ASSUME NEW r \in Runs, LapseUnattended(r) \/ LapseAttended(r)
        PROVE  UNCHANGED status
    BY <2>8 DEF LapseUnattended, LapseAttended
  <2>9. CASE UNCHANGED vars
    BY <2>9 DEF vars, rowVars
  <2> QED
    BY <2>1, <2>2, <2>3, <2>4, <2>5, <2>6, <2>7, <2>8, <2>9, QuietSteps DEF Next, Attempt
<1>2. TypeOK /\ LeaseInv /\ [Next]_vars => [Keeps]_vars
  BY <1>1
<1> QED
  BY <1>2, LeaseInvariant, PTL DEF Spec, SettledIsFinal

-----------------------------------------------------------------------------
(* Cancellation. *)

\* A step of an attempt beyond the check of its page.
LateStep(s) ==
    /\ pc[s] \in {"request", "commit", "written"}
    /\ \E step \in {"check", "commit", "written", "finish"} :
         /\ pc' = [pc EXCEPT ![s] = step]
         /\ step = "check" => Checked(Job(s).conn)
    /\ \E res \in Results : result' = [result EXCEPT ![s] = res]
    /\ UNCHANGED <<rowVars, run, live, told, proc, events>>

LEMMA LateSteps ==
    ASSUME TypeOK, NEW s \in Slots, Fetch(s) \/ Commit(s) \/ Written(s) \/ Send(s)
    PROVE  LateStep(s)
<1>1. result = [result EXCEPT ![s] = result[s]] /\ result[s] \in Results
  BY DEF TypeOK
<1>2. CASE Fetch(s)
  BY <1>1, <1>2 DEF Fetch, FetchPage, ReadModel, LateStep, Ends, Goto, Results, Settled, Checked
<1>3. CASE Commit(s)
  BY <1>1, <1>3 DEF Commit, LateStep, Ends, Goto, Results, Settled
<1>4. CASE Written(s)
  BY <1>4 DEF Written, LateStep, Ends, Goto, Results, Settled
<1>5. CASE Send(s)
  <2>1. /\ pc[s] = "request" /\ Checked(Job(s).conn)
        /\ UNCHANGED <<rowVars, proc, events>>
    BY <1>5 DEF Send, IsPush, Checked
  <2>2. \/ \E res \in Results : Ends(s, res)
        \/ Goto(s, "check") /\ UNCHANGED <<run, result, live, told>>
    BY <1>5, PushResultType DEF Send, Results, Settled
  <2> QED
    BY <1>1, <2>1, <2>2 DEF LateStep, Ends, Goto
<1> QED
  BY <1>2, <1>3, <1>4, <1>5

LEMMA CancelInit == Init => CancelInv
  BY DEF Init, CancelInv, RequestStays, CancelOutlivesWorker, Busy

LEMMA CancelStep ==
    ASSUME "heartbeat" \notin Faults, "db" \notin Faults
    PROVE  TypeOK /\ LeaseInv /\ CancelInv /\ [Next]_vars => CancelInv'
<1> SUFFICES ASSUME TypeOK, LeaseInv, CancelInv, [Next]_vars PROVE CancelInv'
  OBVIOUS
<1> USE RunQueueAssumption
<1> USE DEF CancelInv, RequestStays, CancelOutlivesWorker, Busy, Job
<1>1. CASE UNCHANGED <<job, cancel, slotVars>>
  BY <1>1 DEF slotVars
<1>2. ASSUME NEW r \in Runs, Cancel(r) PROVE CancelInv'
  BY <1>2 DEF Cancel, TypeOK, slotVars
<1>3. ASSUME NEW s \in Slots, NEW r \in Runs, Claim(s, r) PROVE CancelInv'
  <2>1. /\ UNCHANGED <<job, cancel>>
        /\ pc'     = [pc EXCEPT ![s] = "load"]
        /\ run'    = [run EXCEPT ![s] = r]
        /\ result' = [result EXCEPT ![s] = "failed"]
        /\ live'   = [live EXCEPT ![s] = TRUE]
        /\ told'   = [told EXCEPT ![s] = cancel[r]]
    BY <1>3 DEF Claim, Lease
  <2> QED
    BY <2>1 DEF TypeOK
<1>4. ASSUME NEW s \in Slots, Load(s) PROVE CancelInv'
  <2>1. /\ UNCHANGED <<job, cancel, run, live, told>>
        /\ \/ pc' = [pc EXCEPT ![s] = "finish"]
           \/ pc' = [pc EXCEPT ![s] = IF Checked(Job(s).conn) THEN "check" ELSE "request"]
    BY <1>4 DEF Load, Ends, Goto, rowVars
  <2>2. pc[s] = "load"
    BY <1>4 DEF Load
  <2>3. CASE pc' = [pc EXCEPT ![s] = "finish"]
    BY <2>1, <2>3 DEF TypeOK
  <2>4. CASE pc' = [pc EXCEPT ![s] = "check"]
    BY <2>1, <2>2, <2>4 DEF TypeOK
  <2>5. CASE pc' = [pc EXCEPT ![s] = "request"] /\ ~Checked(Job(s).conn)
    BY <2>1, <2>5 DEF TypeOK
  <2> QED
    BY <2>1, <2>3, <2>4, <2>5
<1>5. ASSUME NEW s \in Slots, CheckCancel(s) PROVE CancelInv'
  <2>1. UNCHANGED <<job, cancel, run, live, told>>
    BY <1>5 DEF CheckCancel, Ends, rowVars
  <2>2. CASE live[s] /\ cancel[run[s]]
    <3>1. pc' = [pc EXCEPT ![s] = "finish"] /\ result' = [result EXCEPT ![s] = "cancelled"]
      BY <1>5, <2>2 DEF CheckCancel, Ends, Goto
    <3> QED
      BY <2>1, <3>1 DEF TypeOK
  <2>3. CASE ~(live[s] /\ cancel[run[s]])
    <3>1. pc' = [pc EXCEPT ![s] = "request"] /\ result' = result
      BY <1>5, <2>3 DEF CheckCancel, Goto
    <3>2. ~(live[s] /\ told[s])
      BY <1>5, <2>3 DEF CheckCancel
    <3> QED
      BY <2>1, <3>1, <3>2 DEF TypeOK
  <2> QED
    BY <2>2, <2>3
<1>6. ASSUME NEW s \in Slots, CheckUnread(s) \/ FinishFails(s) PROVE CancelInv'
  BY <1>6, FaultType DEF CheckUnread, FinishFails
<1>7. ASSUME NEW s \in Slots, LateStep(s) PROVE CancelInv'
  <2>1. pc[s] \in {"request", "commit", "written"} /\ UNCHANGED <<job, cancel, run, live, told>>
    BY <1>7 DEF LateStep, rowVars
  <2>2. PICK step \in {"check", "commit", "written", "finish"} :
            pc' = [pc EXCEPT ![s] = step] /\ (step = "check" => Checked(Job(s).conn))
    BY <1>7 DEF LateStep
  <2>3. PICK res \in Results : result' = [result EXCEPT ![s] = res]
    BY <1>7 DEF LateStep
  <2>4. live[s] /\ told[s] => ~Checked(Job(s).conn)
    BY <2>1
  <2>5. RequestStays'
    BY <2>1, <2>2, <2>4 DEF TypeOK
  <2>6. CancelOutlivesWorker'
    BY <2>1, <2>2, <2>3, <2>4 DEF TypeOK
  <2> QED
    BY <2>5, <2>6
<1>8. ASSUME NEW s \in Slots, Finish(s) PROVE CancelInv'
  <2>1. /\ UNCHANGED <<job, run, live, told, result>>
        /\ pc' = [pc EXCEPT ![s] = "event"]
    BY <1>8 DEF Finish, Goto
  <2>2. cancel' = IF live[s] THEN [cancel EXCEPT ![run[s]] = FALSE] ELSE cancel
    BY <1>8 DEF Finish
  <2>3. live[s] => \A t \in Slots \ {s} : Busy(t) /\ live[t] => run[t] # run[s]
    BY <1>8 DEF Finish, LeaseInv, ExclusiveAttempt
  <2>4. RequestStays'
    BY <2>1, <2>2, <2>3 DEF TypeOK
  <2>5. CancelOutlivesWorker'
    BY <1>8, <2>1 DEF TypeOK, Finish
  <2> QED
    BY <2>4, <2>5
<1>9. ASSUME NEW S \in SUBSET Slots, Free(S), UNCHANGED rowVars PROVE CancelInv'
  BY <1>9 DEF Free, TypeOK, rowVars
<1>10. ASSUME NEW s \in Slots, Timeout(s) PROVE CancelInv'
  BY <1>10 DEF Timeout, TypeOK, rowVars
<1>11. ASSUME NEW p \in Procs, Shutdown(p) PROVE CancelInv'
  BY <1>11 DEF Shutdown, TypeOK, rowVars
<1>12. ASSUME NEW s \in Slots, Dispatch(s) PROVE CancelInv'
  BY <1>9, <1>12 DEF Dispatch
<1>13. ASSUME NEW p \in Procs, Crash(p) PROVE CancelInv'
  <2>1. Free({s \in Slots : ProcOf[s] = p}) /\ UNCHANGED rowVars
    BY <1>13 DEF Crash, rowVars
  <2> QED
    BY <1>9, <2>1
<1>14. ASSUME NEW r \in Runs,
              Enqueue(r) \/ LapseUnattended(r) \/ LapseAttended(r)
       PROVE  UNCHANGED <<job, cancel, slotVars>>
  BY <1>14 DEF Enqueue, LapseUnattended, LapseAttended
<1>15. ASSUME NEW s \in Slots, NEW r \in Runs, ClaimUnread(s, r) \/ Heartbeat(s, r)
       PROVE  UNCHANGED <<job, cancel, slotVars>>
  BY <1>15 DEF ClaimUnread, Heartbeat, Lease
<1>16. ASSUME NEW p \in Procs, Start(p) \/ Exit(p)
       PROVE  UNCHANGED <<job, cancel, slotVars>>
  BY <1>16 DEF Start, Exit, rowVars
<1>17. CASE UNCHANGED vars
  BY <1>1, <1>17 DEF vars, rowVars
<1> QED
  BY <1>1, <1>2, <1>3, <1>4, <1>5, <1>6, <1>7, <1>8, <1>10, <1>11, <1>12, <1>13, <1>14,
     <1>15, <1>16, <1>17, LateSteps DEF Next, Attempt

\* A cancel request is honoured by whichever attempt comes to look at it, also
\* after the worker it was meant for crashed, timed out or was shut down.
THEOREM CancelHonoured ==
    ASSUME "heartbeat" \notin Faults, "db" \notin Faults
    PROVE  Spec => []CancelOutlivesWorker
<1>1. Init => CancelInv
  BY CancelInit
<1>2. TypeOK /\ LeaseInv /\ CancelInv /\ [Next]_vars => CancelInv'
  BY CancelStep
<1>3. CancelInv => CancelOutlivesWorker
  BY DEF CancelInv
<1> QED
  BY <1>1, <1>2, <1>3, LeaseInvariant, PTL DEF Spec

-----------------------------------------------------------------------------
(* Events. *)

LEMMA EventInit == Init => EventInv
  BY DEF Init, EventInv, EventPending, OneEventPerRun, Busy

LEMMA EventStep ==
    ASSUME "heartbeat" \notin Faults, "db" \notin Faults
    PROVE  TypeOK /\ LeaseInv /\ EventInv /\ [Next]_vars => EventInv'
<1> SUFFICES ASSUME TypeOK, LeaseInv, EventInv, [Next]_vars PROVE EventInv'
  OBVIOUS
<1> USE RunQueueAssumption
<1> USE DEF EventInv, EventPending, OneEventPerRun, Busy
<1>1. CASE UNCHANGED <<status, events, slotVars>>
  BY <1>1 DEF slotVars
<1>2. ASSUME NEW r \in Runs, Enqueue(r) \/ Cancel(r) PROVE EventInv'
  <2>1. /\ status[r] \notin Settled
        /\ \E st : status' = [status EXCEPT ![r] = st]
        /\ UNCHANGED <<events, slotVars>>
    BY <1>2 DEF Enqueue, Cancel, Settled
  <2>2. \A s \in Slots : Busy(s) /\ live[s] /\ run[s] = r => pc[s] # "event"
    BY <2>1 DEF TypeOK, Results
  <2> QED
    BY <2>1, <2>2 DEF TypeOK, slotVars
<1>3. ASSUME NEW s \in Slots, NEW r \in Runs, Lease(r, ProcOf[s]), UNCHANGED events,
             \/ UNCHANGED slotVars
             \/ /\ pc' = [pc EXCEPT ![s] = "load"]
                /\ run' = [run EXCEPT ![s] = r]
                /\ result' = [result EXCEPT ![s] = "failed"]
                /\ live' = [live EXCEPT ![s] = TRUE]
      PROVE  EventInv'
  <2>1. /\ \A t \in Slots : Busy(t) /\ live[t] => run[t] # r
        /\ status[r] \notin Settled
    BY <1>3, ClaimedIsFree DEF Lease
  <2>2. events[r] = <<>> /\ status' = [status EXCEPT ![r] = "running"]
    BY <1>3, <2>1 DEF Lease
  <2>3. (\A q \in Runs : status[q] \notin Settled => events[q] = <<>>)'
    BY <1>3, <2>2 DEF TypeOK
  <2>4. OneEventPerRun'
    BY <1>3, <2>1, <2>2 DEF TypeOK
  <2>5. CASE UNCHANGED slotVars
    BY <1>3, <2>1, <2>2, <2>3, <2>4, <2>5 DEF TypeOK, slotVars
  <2>6. CASE /\ pc' = [pc EXCEPT ![s] = "load"] /\ run' = [run EXCEPT ![s] = r]
             /\ result' = [result EXCEPT ![s] = "failed"] /\ live' = [live EXCEPT ![s] = TRUE]
    <3>1. \A t \in Slots \ {s} : /\ pc'[t] = pc[t] /\ run'[t] = run[t]
                                  /\ result'[t] = result[t] /\ live'[t] = live[t]
      BY <2>6 DEF TypeOK
    <3>2. pc'[s] = "load" /\ run'[s] = r /\ UNCHANGED events
      BY <1>3, <2>6 DEF TypeOK
    <3>3. \A t \in Slots \ {s} : Busy(t)' /\ live'[t]
                                => Busy(t) /\ live[t] /\ run[t] # r /\ status'[run[t]] = status[run[t]]
      BY <2>1, <2>2, <3>1 DEF TypeOK
    <3>4. (\A t \in Slots : Busy(t) /\ live[t]
                            => events[run[t]] = <<>> /\ (pc[t] = "event" => status[run[t]] = result[t]))'
      BY <2>2, <3>1, <3>2, <3>3
    <3> QED
      BY <2>3, <2>4, <3>4
  <2> QED
    BY <1>3, <2>5, <2>6
<1>4. ASSUME NEW s \in Slots, Load(s) \/ CheckCancel(s) PROVE EventInv'
  <2>1. \E step \in {"check", "request", "finish"} : pc' = [pc EXCEPT ![s] = step]
    BY <1>4 DEF Load, CheckCancel, Ends, Goto
  <2>2. \A t \in Slots \ {s} : result'[t] = result[t]
    <3>1. result' = result \/ \E res : result' = [result EXCEPT ![s] = res]
      BY <1>4 DEF Load, CheckCancel, Ends
    <3> QED
      BY <3>1 DEF TypeOK
  <2>3. UNCHANGED <<status, events, run, live>> /\ pc[s] # "idle"
    BY <1>4 DEF Load, CheckCancel, Ends, rowVars
  <2>4. \A t \in Slots : pc'[t] = "event" => t # s /\ pc[t] = "event" /\ result'[t] = result[t]
    BY <2>1, <2>2 DEF TypeOK
  <2>5. \A t \in Slots : pc[t] = "event" => pc'[t] = "event" \/ t = s
    BY <2>1 DEF TypeOK
  <2>6. pc[s] # "event" /\ \A t \in Slots : pc'[t] # "idle" => pc[t] # "idle"
    BY <1>4, <2>1, <2>3 DEF Load, CheckCancel, TypeOK
  <2> QED
    BY <2>3, <2>4, <2>5, <2>6
<1>5. ASSUME NEW s \in Slots, LateStep(s) PROVE EventInv'
  BY <1>5 DEF LateStep, TypeOK, rowVars
<1>6. ASSUME NEW s \in Slots, CheckUnread(s) \/ FinishFails(s) PROVE EventInv'
  BY <1>6, FaultType DEF CheckUnread, FinishFails
<1>7. ASSUME NEW s \in Slots, Finish(s) PROVE EventInv'
  <2>1. /\ pc' = [pc EXCEPT ![s] = "event"]
        /\ UNCHANGED <<run, live, result, events>>
    BY <1>7 DEF Finish, Goto
  <2>2. CASE live[s]
    <3>1. /\ status' = [status EXCEPT ![run[s]] = result[s]]
          /\ run[s] \in Runs /\ result[s] \in Settled
      BY <1>7, <2>2 DEF Finish, TypeOK, Results
    <3>2. events[run[s]] = <<>>
      BY <1>7, <2>2 DEF Finish
    <3>3. \A t \in Slots \ {s} : Busy(t) /\ live[t] => run[t] # run[s]
      BY <1>7, <2>2 DEF Finish, LeaseInv, ExclusiveAttempt
    <3> QED
      BY <2>1, <2>2, <3>1, <3>2, <3>3 DEF TypeOK
  <2>3. CASE ~live[s]
    BY <1>7, <2>1, <2>3 DEF Finish, TypeOK
  <2> QED
    BY <2>2, <2>3
<1>8. ASSUME NEW s \in Slots, Dispatch(s) PROVE EventInv'
  <2>1. /\ pc[s] = "event" /\ run[s] \in Runs
        /\ UNCHANGED status
        /\ pc' = [t \in Slots |-> IF t = s THEN "idle" ELSE pc[t]]
        /\ run' = [t \in Slots |-> IF t = s THEN NoRun ELSE run[t]]
        /\ result' = [t \in Slots |-> IF t = s THEN "failed" ELSE result[t]]
        /\ live' = [t \in Slots |-> live[t] /\ t # s]
    BY <1>8 DEF Dispatch, Free, rowVars, TypeOK
  <2>2. CASE events' = events
    BY <2>1, <2>2 DEF TypeOK
  <2>3. CASE /\ live[s] /\ result[s] # "cancelled"
             /\ events' = [events EXCEPT ![run[s]] = Append(@, EventOf(result[s]))]
    <3>1. events[run[s]] = <<>> /\ status[run[s]] = result[s]
      BY <2>1, <2>3
    <3>2. status[run[s]] \in Settled \ {"cancelled"}
      BY <2>3, <3>1 DEF TypeOK, Results
    <3>3. /\ events' = [events EXCEPT ![run[s]] = <<EventOf(result[s])>>]
      BY <2>3, <3>1
    <3>4. \A t \in Slots \ {s} : Busy(t) /\ live[t] => run[t] # run[s]
      BY <2>1, <2>3 DEF LeaseInv, ExclusiveAttempt
    <3>5. OneEventPerRun'
      BY <2>1, <3>1, <3>2, <3>3 DEF TypeOK
    <3>6. EventPending'
      BY <2>1, <3>2, <3>3, <3>4 DEF TypeOK
    <3> QED
      BY <3>5, <3>6
  <2> QED
    BY <1>8, <2>2, <2>3 DEF Dispatch
<1>9. ASSUME NEW s \in Slots, Timeout(s) PROVE EventInv'
  BY <1>9 DEF Timeout, TypeOK, rowVars
<1>10. ASSUME NEW p \in Procs, Shutdown(p) PROVE EventInv'
  BY <1>10 DEF Shutdown, TypeOK, rowVars
<1>11. ASSUME NEW p \in Procs, Crash(p) PROVE EventInv'
  BY <1>11 DEF Crash, Free, TypeOK, rowVars
<1>12. ASSUME NEW s \in Slots, NEW r \in Runs, Claim(s, r) \/ ClaimUnread(s, r)
       PROVE  EventInv'
  BY <1>3, <1>12 DEF Claim, ClaimUnread
<1>13. ASSUME NEW r \in Runs, LapseUnattended(r) \/ LapseAttended(r)
              \/ (\E s \in Slots : Heartbeat(s, r))
       PROVE  UNCHANGED <<status, events, slotVars>>
  BY <1>13 DEF LapseUnattended, LapseAttended, Heartbeat
<1>14. ASSUME NEW p \in Procs, Start(p) \/ Exit(p)
       PROVE  UNCHANGED <<status, events, slotVars>>
  BY <1>14 DEF Start, Exit, rowVars
<1>15. CASE UNCHANGED vars
  BY <1>1, <1>15 DEF vars, rowVars
<1> QED
  BY <1>1, <1>2, <1>4, <1>5, <1>6, <1>7, <1>8, <1>9, <1>10, <1>11, <1>12, <1>13, <1>14,
     <1>15, LateSteps DEF Next, Attempt

\* The application's rules see at most one event of a run, and it agrees with
\* the status the run ended with, however often the run was reclaimed, as long
\* as heartbeats and Finish's UPDATE get through.
THEOREM EventOnce ==
    ASSUME "heartbeat" \notin Faults, "db" \notin Faults
    PROVE  Spec => []OneEventPerRun
<1>1. Init => EventInv
  BY EventInit
<1>2. TypeOK /\ LeaseInv /\ EventInv /\ [Next]_vars => EventInv'
  BY EventStep
<1>3. EventInv => OneEventPerRun
  BY DEF EventInv
<1> QED
  BY <1>1, <1>2, <1>3, LeaseInvariant, PTL DEF Spec

-----------------------------------------------------------------------------
(* A status is earned. *)

\* An attempt that the step leaves alone has still earned what it had: data that
\* was written stays written.
LEMMA EarningKept ==
    ASSUME TypeOK, NEW t \in Slots, Earning(t), UNCHANGED job,
           writes' \in [Runs -> Nat], \A r \in Runs : writes[r] <= writes'[r],
           pc'[t] = pc[t], run'[t] = run[t], page'[t] = page[t], errs'[t] = errs[t],
           result'[t] = result[t]
    PROVE  Earning(t)'
<1>1. CASE pc[t] = "idle"
  BY <1>1 DEF Earning
<1>2. CASE pc[t] # "idle"
  <2>1. run[t] \in Runs
    BY <1>2 DEF TypeOK, Busy
  <2>2. writes[run[t]] \in Nat /\ writes'[run[t]] \in Nat /\ writes[run[t]] <= writes'[run[t]]
    BY <2>1 DEF TypeOK
  <2>3. page[t] \in Nat /\ Needed(run[t]) \in Nat
    BY RunQueueAssumption DEF TypeOK, Needed
  <2>4. Needed(run[t])' = Needed(run[t]) /\ Job(t)' = Job(t)
    BY DEF Needed, Job
  <2> QED
    BY <2>2, <2>3, <2>4 DEF Earning
<1> QED
  BY <1>1, <1>2

\* A step of one attempt that changes no row.
LEMMA EffectsKept ==
    ASSUME TypeOK, EffectsInv, NEW s \in Slots, UNCHANGED <<status, job, writes>>,
           \A t \in Slots \ {s} : /\ pc'[t] = pc[t] /\ run'[t] = run[t] /\ page'[t] = page[t]
                                  /\ errs'[t] = errs[t] /\ result'[t] = result[t],
           Earning(s)'
    PROVE  EffectsInv'
<1>1. EffectsMatchStatus'
  BY DEF EffectsInv, EffectsMatchStatus, Needed
<1>2. writes' \in [Runs -> Nat] /\ \A r \in Runs : writes[r] <= writes'[r]
  BY DEF TypeOK
<1>3. ASSUME NEW t \in Slots \ {s} PROVE Earning(t)'
  BY <1>2, EarningKept DEF EffectsInv
<1> QED
  BY <1>1, <1>3 DEF EffectsInv

\* One more write of run r, which may be written to.
LEMMA EffectsGrow ==
    ASSUME TypeOK, EffectsInv, NEW s \in Slots, NEW r \in Runs, UNCHANGED <<status, job>>,
           writes' = [writes EXCEPT ![r] = @ + 1],
           job[r].mode # "dry", job[r].mode = "test" => IsPush(job[r].conn),
           \A t \in Slots \ {s} : /\ pc'[t] = pc[t] /\ run'[t] = run[t] /\ page'[t] = page[t]
                                  /\ errs'[t] = errs[t] /\ result'[t] = result[t],
           Earning(s)'
    PROVE  EffectsInv'
<1>1. writes' \in [Runs -> Nat] /\ \A q \in Runs : writes[q] <= writes'[q]
  BY DEF TypeOK
<1>2. \A q \in Runs : Needed(q) \in Nat /\ Needed(q)' = Needed(q)
  BY RunQueueAssumption DEF Needed
<1>3. EffectsMatchStatus'
  <2> SUFFICES ASSUME NEW q \in Runs
               PROVE  /\ status[q] = "success" /\ job[q].mode = "real" /\ job[q].data => writes'[q] >= Needed(q)
                      /\ job[q].mode = "dry" => writes'[q] = 0
                      /\ job[q].mode = "test" /\ ~IsPush(job[q].conn) => writes'[q] = 0
    BY <1>2 DEF EffectsMatchStatus
  <2>1. writes[q] \in Nat /\ writes'[q] \in Nat /\ writes[q] <= writes'[q]
    BY <1>1 DEF TypeOK
  <2>2. q # r => writes'[q] = writes[q]
    BY DEF TypeOK
  <2> QED
    BY <1>2, <2>1, <2>2 DEF EffectsInv, EffectsMatchStatus
<1>4. ASSUME NEW t \in Slots \ {s} PROVE Earning(t)'
  BY <1>1, EarningKept DEF EffectsInv
<1> QED
  BY <1>3, <1>4 DEF EffectsInv

LEMMA EffectsInit == Init => EffectsInv
  BY RunQueueAssumption DEF Init, EffectsInv, EffectsMatchStatus, Earning

\* What Ends and Goto do to the attempts.
LEMMA EndsSlots ==
    ASSUME TypeOK, NEW s \in Slots, NEW res \in Results, Ends(s, res)
    PROVE  /\ pc'[s] = "finish" /\ result'[s] = res
           /\ UNCHANGED <<run, page, errs>>
           /\ \A t \in Slots \ {s} : pc'[t] = pc[t] /\ result'[t] = result[t]
  BY DEF TypeOK, Ends, Goto

LEMMA GotoSlots ==
    ASSUME TypeOK, NEW s \in Slots, NEW step, Goto(s, step)
    PROVE  pc'[s] = step /\ \A t \in Slots \ {s} : pc'[t] = pc[t]
  BY DEF TypeOK, Goto

\* An attempt that ends without a claim to success, and without a write.
LEMMA EffectsEnd ==
    ASSUME TypeOK, EffectsInv, NEW s \in Slots, NEW res \in Results, Ends(s, res),
           UNCHANGED <<status, job, writes>>,
           res = "success" /\ Job(s).mode = "real" /\ Job(s).data => writes[run[s]] >= Needed(run[s])
    PROVE  EffectsInv'
<1>1. Earning(s)'
  BY EndsSlots DEF Earning, Job, Needed
<1> QED
  BY <1>1, EndsSlots, EffectsKept

LEMMA EffectsAttempt ==
    ASSUME TypeOK, EffectsInv, NEW s \in Slots, Attempt(s)
    PROVE  EffectsInv'
<1> USE DEF Results, Settled
<1>0. /\ Earning(s)
      /\ pc[s] # "idle" => run[s] \in Runs /\ writes[run[s]] \in Nat /\ Needed(run[s]) \in Nat
      /\ page[s] \in 1..MaxPages /\ MaxPages \in Nat /\ page[s] \in Nat
      /\ errs[s] \in BOOLEAN
  BY RunQueueAssumption DEF TypeOK, EffectsInv, Busy, Needed
<1>1. CASE Load(s)
  <2>1. pc[s] = "load" /\ UNCHANGED <<status, job, writes>>
    BY <1>1 DEF Load, rowVars
  <2>2. CASE Ends(s, "failed")
    BY <2>1, <2>2, EffectsEnd
  <2>3. ASSUME NEW bad \in BOOLEAN, ~Job(s).data \/ bad, Ends(s, PushResult(s, FALSE, bad))
        PROVE  EffectsInv'
    <3>1. PushResult(s, FALSE, bad) = "success" => ~bad
      BY DEF PushResult
    <3> QED
      BY <2>1, <2>3, <3>1, PushResultType, EffectsEnd
  <2>4. ASSUME NEW step \in {"check", "request"}, Goto(s, step), NEW bad \in BOOLEAN,
               errs' = [errs EXCEPT ![s] = bad], UNCHANGED <<run, page, result>>
        PROVE  EffectsInv'
    <3>1. Earning(s)'
      BY <1>0, <2>1, <2>4, GotoSlots DEF Earning
    <3>2. \A t \in Slots \ {s} : errs'[t] = errs[t]
      BY <2>4 DEF TypeOK
    <3> QED
      BY <2>1, <2>4, <3>1, <3>2, GotoSlots, EffectsKept
  <2> QED
    BY <1>1, <2>2, <2>3, <2>4 DEF Load
<1>2. CASE CheckCancel(s)
  <2>1. pc[s] = "check" /\ UNCHANGED <<status, job, writes>>
    BY <1>2 DEF CheckCancel, rowVars
  <2>2. CASE Ends(s, "cancelled")
    BY <2>1, <2>2, EffectsEnd
  <2>3. CASE Goto(s, "request") /\ UNCHANGED <<run, page, errs, result>>
    <3>1. Earning(s)'
      BY <1>0, <2>1, <2>3, GotoSlots DEF Earning, Job
    <3> QED
      BY <2>1, <2>3, <3>1, GotoSlots, EffectsKept
  <2> QED
    BY <1>2, <2>2, <2>3 DEF CheckCancel
<1>3. CASE Fetch(s)
  <2>1. pc[s] = "request" /\ ~IsPush(Job(s).conn) /\ UNCHANGED <<status, job, writes>>
    BY <1>3 DEF Fetch, FetchPage, ReadModel, rowVars, IsPush
  <2>2. CASE Ends(s, "failed")
    BY <2>1, <2>2, EffectsEnd
  <2>3. ASSUME NEW step \in {"check", "commit"}, Goto(s, step), UNCHANGED <<run, errs, result>>,
               \A t \in Slots \ {s} : page'[t] = page[t]
        PROVE  EffectsInv'
    <3>1. Earning(s)'
      BY <2>1, <2>3, GotoSlots DEF Earning, Job
    <3> QED
      BY <2>1, <2>3, <3>1, GotoSlots, EffectsKept
  <2> QED
    BY <1>3, <2>2, <2>3 DEF Fetch, FetchPage, ReadModel, TypeOK
<1>4. CASE Commit(s)
  <2>1. pc[s] = "commit" /\ ~IsPush(Job(s).conn) /\ UNCHANGED <<status, job>>
    BY <1>0, <1>4 DEF Commit, rowVars, Earning
  <2>2. ASSUME NEW res \in Results, Ends(s, res), UNCHANGED writes,
               res = "success" => ~(Job(s).mode = "real" /\ Job(s).data)
        PROVE  EffectsInv'
    BY <2>1, <2>2, EffectsEnd
  <2>3. CASE /\ Job(s).mode = "real" /\ writes' = [writes EXCEPT ![run[s]] = @ + 1]
             /\ Goto(s, "written") /\ UNCHANGED <<run, page, errs, result>>
    <3>1. writes'[run[s]] >= 1
      BY <1>0, <2>1, <2>3 DEF TypeOK
    <3>2. Earning(s)'
      BY <2>1, <2>3, <3>1, GotoSlots DEF Earning, Job
    <3> QED
      BY <1>0, <2>1, <2>3, <3>2, GotoSlots, EffectsGrow DEF Job
  <2> QED
    BY <1>4, <2>2, <2>3 DEF Commit
<1>5. CASE Written(s)
  <2>1. pc[s] = "written" /\ UNCHANGED <<status, job, writes>>
    BY <1>5 DEF Written, rowVars
  <2>2. writes[run[s]] >= Needed(run[s])
    BY <1>0, <2>1 DEF Earning, Needed, Job
  <2> QED
    BY <1>5, <2>1, <2>2, EffectsEnd DEF Written
<1>6. CASE Send(s)
  <2>1. pc[s] = "request" /\ IsPush(Job(s).conn) /\ UNCHANGED <<status, job>>
    BY <1>6 DEF Send, rowVars
  <2>2. CASE Ends(s, "failed") /\ UNCHANGED writes
    BY <2>1, <2>2, EffectsEnd
  <2>3. CASE Job(s).mode = "dry" /\ Ends(s, PushResult(s, FALSE, errs[s])) /\ UNCHANGED writes
    BY <2>1, <2>3, PushResultType, EffectsEnd
  <2>4. ASSUME NEW ok \in BOOLEAN, NEW delivered \in BOOLEAN,
               Job(s).mode # "dry", ok => delivered,
               writes' = IF delivered THEN [writes EXCEPT ![run[s]] = @ + 1] ELSE writes,
               \/ /\ (IF ok THEN Job(s).mode = "test" ELSE Job(s).conn = "batch") \/ ~MorePages(s)
                  /\ Ends(s, IF Job(s).conn = "batch" /\ ~ok
                             THEN IF sent[s] THEN "partial" ELSE "failed"
                             ELSE PushResult(s, sent[s] \/ ok, errs[s] \/ ~ok))
               \/ /\ page' = [page EXCEPT ![s] = @ + 1]
                  /\ errs' = [errs EXCEPT ![s] = errs[s] \/ ~ok]
                  /\ Goto(s, "check")
                  /\ UNCHANGED <<run, result>>
        PROVE  EffectsInv'
    <3>1. /\ writes'[run[s]] \in Nat
          /\ writes'[run[s]] = IF delivered THEN writes[run[s]] + 1 ELSE writes[run[s]]
      BY <1>0, <2>1, <2>4 DEF TypeOK
    <3>2. ok /\ Job(s).mode = "real" /\ ~errs[s] => page[s] <= writes'[run[s]]
      BY <1>0, <2>1, <2>4, <3>1 DEF Earning
    <3>3. ASSUME Earning(s)',
                 \A t \in Slots \ {s} : /\ pc'[t] = pc[t] /\ run'[t] = run[t] /\ page'[t] = page[t]
                                        /\ errs'[t] = errs[t] /\ result'[t] = result[t]
          PROVE  EffectsInv'
      <4>1. CASE delivered
        BY <1>0, <2>1, <2>4, <3>3, <4>1, EffectsGrow DEF Job
      <4>2. CASE ~delivered
        BY <2>1, <2>4, <3>3, <4>2, EffectsKept
      <4> QED
        BY <4>1, <4>2
    <3>4. CASE /\ (IF ok THEN Job(s).mode = "test" ELSE Job(s).conn = "batch") \/ ~MorePages(s)
               /\ Ends(s, IF Job(s).conn = "batch" /\ ~ok
                          THEN IF sent[s] THEN "partial" ELSE "failed"
                          ELSE PushResult(s, sent[s] \/ ok, errs[s] \/ ~ok))
      <4> DEFINE res == IF Job(s).conn = "batch" /\ ~ok
                        THEN IF sent[s] THEN "partial" ELSE "failed"
                        ELSE PushResult(s, sent[s] \/ ok, errs[s] \/ ~ok)
      <4>1. res \in Results
        BY PushResultType
      <4>2. res = "success" => ok /\ ~errs[s]
        BY DEF PushResult
      <4>3. res = "success" /\ Job(s).mode = "real" => writes'[run[s]] >= Needed(run[s])
        BY <1>0, <2>1, <3>1, <3>2, <3>4, <4>2 DEF MorePages, Needed, Job
      <4> HIDE DEF res
      <4>4. Ends(s, res)
        BY <3>4 DEF res
      <4>5. Earning(s)'
        BY <2>1, <4>1, <4>3, <4>4, EndsSlots DEF Earning, Job, Needed
      <4> QED
        BY <3>3, <4>1, <4>4, <4>5, EndsSlots
    <3>5. CASE /\ page' = [page EXCEPT ![s] = @ + 1]
               /\ errs' = [errs EXCEPT ![s] = errs[s] \/ ~ok]
               /\ Goto(s, "check")
               /\ UNCHANGED <<run, result>>
      <4>1. /\ page'[s] = page[s] + 1 /\ errs'[s] = (errs[s] \/ ~ok)
            /\ \A t \in Slots \ {s} : page'[t] = page[t] /\ errs'[t] = errs[t]
        BY <3>5 DEF TypeOK
      <4>2. Earning(s)'
        <5>1. pc'[s] = "check" /\ run'[s] = run[s] /\ Job(s)' = Job(s)
          BY <2>1, <3>5, GotoSlots DEF Job
        <5>2. ~errs'[s] => ok /\ ~errs[s]
          BY <4>1, Zenon
        <5>3. Job(s).mode = "real" /\ ~errs'[s] => page'[s] <= writes'[run[s]] + 1
          <6>1. page[s] <= writes'[run[s]] => page'[s] <= writes'[run[s]] + 1
            BY <1>0, <3>1, <4>1
          <6> QED
            BY <3>2, <5>2, <6>1
        <5> QED
          BY <5>1, <5>3 DEF Earning
      <4> QED
        BY <3>3, <3>5, <4>1, <4>2, GotoSlots
    <3> QED
      BY <2>4, <3>4, <3>5
  <2> QED
    BY <1>6, <2>2, <2>3, <2>4 DEF Send
<1>7. CASE Finish(s)
  <2>1. /\ pc[s] = "finish" /\ Goto(s, "event")
        /\ UNCHANGED <<job, writes, run, page, errs, result>>
        /\ status' = status \/ status' = [status EXCEPT ![run[s]] = result[s]]
    BY <1>7 DEF Finish
  <2>2. \A t \in Slots : Earning(t)'
    <3>1. Earning(s)'
      BY <2>1, GotoSlots DEF Earning
    <3>2. writes' \in [Runs -> Nat] /\ \A r \in Runs : writes[r] <= writes'[r]
      BY <2>1 DEF TypeOK
    <3>3. ASSUME NEW t \in Slots \ {s} PROVE Earning(t)'
      BY <2>1, <3>2, GotoSlots, EarningKept DEF EffectsInv
    <3> QED
      BY <3>1, <3>3
  <2>3. EffectsMatchStatus'
    <3>1. \A q \in Runs : Needed(q)' = Needed(q)
      BY <2>1 DEF Needed
    <3>2. \A q \in Runs : status'[q] = "success" =>
             status[q] = "success" \/ (q = run[s] /\ result[s] = "success")
      BY <2>1 DEF TypeOK
    <3> QED
      BY <1>0, <2>1, <3>1, <3>2 DEF EffectsInv, EffectsMatchStatus, Earning, Job
  <2> QED
    BY <2>2, <2>3 DEF EffectsInv
<1>8. CASE Dispatch(s)
  <2>1. UNCHANGED <<status, job, writes>> /\ Free({s})
    BY <1>8 DEF Dispatch, rowVars
  <2>2. pc'[s] = "idle"
    BY <2>1 DEF Free
  <2>3. \A t \in Slots \ {s} : /\ pc'[t] = pc[t] /\ run'[t] = run[t] /\ page'[t] = page[t]
                               /\ errs'[t] = errs[t] /\ result'[t] = result[t]
    BY <2>1 DEF Free, TypeOK
  <2> QED
    BY <2>1, <2>2, <2>3, EffectsKept DEF Earning
<1> QED
  BY <1>1, <1>2, <1>3, <1>4, <1>5, <1>6, <1>7, <1>8 DEF Attempt

\* A step that touches the rows, and makes no run a success.
LEMMA EffectsRows ==
    ASSUME TypeOK, EffectsInv, UNCHANGED <<job, writes>>,
           \A r \in Runs : status'[r] = "success" => status[r] = "success",
           \A t \in Slots :
               \/ pc'[t] = "idle" \/ (pc'[t] = "load" /\ page'[t] = 1)
               \/ /\ pc'[t] = pc[t] /\ run'[t] = run[t] /\ page'[t] = page[t]
                  /\ errs'[t] = errs[t] /\ result'[t] = result[t]
    PROVE  EffectsInv'
<1>1. EffectsMatchStatus'
  BY DEF EffectsInv, EffectsMatchStatus, Needed
<1>2. writes' \in [Runs -> Nat] /\ \A r \in Runs : writes[r] <= writes'[r]
  BY DEF TypeOK
<1>3. ASSUME NEW t \in Slots PROVE Earning(t)'
  <2>1. CASE pc'[t] = "idle" \/ (pc'[t] = "load" /\ page'[t] = 1)
    BY <2>1 DEF Earning
  <2>2. CASE /\ pc'[t] = pc[t] /\ run'[t] = run[t] /\ page'[t] = page[t]
             /\ errs'[t] = errs[t] /\ result'[t] = result[t]
    BY <1>2, <2>2, EarningKept DEF EffectsInv
  <2> QED
    BY <2>1, <2>2
<1> QED
  BY <1>1, <1>3 DEF EffectsInv

LEMMA EffectsStep == TypeOK /\ EffectsInv /\ [Next]_vars => EffectsInv'
<1> SUFFICES ASSUME TypeOK, EffectsInv, [Next]_vars PROVE EffectsInv'
  OBVIOUS
<1>1. ASSUME NEW r \in Runs, Enqueue(r) \/ Cancel(r) PROVE EffectsInv'
  BY <1>1, EffectsRows DEF Enqueue, Cancel, slotVars, TypeOK
<1>2. ASSUME NEW s \in Slots, NEW r \in Runs, Claim(s, r) PROVE EffectsInv'
  <2>1. \A q \in Runs : status'[q] = "success" => status[q] = "success"
    BY <1>2 DEF Claim, Lease, TypeOK
  <2>2. \A t \in Slots : IF t = s THEN pc'[t] = "load" /\ page'[t] = 1
                         ELSE /\ pc'[t] = pc[t] /\ run'[t] = run[t] /\ page'[t] = page[t]
                              /\ errs'[t] = errs[t] /\ result'[t] = result[t]
    BY <1>2 DEF Claim, TypeOK
  <2> QED
    BY <1>2, <2>1, <2>2, EffectsRows DEF Claim, Lease
<1>3. ASSUME NEW s \in Slots, NEW r \in Runs, ClaimUnread(s, r) PROVE EffectsInv'
  <2>1. \A q \in Runs : status'[q] = "success" => status[q] = "success"
    BY <1>3 DEF ClaimUnread, Lease, TypeOK
  <2> QED
    BY <1>3, <2>1, EffectsRows DEF ClaimUnread, Lease, slotVars
<1>4. ASSUME NEW s \in Slots, NEW r \in Runs, Heartbeat(s, r) PROVE EffectsInv'
  BY <1>4, EffectsRows DEF Heartbeat, slotVars
<1>5. ASSUME NEW r \in Runs, LapseUnattended(r) \/ LapseAttended(r) PROVE EffectsInv'
  BY <1>5, EffectsRows DEF LapseUnattended, LapseAttended, slotVars
<1>6. ASSUME NEW s \in Slots, Attempt(s) PROVE EffectsInv'
  BY <1>6, EffectsAttempt
<1>7. ASSUME NEW s \in Slots, CheckUnread(s) PROVE EffectsInv'
  <2>1. pc[s] = "check" /\ Goto(s, "request") /\ UNCHANGED <<status, job, writes, run, page, errs, result>>
    BY <1>7 DEF CheckUnread, rowVars
  <2>2. Earning(s)'
    BY <2>1, GotoSlots DEF EffectsInv, Earning, Job
  <2> QED
    BY <2>1, <2>2, GotoSlots, EffectsKept
<1>8. ASSUME NEW s \in Slots, FinishFails(s) PROVE EffectsInv'
  <2>1. Goto(s, "event") /\ UNCHANGED <<status, job, writes, run, page, errs, result>>
    BY <1>8 DEF FinishFails, rowVars
  <2>2. Earning(s)'
    BY <2>1, GotoSlots DEF Earning
  <2> QED
    BY <2>1, <2>2, GotoSlots, EffectsKept
<1>9. ASSUME NEW s \in Slots, Timeout(s) PROVE EffectsInv'
  BY <1>9, EffectsRows DEF Timeout, rowVars
<1>10. ASSUME NEW p \in Procs, Start(p) \/ Shutdown(p) \/ Exit(p) PROVE EffectsInv'
  BY <1>10, EffectsRows DEF Start, Shutdown, Exit, rowVars, slotVars
<1>11. ASSUME NEW p \in Procs, Crash(p) PROVE EffectsInv'
  <2>1. UNCHANGED <<status, job, writes>>
    BY <1>11 DEF Crash, rowVars
  <2>2. \A t \in Slots : IF ProcOf[t] = p THEN pc'[t] = "idle"
                         ELSE /\ pc'[t] = pc[t] /\ run'[t] = run[t] /\ page'[t] = page[t]
                              /\ errs'[t] = errs[t] /\ result'[t] = result[t]
    BY <1>11 DEF Crash, Free, TypeOK
  <2> QED
    BY <2>1, <2>2, EffectsRows
<1>12. CASE UNCHANGED vars
  BY <1>12, EffectsRows DEF vars, rowVars, slotVars
<1> QED
  BY <1>1, <1>2, <1>3, <1>4, <1>5, <1>6, <1>7, <1>8, <1>9, <1>10, <1>11, <1>12 DEF Next

\* Whatever fails, lost heartbeats and failed statements included: a run is
\* recorded as a success only when all of its data was written, and dry runs and
\* tests of a pull write nothing (Runner.Execute, Store.Finish), although
\* several attempts may have been at the run.
THEOREM SuccessIsEarned == Spec => []EffectsMatchStatus
<1>1. Init => TypeOK /\ EffectsInv
  BY InitType, EffectsInit
<1>2. TypeOK /\ EffectsInv /\ [Next]_vars => TypeOK' /\ EffectsInv'
  BY StepType, EffectsStep
<1>3. EffectsInv => EffectsMatchStatus
  BY DEF EffectsInv
<1> QED
  BY <1>1, <1>2, <1>3, PTL DEF Spec

-----------------------------------------------------------------------------
(* The queue implements RunLedger. *)

Holding(s) == Busy(s) /\ live[s]
Held == [r \in Runs |-> HoldersOf(r)]

LEMMA SameHolders ==
    ASSUME \A s \in Slots : (Holding(s)' <=> Holding(s)) /\ (Holding(s) => run'[s] = run[s])
    PROVE  Held' = Held
<1>1. \A r \in Runs : HoldersOf(r)' = HoldersOf(r)
  BY DEF HoldersOf, Holding
<1> QED
  BY <1>1 DEF Held

LEMMA FewerHolders ==
    ASSUME \A s \in Slots : Holding(s)' => Holding(s) /\ run'[s] = run[s]
    PROVE  Held' \in [Runs -> SUBSET Slots] /\ \A r \in Runs : Held'[r] \subseteq Held[r]
<1>1. \A r \in Runs : HoldersOf(r)' \subseteq HoldersOf(r) /\ HoldersOf(r)' \subseteq Slots
  BY DEF HoldersOf, Holding
<1> QED
  BY <1>1 DEF Held

\* A step that shows on no row and no effect, and leaves the holders alone or
\* takes some away.
LEMMA LedgerStutters ==
    ASSUME UNCHANGED <<status, writes, events>>,
           \A s \in Slots : (Holding(s)' <=> Holding(s)) /\ (Holding(s) => run'[s] = run[s])
    PROVE  UNCHANGED Ledger!ledgerVars
  BY SameHolders DEF Ledger!ledgerVars, Held

LEMMA LedgerLetsGo ==
    ASSUME UNCHANGED <<status, writes, events>>,
           \A s \in Slots : Holding(s)' => Holding(s) /\ run'[s] = run[s]
    PROVE  Ledger!LedgerNext
<1>1. Ledger!LetGo
  BY FewerHolders DEF Ledger!LetGo, Held
<1> QED
  BY <1>1 DEF Ledger!LedgerNext

\* A step of an attempt writes for its own run, with a live context, or not at all.
LEMMA QuietWrites ==
    ASSUME NEW s \in Slots,
           Load(s) \/ CheckCancel(s) \/ CheckUnread(s) \/ Fetch(s) \/ Commit(s)
             \/ Written(s) \/ Send(s) \/ FinishFails(s)
    PROVE  \/ UNCHANGED writes
           \/ live[s] /\ writes' = [writes EXCEPT ![run[s]] = @ + 1]
<1>1. CASE Load(s) \/ CheckCancel(s) \/ CheckUnread(s) \/ Fetch(s) \/ Written(s) \/ FinishFails(s)
  BY <1>1 DEF Load, CheckCancel, CheckUnread, Fetch, FetchPage, ReadModel, Written, FinishFails
<1>2. CASE Commit(s)
  BY <1>2 DEF Commit
<1>3. CASE Send(s)
  BY <1>3 DEF Send
<1> QED
  BY <1>1, <1>2, <1>3

LEMMA LedgerWrites ==
    ASSUME TypeOK, LeaseInv, NEW s \in Slots, QuietStep(s),
           \/ UNCHANGED writes
           \/ live[s] /\ writes' = [writes EXCEPT ![run[s]] = @ + 1]
    PROVE  Ledger!LedgerNext \/ UNCHANGED Ledger!ledgerVars
<1>1. /\ Busy(s) /\ pc[s] # "event" /\ UNCHANGED <<status, events>>
      /\ \A t \in Slots : (Holding(t)' <=> Holding(t)) /\ (Holding(t) => run'[t] = run[t])
  BY DEF QuietStep, Holding, Busy, TypeOK, rowVars
<1>2. CASE UNCHANGED writes
  BY <1>1, <1>2, LedgerStutters
<1>3. CASE live[s] /\ writes' = [writes EXCEPT ![run[s]] = @ + 1]
  <2>1. run[s] \in Runs /\ status[run[s]] = "running"
    BY <1>1, <1>3 DEF TypeOK, LeaseInv, AttemptHoldsLease
  <2>2. s \in HoldersOf(run[s])
    BY <1>1, <1>3 DEF HoldersOf
  <2>3. Held' = Held
    BY <1>1, SameHolders
  <2>4. Ledger!Write(run[s])
    BY <1>1, <1>3, <2>1, <2>2, <2>3 DEF Ledger!Write, Held
  <2> QED
    BY <2>1, <2>4 DEF Ledger!LedgerNext
<1> QED
  BY <1>2, <1>3

\* A claim takes a run that nobody holds.
LEMMA LedgerTakes ==
    ASSUME TypeOK, LeaseInv, NEW s \in Slots, NEW r \in Runs, Claim(s, r) \/ ClaimUnread(s, r)
    PROVE  Ledger!LedgerNext
<1>1. /\ pc[s] = "idle" /\ UNCHANGED <<writes, events>>
      /\ Claimable(r, ProcOf[s]) /\ status' = [status EXCEPT ![r] = "running"] /\ ProcOf[s] \in Procs
  BY RunQueueAssumption DEF Claim, ClaimUnread, Lease
<1>2. status[r] \in {"queued", "running"} /\ HoldersOf(r) = {}
  BY <1>1, ClaimedIsFree DEF Claimable, HoldersOf
<1>3. CASE ClaimUnread(s, r)
  <2>1. Held' = Held
    BY <1>3, SameHolders DEF ClaimUnread, slotVars, Holding, Busy
  <2>2. Held = [Held EXCEPT ![r] = {}]
    BY <1>2 DEF Held
  <2>3. Ledger!Take(r, {})
    BY <1>1, <1>2, <2>1, <2>2 DEF Ledger!Take, Held
  <2> QED
    BY <2>3 DEF Ledger!LedgerNext
<1>4. CASE Claim(s, r)
  <2>1. pc' = [pc EXCEPT ![s] = "load"] /\ run' = [run EXCEPT ![s] = r] /\ live' = [live EXCEPT ![s] = TRUE]
    BY <1>4 DEF Claim
  <2>2. \A q \in Runs : s \notin HoldersOf(q)
    BY <1>1 DEF HoldersOf, Busy
  <2>3. \A t \in Slots \ {s} : (Holding(t)' <=> Holding(t)) /\ run'[t] = run[t]
    BY <2>1 DEF TypeOK, Holding, Busy
  <2>4. Holding(s)' /\ run'[s] = r
    BY <2>1 DEF TypeOK, Holding, Busy
  <2>5. HoldersOf(r)' = {s}
    BY <1>2, <2>3, <2>4 DEF HoldersOf, Holding
  <2>6. \A q \in Runs \ {r} : HoldersOf(q)' = HoldersOf(q)
    BY <2>2, <2>3, <2>4 DEF HoldersOf, Holding
  <2>7. Held' = [Held EXCEPT ![r] = {s}]
    BY <2>5, <2>6 DEF Held
  <2>8. Ledger!Take(r, {s})
    BY <1>1, <1>2, <2>2, <2>7 DEF Ledger!Take, Held
  <2> QED
    BY <2>8 DEF Ledger!LedgerNext
<1> QED
  BY <1>3, <1>4

\* Finish settles the run it holds.
LEMMA LedgerSettles ==
    ASSUME TypeOK, LeaseInv, NEW s \in Slots, Finish(s)
    PROVE  Ledger!LedgerNext \/ UNCHANGED Ledger!ledgerVars
<1>1. /\ Busy(s) /\ pc[s] # "event" /\ pc' = [pc EXCEPT ![s] = "event"] /\ UNCHANGED <<run, live, writes, events>>
      /\ run[s] \in Runs /\ result[s] \in Settled
  BY DEF Finish, Goto, Busy, TypeOK, Results
<1>2. \A t \in Slots : (Holding(t)' <=> Holding(t)) /\ run'[t] = run[t]
  BY <1>1 DEF Holding, Busy, TypeOK
<1>3. CASE live[s]
  <2>1. status' = [status EXCEPT ![run[s]] = result[s]] /\ status[run[s]] = "running"
    BY <1>1, <1>3 DEF Finish, LeaseInv, AttemptHoldsLease
  <2>2. s \in HoldersOf(run[s]) /\ Held' = Held
    BY <1>1, <1>2, <1>3, SameHolders DEF HoldersOf
  <2>3. Ledger!Settle(run[s], result[s])
    BY <1>1, <2>1, <2>2 DEF Ledger!Settle, Held
  <2>4. result[s] \in Ledger!Outcomes
    BY <1>1 DEF Ledger!Outcomes, Settled
  <2> QED
    BY <1>1, <2>3, <2>4 DEF Ledger!LedgerNext
<1>4. CASE ~live[s]
  <2>1. status' = status
    BY <1>4 DEF Finish
  <2> QED
    BY <1>1, <1>2, <2>1, LedgerStutters
<1> QED
  BY <1>3, <1>4

\* What a slot that is freed held is held by nobody.
LEMMA FreeHolds ==
    ASSUME TypeOK, NEW S \in SUBSET Slots, Free(S)
    PROVE  \A t \in Slots : Holding(t)' <=> Holding(t) /\ t \notin S
<1>1. \A t \in Slots : pc'[t] = (IF t \in S THEN "idle" ELSE pc[t]) /\ (live'[t] <=> live[t] /\ t \notin S)
  BY DEF Free
<1> QED
  BY <1>1 DEF Holding, Busy

LEMMA LedgerFrees ==
    ASSUME TypeOK, NEW S \in SUBSET Slots, Free(S), UNCHANGED <<status, writes, events>>
    PROVE  Ledger!LedgerNext
<1>1. \A t \in Slots : Holding(t)' => t \notin S
  BY FreeHolds
<1>2. \A t \in Slots : t \notin S => run'[t] = run[t]
  BY DEF Free
<1> QED
  BY <1>1, <1>2, FreeHolds, LedgerLetsGo

\* What is dispatched is dispatched by the holder, who is then done.
LEMMA LedgerAnnounces ==
    ASSUME TypeOK, LeaseInv, EventInv, NEW s \in Slots, Dispatch(s)
    PROVE  Ledger!LedgerNext
<1>1. pc[s] = "event" /\ Busy(s) /\ Free({s}) /\ UNCHANGED <<status, writes>> /\ run[s] \in Runs
  BY DEF Dispatch, Busy, rowVars, TypeOK
<1>2. CASE UNCHANGED events
  BY <1>1, <1>2, LedgerFrees
<1>3. CASE /\ live[s] /\ result[s] # "cancelled"
           /\ events' = [events EXCEPT ![run[s]] = Append(@, EventOf(result[s]))]
  <2>1. events[run[s]] = <<>> /\ status[run[s]] = result[s] /\ result[s] \in Settled
    BY <1>1, <1>3 DEF EventInv, EventPending, TypeOK, Results
  <2>2. events' = [events EXCEPT ![run[s]] = <<EventOf(status[run[s]])>>]
    BY <1>3, <2>1
  <2>3. s \in HoldersOf(run[s]) /\ HoldersOf(run[s]) \subseteq {s}
    BY <1>1, <1>3 DEF HoldersOf, LeaseInv, ExclusiveAttempt
  <2>4. \A t \in Slots : Holding(t)' <=> Holding(t) /\ t # s
    BY <1>1, FreeHolds
  <2>5. \A t \in Slots : t # s => run'[t] = run[t]
    BY <1>1 DEF Free
  <2>6. PICK r \in Runs : r = run[s]
    BY <1>1
  <2>7. HoldersOf(r)' = {}
    <3>1. ASSUME NEW t \in Slots, Holding(t)', run'[t] = r PROVE FALSE
      BY <2>3, <2>4, <2>5, <2>6, <3>1 DEF HoldersOf, Holding
    <3> QED
      BY <3>1 DEF HoldersOf, Holding
  <2>8. \A q \in Runs \ {r} : HoldersOf(q)' = HoldersOf(q)
    BY <2>4, <2>5, <2>6 DEF HoldersOf, Holding
  <2>9. Held' = [Held EXCEPT ![r] = {}]
    BY <2>7, <2>8 DEF Held
  <2>10. Ledger!Announce(r)
    <3>1. status[r] \in Ledger!Outcomes \ {"cancelled"} /\ events[r] = <<>> /\ HoldersOf(r) # {}
      BY <1>3, <2>1, <2>3, <2>6 DEF Ledger!Outcomes, Settled
    <3>2. events' = [events EXCEPT ![r] = <<IF status[r] = "failed" THEN "integration_failed"
                                            ELSE "integration_completed">>]
      BY <2>2, <2>6 DEF EventOf
    <3> QED
      BY <1>1, <2>9, <3>1, <3>2 DEF Ledger!Announce, Held
  <2> QED
    BY <2>10 DEF Ledger!LedgerNext
<1> QED
  BY <1>2, <1>3 DEF Dispatch

LEMMA LedgerStep ==
    ASSUME "heartbeat" \notin Faults, "db" \notin Faults, TypeOK, LeaseInv, EventInv, [Next]_vars
    PROVE  Ledger!LedgerNext \/ UNCHANGED Ledger!ledgerVars
<1>1. ASSUME UNCHANGED <<pc, run, live, status, writes, events>> PROVE UNCHANGED Ledger!ledgerVars
  BY <1>1, LedgerStutters DEF Holding, Busy
<1>2. ASSUME NEW r \in Runs, Enqueue(r) PROVE Ledger!LedgerNext
  <2>1. UNCHANGED <<pc, run, live, writes, events>>
    BY <1>2 DEF Enqueue, slotVars
  <2>2. Held' = Held
    BY <2>1, SameHolders DEF Holding, Busy
  <2>3. Ledger!Submit(r)
    BY <1>2, <2>1, <2>2 DEF Enqueue, Ledger!Submit, Held
  <2> QED
    BY <2>3 DEF Ledger!LedgerNext
<1>3. ASSUME NEW r \in Runs, Cancel(r) PROVE Ledger!LedgerNext \/ UNCHANGED Ledger!ledgerVars
  <2>1. UNCHANGED <<pc, run, live, writes, events>>
        /\ status' = [status EXCEPT ![r] = IF @ = "queued" THEN "cancelled" ELSE @]
    BY <1>3 DEF Cancel, slotVars
  <2>2. CASE status[r] = "queued"
    <3>1. Held' = Held
      BY <2>1, SameHolders DEF Holding, Busy
    <3>2. Ledger!Withdraw(r)
      BY <2>1, <2>2, <3>1 DEF Ledger!Withdraw, Held
    <3> QED
      BY <3>2 DEF Ledger!LedgerNext
  <2>3. CASE status[r] # "queued"
    <3>1. status' = status
      BY <2>1, <2>3 DEF TypeOK
    <3> QED
      BY <1>1, <2>1, <3>1
  <2> QED
    BY <2>2, <2>3
<1>4. ASSUME NEW s \in Slots, NEW r \in Runs, Claim(s, r) \/ ClaimUnread(s, r) PROVE Ledger!LedgerNext
  BY <1>4, LedgerTakes
<1>5. ASSUME NEW s \in Slots, NEW r \in Runs, Heartbeat(s, r) PROVE UNCHANGED Ledger!ledgerVars
  BY <1>1, <1>5 DEF Heartbeat, slotVars
<1>6. ASSUME NEW r \in Runs, LapseUnattended(r) \/ LapseAttended(r) PROVE UNCHANGED Ledger!ledgerVars
  BY <1>1, <1>6 DEF LapseUnattended, LapseAttended, slotVars
<1>7. ASSUME NEW s \in Slots, Attempt(s) \/ CheckUnread(s) \/ FinishFails(s)
      PROVE  Ledger!LedgerNext \/ UNCHANGED Ledger!ledgerVars
  <2>1. CASE Finish(s)
    BY <2>1, LedgerSettles
  <2>2. CASE Dispatch(s)
    BY <2>2, LedgerAnnounces
  <2>3. CASE Load(s) \/ CheckCancel(s) \/ CheckUnread(s) \/ Fetch(s) \/ Commit(s)
             \/ Written(s) \/ Send(s) \/ FinishFails(s)
    BY <2>3, QuietSteps, QuietWrites, LedgerWrites
  <2> QED
    BY <1>7, <2>1, <2>2, <2>3 DEF Attempt
<1>8. ASSUME NEW s \in Slots, Timeout(s) PROVE Ledger!LedgerNext
  <2>1. UNCHANGED <<pc, run, status, writes, events>> /\ live' = [live EXCEPT ![s] = FALSE]
    BY <1>8 DEF Timeout, rowVars
  <2>2. \A t \in Slots : Holding(t)' => Holding(t) /\ run'[t] = run[t]
    BY <2>1 DEF Holding, Busy, TypeOK
  <2> QED
    BY <2>1, <2>2, LedgerLetsGo
<1>9. ASSUME NEW p \in Procs, Shutdown(p) PROVE Ledger!LedgerNext
  <2>1. UNCHANGED <<pc, run, status, writes, events>> /\ live' = [s \in Slots |-> live[s] /\ ProcOf[s] # p]
    BY <1>9 DEF Shutdown, rowVars
  <2>2. \A t \in Slots : Holding(t)' => Holding(t) /\ run'[t] = run[t]
    BY <2>1 DEF Holding, Busy
  <2> QED
    BY <2>1, <2>2, LedgerLetsGo
<1>10. ASSUME NEW p \in Procs, Start(p) \/ Exit(p) PROVE UNCHANGED Ledger!ledgerVars
  BY <1>1, <1>10 DEF Start, Exit, slotVars, rowVars
<1>11. ASSUME NEW p \in Procs, Crash(p) PROVE Ledger!LedgerNext
  <2>1. Free({s \in Slots : ProcOf[s] = p}) /\ UNCHANGED <<status, writes, events>>
    BY <1>11 DEF Crash, rowVars
  <2> QED
    BY <2>1, LedgerFrees
<1>12. CASE UNCHANGED vars
  BY <1>1, <1>12 DEF vars, rowVars, slotVars
<1> QED
  BY <1>2, <1>3, <1>4, <1>5, <1>6, <1>7, <1>8, <1>9, <1>10, <1>11, <1>12 DEF Next

LEMMA LedgerInitial == Init => Ledger!LedgerInit
<1> SUFFICES ASSUME Init PROVE Ledger!LedgerInit
  OBVIOUS
<1>1. \A r \in Runs : HoldersOf(r) = {}
  BY DEF Init, HoldersOf, Busy
<1> QED
  BY <1>1 DEF Init, Ledger!LedgerInit

\* The queue implements RunLedger, as long as heartbeats and statements get
\* through: through crashes, timeouts, shutdowns and reclaims a run has one
\* holder at a time, which alone writes its data, settles it, once, and then
\* announces it, once (Claim, Heartbeat, Runner.Execute, Finish, OnFinished).
THEOREM QueueKeepsLedger ==
    ASSUME "heartbeat" \notin Faults, "db" \notin Faults
    PROVE  Spec => KeepsLedger
<1>1. TypeOK /\ LeaseInv /\ EventInv /\ [Next]_vars => [Ledger!LedgerNext]_(Ledger!ledgerVars)
  BY LedgerStep
<1>2. TypeOK /\ LeaseInv /\ EventInv /\ [Next]_vars => EventInv'
  BY EventStep
<1> QED
  BY <1>1, <1>2, EventInit, LedgerInitial, LeaseInvariant, PTL DEF Spec, KeepsLedger, Ledger!LedgerSpec

=============================================================================

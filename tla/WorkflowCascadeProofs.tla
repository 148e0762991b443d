------------------------- MODULE WorkflowCascadeProofs ------------------------
(***************************************************************************)
(* Theorems about the workflow engine when none of its statements fails:   *)
(* what the cascade of a request has brought about by the time it returns, *)
(* for any definition and any number of requests. Some hold however the    *)
(* requests interleave, the others when they are taken one at a time       *)
(* (Serial).                                                               *)
(***************************************************************************)
EXTENDS WorkflowEngineProofs

Serial == MaxFaults = 0 /\ \A g, h \in Handlers : g = h

\* The frame that each statement takes from the top.
LEMMA OpOf ==
    ASSUME NEW h
    PROVE  /\ CreateStep(h) => Top(h).op = "create"
           /\ Fallback(h) => Top(h).op = "fallback"
           /\ Activate(h) \/ ActivateJoin(h) => Top(h).op = "activate"
           /\ ReadPredecessor(h) => Top(h).op = "preds"
           /\ FireJoin(h) => Top(h).op = "fire"
           /\ ReadRework(h) => Top(h).op = "rework"
           /\ FailInstance(h) => Top(h).op = "fail"
           /\ FailExecution(h) => Top(h).op = "failexec"
           /\ ResetDownstream(h) => Top(h).op = "reset"
           /\ Revive(h) => Top(h).op = "revive"
           /\ RunAutoStep(h) => Top(h).op = "auto"
           /\ ReadReachable(h) => Top(h).op = "reach"
           /\ Sweep(h) => Top(h).op = "sweep"
           /\ NextJoin(h) => Top(h).op = "joins"
           /\ ReadCompleted(h) => Top(h).op = "any"
           /\ ReadIdle(h) => Top(h).op = "idle"
           /\ SkipPending(h) => Top(h).op = "skip"
           /\ EndInstance(h) => Top(h).op = "end"
           /\ EndExecution(h) => Top(h).op = "endexec"
           /\ DriveRecords(h) => Top(h).op = "drive"
           /\ ReadMirror(h) => Top(h).op = "started"
           /\ RecordExecution(h) => Top(h).op = "record"
<1>1. /\ CreateStep(h) => At(h, "create")
      /\ Fallback(h) => At(h, "fallback")
      /\ Activate(h) \/ ActivateJoin(h) => At(h, "activate")
      /\ ReadPredecessor(h) => At(h, "preds")
      /\ FireJoin(h) => At(h, "fire")
      /\ ReadRework(h) => At(h, "rework")
      /\ FailInstance(h) => At(h, "fail")
      /\ FailExecution(h) => At(h, "failexec")
  BY DEF CreateStep, Fallback, Activate, ActivateJoin, ReadPredecessor, FireJoin, ReadRework, FailInstance,
     FailExecution
<1>2. /\ ResetDownstream(h) => At(h, "reset")
      /\ Revive(h) => At(h, "revive")
      /\ RunAutoStep(h) => At(h, "auto")
      /\ ReadReachable(h) => At(h, "reach")
      /\ Sweep(h) => At(h, "sweep")
      /\ NextJoin(h) => At(h, "joins")
      /\ ReadCompleted(h) => At(h, "any")
  BY DEF ResetDownstream, Revive, RunAutoStep, ReadReachable, Sweep, NextJoin, ReadCompleted
<1>3. /\ ReadIdle(h) => At(h, "idle")
      /\ SkipPending(h) => At(h, "skip")
      /\ EndInstance(h) => At(h, "end")
      /\ EndExecution(h) => At(h, "endexec")
      /\ DriveRecords(h) => At(h, "drive")
      /\ ReadMirror(h) => At(h, "started")
      /\ RecordExecution(h) => At(h, "record")
  BY DEF ReadIdle, SkipPending, EndInstance, EndExecution, DriveRecords, ReadMirror, RecordExecution
<1> QED BY <1>1, <1>2, <1>3 DEF At

-----------------------------------------------------------------------------
(* The phases of a request: the cascade, its check for idleness, the three *)
(* statements that close the run, and what its caller does at the end.     *)

Kind(f) ==
    CASE f.op = "idle" -> "idle"
      [] f.op = "skip" -> "skip"
      [] f.op = "end" -> "end"
      [] f.op = "endexec" -> "rest"
      [] f.op = "drive" /\ f.event # "started" -> "rest"
      [] f.op \in {"started", "record"} -> "last"
      [] OTHER -> "work"

\* What may wait below a frame.
Below(kind) ==
    CASE kind = "work" -> {"work", "idle", "last"}
      [] kind = "idle" -> {"last"}
      [] kind = "skip" -> {"end", "rest", "last"}
      [] kind \in {"end", "rest"} -> {"rest", "last"}
      [] OTHER -> {}

Holds(q, kind) == \E i \in DOMAIN q : Kind(q[i]) = kind

\* The frames of a cascade.
Cascading == {f \in Frames : Kind(f) = "work"}

\* The frames of a request are in the order of its phases.
Phased(q) ==
    /\ \A i, j \in DOMAIN q : i < j => Kind(q[j]) \in Below(Kind(q[i]))
    /\ Holds(q, "work") => Holds(q, "idle")
    /\ Holds(q, "skip") => Holds(q, "end")

Phases == \A h \in Handlers : Phased(stack[h])

LEMMA KindIs ==
    ASSUME NEW f
    PROVE  /\ Kind(f) \in {"work", "idle", "skip", "end", "rest", "last"}
           /\ Kind(f) = "idle" <=> f.op = "idle"
           /\ Kind(f) = "skip" <=> f.op = "skip"
           /\ Kind(f) = "end" <=> f.op = "end"
           /\ Kind(f) = "rest" <=> f.op = "endexec" \/ (f.op = "drive" /\ f.event # "started")
           /\ Kind(f) = "last" <=> f.op \in {"started", "record"}
           /\ Kind(f) = "work" <=> /\ f.op \notin {"idle", "skip", "end", "endexec", "started", "record"}
                                   /\ f.op = "drive" => f.event = "started"
<1>1. CASE f.op \in {"idle", "skip", "end", "endexec"}
  BY <1>1 DEF Kind
<1>2. CASE f.op \in {"started", "record"}
  BY <1>2 DEF Kind
<1>3. CASE f.op = "drive" /\ f.event # "started"
  BY <1>3 DEF Kind
<1>4. CASE f.op = "drive" /\ f.event = "started"
  BY <1>4 DEF Kind
<1>5. CASE f.op \notin {"idle", "skip", "end", "endexec", "started", "record", "drive"}
  BY <1>5 DEF Kind
<1> QED BY <1>1, <1>2, <1>3, <1>4, <1>5

LEMMA BelowIs ==
    /\ Below("work") = {"work", "idle", "last"} /\ Below("idle") = {"last"}
    /\ Below("skip") = {"end", "rest", "last"}
    /\ Below("end") = {"rest", "last"} /\ Below("rest") = {"rest", "last"} /\ Below("last") = {}
  BY DEF Below

\* The frames fs may stand where a frame of that kind stood.
Fits(kind, fs) ==
    /\ \A i \in DOMAIN fs : Below(kind) \subseteq Below(Kind(fs[i]))
    /\ \A i, j \in DOMAIN fs : i < j => Kind(fs[j]) \in Below(Kind(fs[i]))
    /\ Holds(fs, "work") => kind = "work"
    /\ Holds(fs, "skip") => Holds(fs, "end")

\* What was below the top of q is in r.
Keeps(q, r) == \A j \in DOMAIN q : j > 1 => \E i \in DOMAIN r : r[i] = q[j]

\* The top frame gives way to frames that may stand where it stood.
LEMMA PushedPhased ==
    ASSUME NEW q \in Seq(Frames), q # <<>>, Phased(q), NEW fs \in Seq(Frames), NEW r, r = fs \o Tail(q),
           Fits(Kind(q[1]), fs)
    PROVE  Phased(r) /\ Keeps(q, r)
<1> /\ \A i \in DOMAIN fs : Below(Kind(q[1])) \subseteq Below(Kind(fs[i]))
    /\ \A i, j \in DOMAIN fs : i < j => Kind(fs[j]) \in Below(Kind(fs[i]))
    /\ Holds(fs, "work") => Kind(q[1]) = "work"
    /\ Holds(fs, "skip") => Holds(fs, "end")
  BY DEF Fits
<1>1. /\ r \in Seq(Frames)
      /\ Len(r) = Len(fs) + Len(q) - 1
      /\ Len(q) \in Nat \ {0} /\ Len(fs) \in Nat
      /\ \A i \in 1..Len(r) : r[i] = IF i <= Len(fs) THEN fs[i] ELSE q[i - Len(fs) + 1]
  BY Replaced
<1>2. DOMAIN r = 1..Len(r) /\ DOMAIN fs = 1..Len(fs) /\ DOMAIN q = 1..Len(q)
  BY <1>1
<1>3. ASSUME NEW i \in DOMAIN r, i <= Len(fs)
      PROVE  i \in DOMAIN fs /\ r[i] = fs[i]
  BY <1>1, <1>2, <1>3
<1>4. ASSUME NEW i \in DOMAIN r, ~(i <= Len(fs))
      PROVE  /\ i - Len(fs) + 1 \in DOMAIN q /\ i - Len(fs) + 1 > 1 /\ r[i] = q[i - Len(fs) + 1]
             /\ Kind(r[i]) \in Below(Kind(q[1]))
  <2>1. i - Len(fs) + 1 \in DOMAIN q /\ i - Len(fs) + 1 > 1 /\ r[i] = q[i - Len(fs) + 1] /\ 1 \in DOMAIN q
    BY <1>1, <1>2, <1>4
  <2> QED BY <2>1 DEF Phased
<1>5. ASSUME NEW j \in DOMAIN q, j > 1
      PROVE  j + Len(fs) - 1 \in DOMAIN r /\ r[j + Len(fs) - 1] = q[j]
  <2>1. j + Len(fs) - 1 \in DOMAIN r /\ ~(j + Len(fs) - 1 <= Len(fs)) /\ (j + Len(fs) - 1) - Len(fs) + 1 = j
    BY <1>1, <1>2, <1>5
  <2> QED BY <1>1, <1>2, <2>1
<1>6. ASSUME NEW i \in DOMAIN fs PROVE i \in DOMAIN r /\ r[i] = fs[i]
  BY <1>1, <1>2
<1>7. ASSUME NEW i \in DOMAIN r, NEW j \in DOMAIN r, i < j
      PROVE  Kind(r[j]) \in Below(Kind(r[i]))
  <2>0. i \in Nat /\ j \in Nat
    BY <1>2
  <2>1. CASE j <= Len(fs)
    <3>1. i <= Len(fs)
      BY <1>1, <1>7, <2>0, <2>1
    <3> QED BY <1>3, <1>7, <2>1, <3>1
  <2>2. CASE i <= Len(fs) /\ ~(j <= Len(fs))
    BY <1>3, <1>4, <2>2
  <2>3. CASE ~(i <= Len(fs)) /\ ~(j <= Len(fs))
    <3> DEFINE m == i - Len(fs) + 1
               n == j - Len(fs) + 1
    <3>1. m \in DOMAIN q /\ n \in DOMAIN q /\ r[i] = q[m] /\ r[j] = q[n]
      BY <1>4, <2>3
    <3>2. m < n
      BY <1>1, <1>7, <2>0
    <3> HIDE DEF m, n
    <3> QED BY <3>1, <3>2 DEF Phased
  <2> QED BY <2>1, <2>2, <2>3
<1>8. 1 \in DOMAIN q
  BY <1>1, <1>2
<1>9. ASSUME Holds(r, "work") PROVE Holds(r, "idle")
  <2>1. PICK i \in DOMAIN r : Kind(r[i]) = "work"
    BY <1>9 DEF Holds
  <2>2. Kind(q[1]) = "work"
    <3>1. CASE i <= Len(fs)
      BY <1>3, <2>1, <3>1 DEF Holds
    <3>2. CASE ~(i <= Len(fs))
      BY <1>4, <2>1, <3>2, KindIs, BelowIs
    <3> QED BY <3>1, <3>2
  <2>3. PICK j \in DOMAIN q : Kind(q[j]) = "idle"
    BY <1>8, <2>2 DEF Phased, Holds
  <2>4. j > 1
    BY <1>2, <2>2, <2>3
  <2> QED BY <1>5, <2>3, <2>4 DEF Holds
<1>10. ASSUME Holds(r, "skip") PROVE Holds(r, "end")
  <2>1. PICK i \in DOMAIN r : Kind(r[i]) = "skip"
    BY <1>10 DEF Holds
  <2>2. i <= Len(fs)
    BY <1>4, <2>1, KindIs, BelowIs
  <2>3. Holds(fs, "end")
    BY <1>3, <2>1, <2>2 DEF Holds
  <2> QED BY <1>6, <2>3 DEF Holds
<1>11. Phased(r)
  BY <1>7, <1>9, <1>10 DEF Phased
<1>12. Keeps(q, r)
  BY <1>5 DEF Keeps
<1> QED BY <1>11, <1>12

\* A statement of the cascade leaves a cascade.
Worked(h) ==
    /\ \A g \in Handlers \ {h} : stack'[g] = stack[g]
    /\ Phased(stack'[h]) /\ Holds(stack'[h], "idle")
    /\ \A i \in DOMAIN stack'[h] : Kind(stack'[h][i]) \in {"work", "idle", "last"}

LEMMA TopPhased ==
    ASSUME Shape, Calls, Phases, NEW h \in Handlers, ~Idle(h)
    PROVE  /\ stack[h] \in Seq(Frames) /\ stack[h] # <<>> /\ Phased(stack[h])
           /\ 1 \in DOMAIN stack[h] /\ stack[h][1] = Top(h) /\ Top(h) \in Frames
           /\ \A i \in DOMAIN stack[h] : i > 1 => Kind(stack[h][i]) \in Below(Kind(Top(h)))
<1>1. /\ stack[h] \in Seq(Frames) /\ stack[h] # <<>> /\ Len(stack[h]) \in Nat \ {0}
      /\ Top(h) \in Frames /\ Top(h) = stack[h][1]
  BY StackTyped
<1>2. 1 \in DOMAIN stack[h] /\ DOMAIN stack[h] \subseteq Nat
  BY <1>1
<1>3. Phased(stack[h])
  BY DEF Phases
<1> QED BY <1>1, <1>2, <1>3 DEF Phased

LEMMA WorkContinues ==
    ASSUME Shape, Calls, Phases, NEW h \in Handlers, ~Idle(h), Kind(Top(h)) = "work",
           NEW fs \in Seq(Cascading), Continue(h, fs)
    PROVE  Worked(h)
<1> DEFINE q == stack[h]
           r == fs \o Tail(q)
<1>1. /\ q \in Seq(Frames) /\ q # <<>> /\ Phased(q) /\ q[1] = Top(h) /\ 1 \in DOMAIN q
      /\ \A i \in DOMAIN q : i > 1 => Kind(q[i]) \in Below("work")
  BY TopPhased
<1>2. fs \in Seq(Frames) /\ Cascading \subseteq Frames /\ \A i \in DOMAIN fs : Kind(fs[i]) = "work"
  BY DEF Cascading
<1>3. Fits("work", fs)
  BY <1>2, BelowIs DEF Fits, Holds
<1>6. Phased(r) /\ Keeps(q, r)
  <2>1. r = fs \o Tail(q) /\ q \in Seq(Frames) /\ q # <<>> /\ Phased(q) /\ fs \in Seq(Frames)
    BY <1>1, <1>2
  <2>2. Fits(Kind(q[1]), fs)
    BY <1>1, <1>3
  <2> HIDE DEF q, r
  <2> QED BY <2>1, <2>2, PushedPhased
<1>7. Pushed(h, Cascading)
  BY <1>2, ContinuePushes
<1>8. stack' = [stack EXCEPT ![h] = r] /\ stack \in [Handlers -> Seq(Frames)]
  BY DEF Continue, Shape
<1>9. stack'[h] = r
  <2> HIDE DEF r
  <2> QED BY <1>8
<1> HIDE DEF r
<1>10. PICK j \in DOMAIN q : Kind(q[j]) = "idle"
  BY <1>1 DEF Phased, Holds
<1>11. j # 1 /\ DOMAIN q \subseteq Nat \ {0}
  BY <1>1, <1>10
<1>12. j > 1
  BY <1>11
<1>13. Holds(r, "idle")
  BY <1>6, <1>10, <1>12 DEF Holds, Keeps
<1>14. \A i \in DOMAIN r : Kind(r[i]) \in {"work", "idle", "last"}
  BY <1>1, <1>7, <1>9, BelowIs DEF Pushed, Cascading
<1>15. \A g \in Handlers \ {h} : stack'[g] = stack[g]
  BY <1>7 DEF Pushed
<1> QED BY <1>6, <1>9, <1>13, <1>14, <1>15 DEF Worked

\* The frames keep their kinds.
LEMMA WorkSame ==
    ASSUME Shape, Calls, Phases, NEW h \in Handlers, ~Idle(h), Kind(Top(h)) = "work",
           NEW r, stack' = [stack EXCEPT ![h] = r], DOMAIN r = DOMAIN stack[h],
           \A i \in DOMAIN r : Kind(r[i]) = Kind(stack[h][i])
    PROVE  Worked(h)
<1> DEFINE q == stack[h]
<1>1. /\ q \in Seq(Frames) /\ Phased(q) /\ q[1] = Top(h) /\ 1 \in DOMAIN q
      /\ \A i \in DOMAIN q : i > 1 => Kind(q[i]) \in Below("work")
  BY TopPhased
<1>2. stack'[h] = r /\ \A g \in Handlers \ {h} : stack'[g] = stack[g]
  BY DEF Shape
<1>3. \A k : Holds(r, k) <=> Holds(q, k)
  BY DEF Holds
<1>4. Phased(r)
  BY <1>1, <1>3 DEF Phased
<1>5. Holds(r, "idle")
  BY <1>1, <1>3 DEF Phased, Holds
<1>6. DOMAIN q \subseteq Nat \ {0}
  BY <1>1
<1>7. \A i \in DOMAIN q : i = 1 \/ i > 1
  BY <1>6
<1>8. \A i \in DOMAIN r : Kind(r[i]) \in {"work", "idle", "last"}
  BY <1>1, <1>7, BelowIs
<1> QED BY <1>2, <1>4, <1>5, <1>8 DEF Worked

\* Frames that carry on with the cascade.
LEMMA OneCascading ==
    ASSUME Shape, Calls, Phases, NEW h \in Handlers, ~Idle(h), Kind(Top(h)) = "work",
           NEW f \in Cascading, Continue(h, <<f>>)
    PROVE  Worked(h)
<1>1. <<f>> \in Seq(Cascading)
  OBVIOUS
<1> QED BY <1>1, WorkContinues

LEMMA CascadeOps ==
    ASSUME NEW f \in Frames, f.op \notin {"idle", "skip", "end", "endexec", "started", "record", "drive"}
    PROVE  f \in Cascading /\ Kind(f) = "work"
<1>1. Kind(f) = "work"
  BY KindIs
<1> QED BY <1>1 DEF Cascading

LEMMA PlainCascading ==
    ASSUME NEW fs \in Seq(Plain),
           \A i \in DOMAIN fs : fs[i].op \notin {"idle", "skip", "end", "endexec", "started", "record", "drive"}
    PROVE  fs \in Seq(Cascading)
<1>1. \A i \in DOMAIN fs : fs[i] \in Frames
  BY DEF Plain
<1>2. \A i \in DOMAIN fs : fs[i] \in Cascading
  BY <1>1, CascadeOps
<1> QED BY <1>2

LEMMA AutoCascading ==
    ASSUME Shape, NEW s \in Steps
    PROVE  ProcessAutoStep(s) \in Seq(Cascading)
  BY AutoPushed, PlainCascading

LEMMA ActivateCascading ==
    ASSUME Shape, NEW s \in Steps, NEW d, NEW next \in ActivateNextSteps(s, d)
    PROVE  next \in Seq(Cascading)
<1>1. next \in Seq(Plain)
  BY ActivatePushed
<1>2. \A i \in DOMAIN next : next[i].op \in {"fallback", "activate"}
  <2>1. CASE next = <<[op |-> "fallback"]>>
    BY <2>1
  <2>2. CASE \A i \in DOMAIN next : next[i].op = "activate"
    BY <2>2
  <2> QED BY <2>1, <2>2, ActivatePushed
<1> QED BY <1>1, <1>2, PlainCascading

LEMMA ReconcileCascading ==
    ASSUME NEW pass \in Nat
    PROVE  ReconcileInstance(pass) \in Seq(Cascading)
<1>1. \A i \in DOMAIN ReconcileInstance(pass) : ReconcileInstance(pass)[i].op = "reach"
  <2>1. CASE ReconcileInstance(pass) = <<>>
    BY <2>1
  <2>2. CASE ReconcileInstance(pass) = <<[op |-> "reach", pass |-> pass]>>
    BY <2>2
  <2> QED BY <2>1, <2>2, ReconcilePushed
<1> QED BY <1>1, ReconcilePushed, PlainCascading

\* The pops of the cascade.
LEMMA WorkPops ==
    ASSUME Shape, Calls, Phases, NEW h \in Handlers, ~Idle(h), Kind(Top(h)) = "work", Continue(h, <<>>)
    PROVE  Worked(h)
<1>1. <<>> \in Seq(Cascading)
  OBVIOUS
<1> QED BY <1>1, WorkContinues

LEMMA JoinsWork ==
    ASSUME Shape, Calls, Phases, NEW h \in Handlers,
           ActivateJoin(h) \/ ReadPredecessor(h) \/ NextJoin(h) \/ ReadCompleted(h)
    PROVE  Worked(h)
<1> DEFINE f == Top(h)
           k == [f EXCEPT !.left = Rest(@)]
<1>1. ~Idle(h) /\ f \in Frames /\ f.op \in {"activate", "preds", "joins", "any"}
  BY TopIs, StackTyped DEF ActivateJoin, ReadPredecessor, NextJoin, ReadCompleted
<1>2. Kind(f) = "work"
  BY <1>1, CascadeOps
<1>3. ASSUME f.op \in {"preds", "any", "joins"} PROVE k \in Cascading
  BY <1>1, <1>3, FrameRest, CascadeOps
<1>4. CASE ActivateJoin(h)
  <2> DEFINE g == [op |-> "preds", join |-> f.to, left |-> Predecessors(f.to), then |-> "fire"]
  <2>1. f.to \in Joins /\ Continue(h, <<g>>)
    BY <1>1, <1>4, TopIs, FrameFields DEF ActivateJoin, ReadPredecessors, Joins
  <2>2. g \in Cascading
    BY <2>1, AskFrame, CascadeOps
  <2> HIDE DEF g
  <2> QED BY <1>1, <1>2, <2>1, <2>2, OneCascading
<1>5. CASE ReadPredecessor(h)
  <2> DEFINE g == [op |-> f.then, join |-> f.join, left |-> Predecessors(f.join)]
  <2>1. f.op = "preds" /\ f.join \in Joins /\ f.then \in {"fire", "any"}
    BY <1>1, <1>5, TopIs, FrameFields DEF ReadPredecessor
  <2>2. Continue(h, <<g>>) \/ Continue(h, <<k>>) \/ Continue(h, <<>>)
    BY <1>5 DEF ReadPredecessor
  <2>3. g \in Cascading /\ k \in Cascading
    BY <1>3, <2>1, AskFrame, CascadeOps
  <2> HIDE DEF g, k
  <2>4. Continue(h, <<g>>) => Worked(h)
    BY <1>1, <1>2, <2>3, OneCascading
  <2>5. Continue(h, <<k>>) => Worked(h)
    BY <1>1, <1>2, <2>3, OneCascading
  <2>6. Continue(h, <<>>) => Worked(h)
    BY <1>1, <1>2, WorkPops
  <2> QED BY <2>2, <2>4, <2>5, <2>6
<1>6. CASE NextJoin(h)
  <2> DEFINE j == First(f.left)
             g == [op |-> "preds", join |-> j, left |-> Predecessors(j), then |-> "any"]
  <2>1. f.op = "joins" /\ f.pass \in Nat /\ f.left \subseteq Joins /\ k \in Cascading
    BY <1>1, <1>3, <1>6, TopIs, FrameFields DEF NextJoin
  <2>2. CASE f.left = {}
    <3>1. Continue(h, ReconcileInstance(f.pass + 1)) \/ Continue(h, <<>>)
      BY <1>6, <2>2 DEF NextJoin
    <3>2. ReconcileInstance(f.pass + 1) \in Seq(Cascading)
      BY <2>1, ReconcileCascading
    <3> QED BY <1>1, <1>2, <3>1, <3>2, WorkContinues, WorkPops
  <2>3. CASE f.left # {}
    <3>1. f.left \in SUBSET Nat
      BY <2>1, WfTyped DEF Joins
    <3>2. j \in Joins
      BY <2>1, <2>3, <3>1, FirstIn
    <3>3. g \in Cascading
      BY <3>2, AskFrame, CascadeOps
    <3>4. Continue(h, <<g>> \o <<k>>) \/ Continue(h, <<>> \o <<k>>)
      BY <1>6, <2>3 DEF NextJoin, ReadPredecessors
    <3>5. <<g>> \o <<k>> \in Seq(Cascading) /\ <<>> \o <<k>> \in Seq(Cascading)
      <4> HIDE DEF g, k
      <4> QED BY <2>1, <3>3
    <3> HIDE DEF g, k
    <3> QED BY <1>1, <1>2, <3>4, <3>5, WorkContinues
  <2> QED BY <2>2, <2>3
<1>7. CASE ReadCompleted(h)
  <2> DEFINE r == <<[op |-> "fire", join |-> f.join, left |-> {}]>>
                  \o <<[stack[h][2] EXCEPT !.changed = TRUE]>> \o Tail(Tail(stack[h]))
  <2>1. f.op = "any" /\ f.join \in Joins /\ At(h, "any")
    BY <1>1, <1>7, TopIs, FrameFields DEF ReadCompleted
  <2>2. Continue(h, <<>>) \/ Continue(h, <<k>>) \/ stack' = [stack EXCEPT ![h] = r]
    BY <1>7 DEF ReadCompleted
  <2>3. Continue(h, <<>>) => Worked(h)
    BY <1>1, <1>2, WorkPops
  <2>4. Continue(h, <<k>>) => Worked(h)
    <3>1. k \in Cascading
      BY <1>3, <2>1
    <3> HIDE DEF k
    <3> QED BY <1>1, <1>2, <3>1, OneCascading
  <2>5. ASSUME stack' = [stack EXCEPT ![h] = r] PROVE Worked(h)
    <3>1. /\ r \in Seq(Frames) /\ Len(r) = Len(stack[h]) /\ Len(r) \in Nat
          /\ r[1] = [op |-> "fire", join |-> f.join, left |-> {}]
          /\ r[2].op = "joins" /\ stack[h][2].op = "joins" /\ \A i \in 3..Len(r) : r[i] = stack[h][i]
      BY <2>1, CompletedStack
    <3>2. r[1].op = "fire"
      BY <3>1
    <3> HIDE DEF r
    <3>3. DOMAIN r = 1..Len(r) /\ DOMAIN stack[h] = 1..Len(r) /\ stack[h][1] = f
      BY <1>1, <3>1, StackTyped
    <3>4. ASSUME NEW i \in DOMAIN r PROVE Kind(r[i]) = Kind(stack[h][i])
      <4>1. CASE i \in 3..Len(r)
        BY <3>1, <4>1
      <4>2. CASE i = 1
        BY <2>1, <3>2, <3>3, <4>2, KindIs
      <4>3. CASE i = 2
        BY <3>1, <4>3, KindIs
      <4> QED BY <3>1, <3>3, <4>1, <4>2, <4>3
    <3> QED BY <1>1, <1>2, <2>5, <3>3, <3>4, WorkSame
  <2> QED BY <2>2, <2>3, <2>4, <2>5
<1> QED BY <1>4, <1>5, <1>6, <1>7

LEMMA ContinuePhased ==
    ASSUME Shape, Calls, Phases, NEW h \in Handlers, ~Idle(h), NEW fs \in Seq(Frames), Fits(Kind(Top(h)), fs),
           Continue(h, fs)
    PROVE  /\ Phased(stack'[h]) /\ Keeps(stack[h], stack'[h]) /\ stack'[h] = fs \o Tail(stack[h])
           /\ \A g \in Handlers \ {h} : stack'[g] = stack[g]
<1> DEFINE q == stack[h]
           r == fs \o Tail(q)
<1>1. q \in Seq(Frames) /\ q # <<>> /\ Phased(q) /\ q[1] = Top(h)
  BY TopPhased
<1>2. r = fs \o Tail(q)
  OBVIOUS
<1>3. stack' = [stack EXCEPT ![h] = r] /\ stack \in [Handlers -> Seq(Frames)]
  BY DEF Continue, Shape
<1>4. Phased(r) /\ Keeps(q, r)
  <2>1. Fits(Kind(q[1]), fs)
    BY <1>1
  <2> HIDE DEF q, r
  <2> QED BY <1>1, <1>2, <2>1, PushedPhased
<1>5. stack'[h] = r /\ \A g \in Handlers \ {h} : stack'[g] = stack[g]
  <2> HIDE DEF r
  <2> QED BY <1>3
<1> HIDE DEF r
<1> QED BY <1>4, <1>5, <1>2

\* A frame of any kind may come off.
LEMMA PopPhased ==
    ASSUME Shape, Calls, Phases, NEW h \in Handlers, ~Idle(h), Continue(h, <<>>)
    PROVE  /\ Phased(stack'[h]) /\ Keeps(stack[h], stack'[h])
           /\ \A g \in Handlers \ {h} : stack'[g] = stack[g]
           /\ \A i \in DOMAIN stack'[h] : Kind(stack'[h][i]) \in Below(Kind(Top(h)))
<1>1. <<>> \in Seq(Frames) /\ Fits(Kind(Top(h)), <<>>)
  BY DEF Fits, Holds
<1> DEFINE F == {f \in Frames : FALSE}
<1>2. Pushed(h, F)
  <2>1. <<>> \in Seq(F) /\ F \subseteq Frames
    OBVIOUS
  <2> HIDE DEF F
  <2> QED BY <2>1, ContinuePushes
<1> QED BY <1>1, <1>2, ContinuePhased, TopPhased DEF Pushed

LEMMA WorkStatements ==
    ASSUME Shape, Calls, Phases, NEW h \in Handlers, Statement(h), Kind(Top(h)) = "work"
    PROVE  Worked(h)
<1> DEFINE f == Top(h)
<1>1. f.op \notin {"idle", "skip", "end", "endexec", "started", "record"}
  BY KindIs
<1>2. ~ReadIdle(h) /\ ~SkipPending(h) /\ ~EndInstance(h) /\ ~EndExecution(h) /\ ~ReadMirror(h) /\ ~RecordExecution(h)
  BY <1>1, TopIs DEF ReadIdle, SkipPending, EndInstance, EndExecution, ReadMirror, RecordExecution
<1>3. ~Idle(h) /\ f \in Frames
  <2>1. ~Idle(h)
    BY InstanceMoves
  <2> QED BY <2>1, StackTyped
<1>4. CASE Fallback(h) \/ FailInstance(h) \/ FailExecution(h) \/ ResetDownstream(h) \/ DriveRecords(h)
  <2>1. Continue(h, <<>>)
    BY <1>4 DEF Fallback, FailInstance, FailExecution, ResetDownstream, DriveRecords
  <2> QED BY <1>3, <2>1, WorkPops
<1>5. CASE ActivateJoin(h) \/ ReadPredecessor(h) \/ NextJoin(h) \/ ReadCompleted(h)
  BY <1>5, JoinsWork
<1>6. CASE CreateStep(h)
  <2> DEFINE c == [op |-> "create", step |-> f.step + 1]
  <2>1. f.step \in Steps
    BY <1>3, <1>6, TopIs, FrameFields DEF CreateStep
  <2>2. f.step = Len(wf.type) \/ c \in Frames
    BY <2>1, WfTyped DEF Frames, Steps
  <2>3. Continue(h, IF f.step = Len(wf.type) THEN <<>> ELSE <<c>>)
    BY <1>6 DEF CreateStep
  <2>4. c \in Frames => c \in Cascading
    BY CascadeOps
  <2> HIDE DEF c
  <2> QED BY <1>3, <2>2, <2>3, <2>4, WorkPops, OneCascading
<1>7. CASE Activate(h)
  <2> DEFINE g == [op |-> "rework", step |-> f.to]
  <2>1. f.op = "activate" /\ f.to \in Steps \ Joins
    BY <1>3, <1>7, TopIs, FrameFields DEF Activate, Joins
  <2>2. g \in Cascading
    <3>1. g \in Frames
      BY <2>1 DEF Frames
    <3> QED BY <3>1, CascadeOps
  <2>3. Continue(h, <<g>>) \/ Continue(h, ProcessAutoStep(f.to))
    BY <1>7 DEF Activate
  <2>4. ProcessAutoStep(f.to) \in Seq(Cascading)
    BY <2>1, AutoCascading
  <2> HIDE DEF g
  <2> QED BY <1>3, <2>2, <2>3, <2>4, OneCascading, WorkContinues
<1>8. CASE FireJoin(h)
  <2>1. f.join \in Steps
    BY <1>3, <1>8, TopIs, FrameFields DEF FireJoin, Joins
  <2>2. PICK next \in ActivateNextSteps(f.join, "complete") : Continue(h, next)
    BY <1>8 DEF FireJoin
  <2>3. next \in Seq(Cascading)
    BY <2>1, ActivateCascading
  <2> QED BY <1>3, <2>2, <2>3, WorkContinues
<1>9. CASE ReadRework(h)
  <2> DEFINE a == [op |-> "reset", step |-> f.step]
             b == [op |-> "revive", step |-> f.step]
  <2>1. f.step \in Steps \ Joins
    BY <1>3, <1>9, TopIs, FrameFields DEF ReadRework
  <2>2. Continue(h, <<>>) \/ Continue(h, <<[op |-> "fail"], [op |-> "failexec"]>>) \/ Continue(h, <<a, b>>)
    BY <1>9 DEF ReadRework
  <2>3. a \in Cascading /\ b \in Cascading
    BY <2>1, ReworkFrames, CascadeOps
  <2>4. [op |-> "fail"] \in Cascading /\ [op |-> "failexec"] \in Cascading
    <3>1. [op |-> "fail"] \in Frames /\ [op |-> "failexec"] \in Frames
      BY DEF Frames
    <3> QED BY <3>1, CascadeOps
  <2> HIDE DEF a, b
  <2>5. <<a, b>> \in Seq(Cascading) /\ <<[op |-> "fail"], [op |-> "failexec"]>> \in Seq(Cascading)
    BY <2>3, <2>4
  <2> QED BY <1>3, <2>2, <2>5, WorkPops, WorkContinues
<1>10. CASE Revive(h)
  <2>1. f.step \in Steps /\ Continue(h, ProcessAutoStep(f.step))
    BY <1>3, <1>10, TopIs, FrameFields DEF Revive
  <2> QED BY <1>3, <2>1, AutoCascading, WorkContinues
<1>11. CASE RunAutoStep(h)
  <2>1. f.step \in Steps
    BY <1>3, <1>11, TopIs, FrameFields DEF RunAutoStep
  <2>2. Continue(h, <<>>) \/ \E d : \E next \in ActivateNextSteps(f.step, d) : Continue(h, next)
    BY <1>11 DEF RunAutoStep
  <2>3. ASSUME NEW d, NEW next \in ActivateNextSteps(f.step, d) PROVE next \in Seq(Cascading)
    BY <2>1, ActivateCascading
  <2> QED BY <1>3, <2>2, <2>3, WorkPops, WorkContinues
<1>12. CASE ReadReachable(h)
  <2> DEFINE g == [op |-> "sweep", pass |-> f.pass, reach |-> Reachable]
  <2>1. f.op = "reach" /\ f.pass \in Nat /\ Continue(h, <<g>>)
    BY <1>3, <1>12, TopIs, FrameFields DEF ReadReachable, SweepFrom
  <2>2. g \in Frames
    BY <2>1, ReachableTyped DEF Frames
  <2>3. g \in Cascading
    BY <2>2, CascadeOps
  <2> HIDE DEF g
  <2> QED BY <1>3, <2>1, <2>3, OneCascading
<1>13. CASE Sweep(h)
  <2>1. f.op = "sweep" /\ f.pass \in Nat /\ f.reach \subseteq Steps
    BY <1>3, <1>13, TopIs, FrameFields DEF Sweep
  <2>2. PICK changed \in BOOLEAN : Continue(h, FireJoins(f, changed))
    BY <1>13 DEF Sweep
  <2> DEFINE g == [op |-> "joins", pass |-> f.pass, changed |-> changed, left |-> Joins \cap f.reach]
  <2>3. g \in Frames /\ Continue(h, <<g>>)
    BY <2>1, <2>2 DEF Frames, FireJoins
  <2>4. g \in Cascading
    BY <2>3, CascadeOps
  <2> HIDE DEF g
  <2> QED BY <1>3, <2>3, <2>4, OneCascading
<1> QED BY <1>2, <1>4, <1>5, <1>6, <1>7, <1>8, <1>9, <1>10, <1>11, <1>12, <1>13 DEF Statement

\* The statements after the cascade.
LEMMA IdlePhased ==
    ASSUME Shape, Calls, Phases, NEW h \in Handlers, ReadIdle(h)
    PROVE  /\ Phased(stack'[h]) /\ \A g \in Handlers \ {h} : stack'[g] = stack[g]
           /\ \/ /\ \E s \in Steps : status[s] = "in_progress"
                 /\ \A i \in DOMAIN stack'[h] : Kind(stack'[h][i]) = "last"
              \/ /\ \A s \in Steps : status[s] # "in_progress"
                 /\ Holds(stack'[h], "end") /\ stack'[h] # <<>> /\ Head(stack'[h]) = [op |-> "skip"]
<1>1. ~Idle(h) /\ Kind(Top(h)) = "idle"
  BY TopIs, KindIs DEF ReadIdle
<1>2. CASE \E s \in Steps : status[s] = "in_progress"
  <2>1. Continue(h, <<>>)
    BY <1>2 DEF ReadIdle
  <2> QED BY <1>1, <1>2, <2>1, PopPhased, BelowIs
<1>3. CASE \A s \in Steps : status[s] # "in_progress"
  <2> DEFINE a == [op |-> "skip"]
             b == [op |-> "end"]
             c == [op |-> "endexec"]
             fs == <<a, b, c>>
  <2>1. Continue(h, fs)
    BY <1>3 DEF ReadIdle, CloseInstance
  <2>2. a \in Frames /\ b \in Frames /\ c \in Frames
    BY DEF Frames
  <2>3. Kind(a) = "skip" /\ Kind(b) = "end" /\ Kind(c) = "rest"
    BY DEF Kind
  <2> HIDE DEF a, b, c
  <2>4. fs \in Seq(Frames) /\ DOMAIN fs = {1, 2, 3} /\ fs[1] = a /\ fs[2] = b /\ fs[3] = c /\ Len(fs) = 3
    BY <2>2
  <2> HIDE DEF fs
  <2>5. Fits("idle", fs)
    <3>1. \A i \in DOMAIN fs : Below("idle") \subseteq Below(Kind(fs[i]))
      BY <2>3, <2>4, BelowIs
    <3>2. \A i, j \in DOMAIN fs : i < j => Kind(fs[j]) \in Below(Kind(fs[i]))
      BY <2>3, <2>4, BelowIs
    <3>3. ~Holds(fs, "work") /\ Holds(fs, "end")
      BY <2>3, <2>4 DEF Holds
    <3> QED BY <3>1, <3>2, <3>3 DEF Fits
  <2>6. /\ Phased(stack'[h]) /\ stack'[h] = fs \o Tail(stack[h])
        /\ \A g \in Handlers \ {h} : stack'[g] = stack[g]
    BY <1>1, <2>1, <2>4, <2>5, ContinuePhased
  <2>7. stack[h] \in Seq(Frames) /\ stack[h] # <<>>
    BY <1>1, TopPhased
  <2>8. stack'[h] # <<>> /\ Head(stack'[h]) = a /\ 2 \in DOMAIN stack'[h] /\ stack'[h][2] = b
    <3> DEFINE q == stack[h]
               r == fs \o Tail(q)
    <3>1. r = fs \o Tail(q) /\ q \in Seq(Frames) /\ q # <<>> /\ stack'[h] = r /\ fs \in Seq(Frames)
      BY <2>4, <2>6, <2>7
    <3> HIDE DEF q, r
    <3>2. /\ r \in Seq(Frames) /\ Len(r) = Len(fs) + Len(q) - 1 /\ Len(q) \in Nat \ {0}
          /\ \A i \in 1..Len(r) : r[i] = IF i <= Len(fs) THEN fs[i] ELSE q[i - Len(fs) + 1]
      BY <3>1, Replaced
    <3>3. 1 \in 1..Len(r) /\ 2 \in 1..Len(r) /\ DOMAIN r = 1..Len(r) /\ r[1] = a /\ r[2] = b
      BY <2>4, <3>2
    <3>4. r # <<>> /\ Head(r) = r[1]
      BY <3>2, <3>3
    <3> QED BY <3>1, <3>3, <3>4
  <2>9. Holds(stack'[h], "end")
    BY <2>3, <2>8 DEF Holds
  <2> QED BY <1>3, <2>6, <2>8, <2>9 DEF a
<1> QED BY <1>2, <1>3

LEMMA SkipPhased ==
    ASSUME Shape, Calls, Phases, NEW h \in Handlers, SkipPending(h)
    PROVE  /\ Phased(stack'[h]) /\ \A g \in Handlers \ {h} : stack'[g] = stack[g]
           /\ Holds(stack'[h], "end") /\ \A i \in DOMAIN stack'[h] : Kind(stack'[h][i]) \in {"end", "rest", "last"}
<1>1. ~Idle(h) /\ Kind(Top(h)) = "skip" /\ Continue(h, <<>>)
  BY TopIs, KindIs DEF SkipPending
<1>2. /\ Phased(stack'[h]) /\ Keeps(stack[h], stack'[h])
      /\ \A g \in Handlers \ {h} : stack'[g] = stack[g]
      /\ \A i \in DOMAIN stack'[h] : Kind(stack'[h][i]) \in {"end", "rest", "last"}
  BY <1>1, PopPhased, BelowIs
<1>3. /\ 1 \in DOMAIN stack[h] /\ stack[h][1] = Top(h) /\ stack[h] \in Seq(Frames) /\ Phased(stack[h])
  BY <1>1, TopPhased
<1>4. Holds(stack[h], "skip")
  BY <1>1, <1>3 DEF Holds
<1>5. PICK j \in DOMAIN stack[h] : Kind(stack[h][j]) = "end"
  BY <1>3, <1>4 DEF Phased, Holds
<1>6. j > 1
  BY <1>1, <1>3, <1>5
<1>7. Holds(stack'[h], "end")
  BY <1>2, <1>5, <1>6 DEF Keeps, Holds
<1> QED BY <1>2, <1>7

\* The end of the run, and what follows it.
LEMMA RestPhased ==
    ASSUME Shape, Calls, Phases, NEW h \in Handlers, Statement(h), Kind(Top(h)) \in {"end", "rest", "last"}
    PROVE  /\ Phased(stack'[h]) /\ \A g \in Handlers \ {h} : stack'[g] = stack[g]
           /\ \A i \in DOMAIN stack'[h] : Kind(stack'[h][i]) \in {"rest", "last"}
           /\ UNCHANGED rows
<1> DEFINE f == Top(h)
<1>1. ~Idle(h) /\ f.op \in {"end", "endexec", "drive", "started", "record"} /\ (f.op = "drive" => Kind(f) = "rest")
  BY InstanceMoves, KindIs
<1>2. EndInstance(h) \/ EndExecution(h) \/ DriveRecords(h) \/ ReadMirror(h) \/ RecordExecution(h)
  BY <1>1, OpOf DEF Statement
<1>3. UNCHANGED rows
  BY <1>2 DEF EndInstance, EndExecution, DriveRecords, ReadMirror, RecordExecution
<1>4. CASE Continue(h, <<>>)
  BY <1>1, <1>3, <1>4, PopPhased, BelowIs
<1>5. ASSUME NEW g \in Frames, Continue(h, <<g>>), \/ Kind(f) = "end" /\ Kind(g) = "rest"
                                                   \/ Kind(f) = "last" /\ Kind(g) = "last"
      PROVE  /\ Phased(stack'[h]) /\ \A k \in Handlers \ {h} : stack'[k] = stack[k]
             /\ \A i \in DOMAIN stack'[h] : Kind(stack'[h][i]) \in {"rest", "last"}
  <2>1. <<g>> \in Seq(Frames) /\ <<g>> \in Seq({g}) /\ {g} \subseteq Frames
    OBVIOUS
  <2>2. Fits(Kind(f), <<g>>)
    <3>1. DOMAIN <<g>> = {1} /\ <<g>>[1] = g
      OBVIOUS
    <3> QED BY <1>5, <3>1, BelowIs DEF Fits, Holds
  <2>3. Phased(stack'[h]) /\ \A k \in Handlers \ {h} : stack'[k] = stack[k]
    BY <1>1, <1>5, <2>1, <2>2, ContinuePhased
  <2>4. Pushed(h, {g})
    BY <1>1, <1>5, <2>1, ContinuePushes
  <2>5. \A k \in DOMAIN stack[h] : k > 1 => Kind(stack[h][k]) \in Below(Kind(f))
    BY <1>1, TopPhased
  <2> QED BY <1>5, <2>3, <2>4, <2>5, BelowIs DEF Pushed
<1>6. CASE EndExecution(h) \/ DriveRecords(h) \/ RecordExecution(h)
  BY <1>3, <1>4, <1>6 DEF EndExecution, DriveRecords, RecordExecution
<1>7. CASE EndInstance(h)
  <2> DEFINE g == [op |-> "drive", event |-> "finished"]
  <2>1. f.op = "end" /\ (Continue(h, <<>>) \/ Continue(h, <<g>>))
    BY <1>7, TopIs DEF EndInstance, Drive
  <2>2. g \in Frames /\ Kind(g) = "rest" /\ Kind(f) = "end"
    BY <2>1, KindIs DEF Frames
  <2> HIDE DEF g
  <2> QED BY <1>3, <1>4, <1>5, <2>1, <2>2
<1>8. CASE ReadMirror(h)
  <2>1. PICK as \in {"running", "cancelled", "completed"} : f.op = "started" /\ Continue(h, RecordMirror(as))
    BY <1>8, TopIs DEF ReadMirror
  <2> DEFINE g == [op |-> "record", status |-> as]
  <2>2. Continue(h, <<>>) \/ Continue(h, <<g>>)
    BY <2>1 DEF RecordMirror
  <2>3. g \in Frames /\ Kind(g) = "last" /\ Kind(f) = "last"
    BY <2>1, KindIs DEF Frames
  <2> HIDE DEF g
  <2> QED BY <1>3, <1>4, <1>5, <2>2, <2>3
<1> QED BY <1>2, <1>6, <1>7, <1>8

-----------------------------------------------------------------------------
(* The frames a request starts out with. *)

Ranked(q) == \A i, j \in DOMAIN q : i < j => Kind(q[j]) \in Below(Kind(q[i]))

\* r is q and g.
Appends(q, g, r) ==
    /\ \A i \in DOMAIN r : (i \in DOMAIN q /\ r[i] = q[i]) \/ r[i] = g
    /\ \A i \in DOMAIN q : i \in DOMAIN r /\ r[i] = q[i]

LEMMA AppendRanked ==
    ASSUME NEW q \in Seq(Frames), Ranked(q), NEW g \in Frames, \A i \in DOMAIN q : Kind(g) \in Below(Kind(q[i])),
           NEW r, r = q \o <<g>>
    PROVE  r \in Seq(Frames) /\ Ranked(r) /\ Holds(r, Kind(g)) /\ Appends(q, g, r)
<1>1. r \in Seq(Frames) /\ Len(r) = Len(q) + 1 /\ Len(q) \in Nat /\ r[Len(q) + 1] = g
      /\ \A i \in 1..Len(q) : r[i] = q[i]
  OBVIOUS
<1>2. DOMAIN r = 1..(Len(q) + 1) /\ DOMAIN q = 1..Len(q)
  BY <1>1
<1>3. ASSUME NEW i \in DOMAIN r, NEW j \in DOMAIN r, i < j PROVE Kind(r[j]) \in Below(Kind(r[i]))
  <2>1. i \in DOMAIN q /\ r[i] = q[i]
    BY <1>1, <1>2, <1>3
  <2>2. CASE j = Len(q) + 1
    BY <1>1, <2>1, <2>2
  <2>3. CASE j # Len(q) + 1
    <3>1. j \in DOMAIN q /\ r[j] = q[j]
      BY <1>1, <1>2, <2>3
    <3> QED BY <1>3, <2>1, <3>1 DEF Ranked
  <2> QED BY <2>2, <2>3
<1>4. \A i \in DOMAIN r : (i \in DOMAIN q /\ r[i] = q[i]) \/ r[i] = g
  BY <1>1, <1>2
<1>5. \A i \in DOMAIN q : i \in DOMAIN r /\ r[i] = q[i]
  BY <1>1, <1>2
<1>6. Len(q) + 1 \in DOMAIN r
  BY <1>1, <1>2
<1>7. Ranked(r)
  BY <1>3 DEF Ranked
<1>8. Holds(r, Kind(g))
  BY <1>1, <1>6 DEF Holds
<1> QED BY <1>1, <1>4, <1>5, <1>7, <1>8 DEF Appends

\* A cascade, the check for idleness, and the caller of startWorkflow.
LEMMA CascadePhased ==
    ASSUME NEW c \in Seq(Cascading), NEW q, q = c \o CloseInstanceIfIdle,
           NEW r, r = q \/ r = q \o <<[op |-> "started"]>>
    PROVE  /\ Phased(r) /\ Holds(r, "idle")
           /\ \A i \in DOMAIN r : Kind(r[i]) \in {"work", "idle", "last"}
<1> DEFINE a == [op |-> "idle"]
           b == [op |-> "started"]
<1>1. c \in Seq(Frames) /\ \A i \in DOMAIN c : Kind(c[i]) = "work"
  BY DEF Cascading
<1>2. Ranked(c)
  BY <1>1, BelowIs DEF Ranked
<1>3. a \in Frames /\ b \in Frames /\ Kind(a) = "idle" /\ Kind(b) = "last" /\ q = c \o <<a>>
  BY DEF Frames, Kind, CloseInstanceIfIdle
<1> HIDE DEF a, b
<1>4. \A i \in DOMAIN c : Kind(a) \in Below(Kind(c[i]))
  BY <1>1, <1>3, BelowIs
<1>5. q \in Seq(Frames) /\ Ranked(q) /\ Holds(q, Kind(a)) /\ Appends(c, a, q)
  BY <1>1, <1>2, <1>3, <1>4, AppendRanked
<1>6. \A i \in DOMAIN q : Kind(q[i]) \in {"work", "idle"}
  BY <1>1, <1>3, <1>5 DEF Appends
<1>7. CASE r = q
  <2>1. ~Holds(q, "skip") /\ Holds(q, "idle")
    BY <1>3, <1>5, <1>6 DEF Holds
  <2> QED BY <1>5, <1>6, <1>7, <2>1 DEF Phased, Ranked
<1>8. CASE r = q \o <<b>>
  <2>1. \A i \in DOMAIN q : Kind(b) \in Below(Kind(q[i]))
    BY <1>3, <1>6, BelowIs
  <2>2. r \in Seq(Frames) /\ Ranked(r) /\ Appends(q, b, r)
    BY <1>3, <1>5, <1>8, <2>1, AppendRanked
  <2>3. \A i \in DOMAIN r : Kind(r[i]) \in {"work", "idle", "last"}
    BY <1>3, <1>6, <2>2 DEF Appends
  <2>4. Holds(r, "idle")
    BY <1>3, <1>5, <2>2 DEF Holds, Appends
  <2>5. ~Holds(r, "skip")
    BY <2>3 DEF Holds
  <2> QED BY <2>2, <2>3, <2>4, <2>5 DEF Phased, Ranked
<1> QED BY <1>7, <1>8 DEF b

LEMMA StartPhased ==
    ASSUME Shape, Calls, Phases, NEW h \in Handlers, StartWorkflow(h)
    PROVE  Worked(h)
<1> DEFINE a == [op |-> "create", step |-> 1]
           b == [op |-> "drive", event |-> "started"]
           c == <<a>> \o <<b>> \o ProcessAutoStep(1) \o ReconcileInstance(1)
           q == c \o CloseInstanceIfIdle
           r == q \o <<[op |-> "started"]>>
<1>1. 1 \in Steps /\ 1 \in Nat
  BY WfTyped
<1>2. a \in Cascading
  <2>1. a \in Frames
    BY <1>1 DEF Frames
  <2> QED BY <2>1, CascadeOps
<1>3. b \in Cascading
  <2>1. b \in Frames
    BY DEF Frames
  <2> QED BY <2>1, KindIs DEF Cascading
<1>4. c \in Seq(Cascading)
  <2>1. ProcessAutoStep(1) \in Seq(Cascading) /\ ReconcileInstance(1) \in Seq(Cascading)
    BY <1>1, AutoCascading, ReconcileCascading
  <2> HIDE DEF a, b
  <2> QED BY <1>2, <1>3, <2>1
<1>5. stack' = [stack EXCEPT ![h] = r]
  BY DEF StartWorkflow, Request, Drive
<1>6. /\ Phased(r) /\ Holds(r, "idle")
      /\ \A i \in DOMAIN r : Kind(r[i]) \in {"work", "idle", "last"}
  <2> HIDE DEF c
  <2>1. q = c \o CloseInstanceIfIdle /\ r = q \o <<[op |-> "started"]>>
    OBVIOUS
  <2> HIDE DEF q, r
  <2> QED BY <1>4, <2>1, CascadePhased
<1>7. stack'[h] = r /\ \A g \in Handlers \ {h} : stack'[g] = stack[g]
  <2> HIDE DEF r
  <2> QED BY <1>5 DEF Shape
<1> HIDE DEF r
<1> QED BY <1>6, <1>7 DEF Worked

LEMMA CompletePhased ==
    ASSUME Shape, Calls, Phases, NEW h \in Handlers, NEW s \in Steps, NEW d \in Decisions(s), CompleteStep(h, s, d)
    PROVE  Worked(h)
<1>1. PICK next \in ActivateNextSteps(s, d) : Request(h, next \o ReconcileInstance(1) \o CloseInstanceIfIdle)
  BY DEF CompleteStep
<1> DEFINE c == next \o ReconcileInstance(1)
           r == c \o CloseInstanceIfIdle
<1>2. c \in Seq(Cascading)
  <2>1. 1 \in Nat
    OBVIOUS
  <2>2. next \in Seq(Cascading) /\ ReconcileInstance(1) \in Seq(Cascading)
    BY <2>1, ActivateCascading, ReconcileCascading
  <2> QED BY <2>2
<1>3. stack' = [stack EXCEPT ![h] = r]
  BY <1>1 DEF Request
<1>4. /\ Phased(r) /\ Holds(r, "idle")
      /\ \A i \in DOMAIN r : Kind(r[i]) \in {"work", "idle", "last"}
  <2> HIDE DEF c
  <2>1. r = c \o CloseInstanceIfIdle
    OBVIOUS
  <2> HIDE DEF r
  <2> QED BY <1>2, <2>1, CascadePhased
<1>5. stack'[h] = r /\ \A g \in Handlers \ {h} : stack'[g] = stack[g]
  <2> HIDE DEF r
  <2> QED BY <1>3 DEF Shape
<1> HIDE DEF r
<1> QED BY <1>4, <1>5 DEF Worked

LEMMA CancelPhased ==
    ASSUME Shape, Calls, Phases, NEW h \in Handlers, CancelInstance(h)
    PROVE  /\ Phased(stack'[h]) /\ \A g \in Handlers \ {h} : stack'[g] = stack[g]
           /\ \A i \in DOMAIN stack'[h] : Kind(stack'[h][i]) = "rest"
           /\ stack'[h] = <<[op |-> "drive", event |-> "cancelled"]>>
<1> DEFINE a == [op |-> "drive", event |-> "cancelled"]
<1>1. stack' = [stack EXCEPT ![h] = <<a>>]
  BY DEF CancelInstance, Request, Drive
<1>2. Kind(a) = "rest"
  BY DEF Kind
<1> HIDE DEF a
<1>3. stack'[h] = <<a>> /\ \A g \in Handlers \ {h} : stack'[g] = stack[g]
  BY <1>1 DEF Shape
<1>4. DOMAIN <<a>> = {1} /\ <<a>>[1] = a
  OBVIOUS
<1>5. Phased(<<a>>)
  BY <1>2, <1>4 DEF Phased, Holds
<1>6. \A i \in DOMAIN <<a>> : Kind(<<a>>[i]) = "rest"
  BY <1>2, <1>4
<1> QED BY <1>3, <1>5, <1>6 DEF a

-----------------------------------------------------------------------------
(* A run is either at work or over. *)

\* The rows a started run has: all of them once the INSERTs are done.
RowsThere ==
    /\ \A h \in Handlers : At(h, "create") => \A s \in Steps : s < Top(h).step => status[s] # "absent"
    /\ instance # "absent" /\ (\A h \in Handlers : ~At(h, "create")) => \A s \in Steps : status[s] # "absent"

\* Nothing is in progress once the run is found idle, and nothing is open
\* once the pending steps are skipped.
Closing ==
    \A h \in Handlers :
        /\ At(h, "skip") => \A s \in Steps : status[s] \in Resolved \cup {"pending"}
        /\ At(h, "end") => \A s \in Steps : status[s] \in Resolved

\* A run is at work, or on its way to the end, as long as it is running.
AtWork ==
    instance = "running" =>
        \/ \E s \in Steps : status[s] = "in_progress"
        \/ \E h \in Handlers : Holds(stack[h], "idle") \/ Holds(stack[h], "end")

\* One that completed or was cancelled has nothing open, and nobody works on it.
EndedClean ==
    instance \in {"completed", "cancelled"} =>
        /\ \A s \in Steps : status[s] \in Resolved
        /\ \A h \in Handlers : \A i \in DOMAIN stack[h] : Kind(stack[h][i]) \in {"rest", "last"}

WorkInv == RowsInv /\ Phases /\ RowsThere /\ Closing /\ AtWork /\ EndedClean

LEMMA NoFaults ==
    ASSUME MaxFaults = 0, Shape, NEW h, Abandon(h) \/ StatementFails(h)
    PROVE  FALSE
<1>1. faults \in 0..0 /\ faults < 0
  BY ShapeParts DEF Abandon, StatementFails
<1> QED BY <1>1

\* What a step does to the frames of the one handler.
StepKinds(h) ==
    \/ StartWorkflow(h) /\ Worked(h)
    \/ (\E s \in Steps : \E d \in Decisions(s) : CompleteStep(h, s, d)) /\ Worked(h)
    \/ CancelInstance(h)
    \/ Statement(h) /\ Kind(Top(h)) = "work" /\ Worked(h)
    \/ ReadIdle(h)
    \/ SkipPending(h)
    \/ Statement(h) /\ Kind(Top(h)) \in {"end", "rest", "last"}

LEMMA StatementKinds ==
    ASSUME Shape, Calls, Phases, NEW h \in Handlers, Statement(h)
    PROVE  StepKinds(h) /\ Phased(stack'[h]) /\ \A g \in Handlers \ {h} : stack'[g] = stack[g]
<1>1. CASE Kind(Top(h)) = "work"
  BY <1>1, WorkStatements DEF StepKinds, Worked
<1>2. CASE Kind(Top(h)) \in {"end", "rest", "last"}
  BY <1>2, RestPhased DEF StepKinds
<1>3. CASE Kind(Top(h)) \in {"idle", "skip"}
  <2>1. Top(h).op \in {"idle", "skip"}
    BY <1>3, KindIs
  <2>2. ReadIdle(h) \/ SkipPending(h)
    BY <2>1, OpOf DEF Statement
  <2> QED BY <2>2, IdlePhased, SkipPhased DEF StepKinds
<1> QED BY <1>1, <1>2, <1>3, KindIs

LEMMA HandlerSteps ==
    ASSUME MaxFaults = 0, Shape, Calls, Phases, Next
    PROVE  \E h \in Handlers :
            StepKinds(h) /\ Phased(stack'[h]) /\ \A g \in Handlers \ {h} : stack'[g] = stack[g]
<1>1. ASSUME NEW h \in Handlers, StartWorkflow(h)
      PROVE  StepKinds(h) /\ Phased(stack'[h]) /\ \A g \in Handlers \ {h} : stack'[g] = stack[g]
  BY <1>1, StartPhased DEF StepKinds, Worked
<1>2. ASSUME NEW h \in Handlers, NEW s \in Steps, NEW d \in Decisions(s), CompleteStep(h, s, d)
      PROVE  StepKinds(h) /\ Phased(stack'[h]) /\ \A g \in Handlers \ {h} : stack'[g] = stack[g]
  BY <1>2, CompletePhased DEF StepKinds, Worked
<1>3. ASSUME NEW h \in Handlers, CancelInstance(h)
      PROVE  StepKinds(h) /\ Phased(stack'[h]) /\ \A g \in Handlers \ {h} : stack'[g] = stack[g]
  BY <1>3, CancelPhased DEF StepKinds
<1>4. ASSUME NEW h \in Handlers, Statement(h)
      PROVE  StepKinds(h) /\ Phased(stack'[h]) /\ \A g \in Handlers \ {h} : stack'[g] = stack[g]
  BY <1>4, StatementKinds
<1>5. ASSUME NEW h \in Handlers, Abandon(h) \/ StatementFails(h) PROVE FALSE
  BY <1>5, NoFaults
<1> QED BY <1>1, <1>2, <1>3, <1>4, <1>5 DEF Next

LEMMA SerialSteps ==
    ASSUME Serial, Shape, Calls, Phases, Next
    PROVE  \E h \in Handlers : StepKinds(h) /\ Phased(stack'[h]) /\ \A g \in Handlers : g = h
  BY HandlerSteps DEF Serial

LEMMA PhasesStep ==
    ASSUME MaxFaults = 0, Shape, Calls, Phases, Next
    PROVE  Phases'
<1>1. PICK h \in Handlers : Phased(stack'[h]) /\ \A g \in Handlers \ {h} : stack'[g] = stack[g]
  BY HandlerSteps
<1>2. \A g \in Handlers : Phased(stack'[g])
  BY <1>1 DEF Phases
<1> QED BY <1>2 DEF Phases

\* While h goes from a statement other than an INSERT, or from a request on a
\* started run, every row is there.
LEMMA AllThere ==
    ASSUME RowsInv, RowsThere, NEW h \in Handlers, \A g \in Handlers : g = h,
           \/ Statement(h) /\ ~CreateStep(h)
           \/ \E s \in Steps : \E d \in Decisions(s) : CompleteStep(h, s, d)
           \/ CancelInstance(h)
    PROVE  \A s \in Steps : status[s] # "absent"
<1>1. Shape /\ Inserting
  BY DEF RowsInv
<1>2. CASE Statement(h) /\ ~CreateStep(h)
  <2>1. ~Idle(h) /\ instance # "absent"
    BY <1>1, <1>2, InstanceMoves DEF Inserting
  <2>2. ~At(h, "create")
    BY <1>2 DEF At, Statement, Fallback, Activate, ActivateJoin, ReadPredecessor, FireJoin, ReadRework,
       FailInstance, FailExecution, ResetDownstream, Revive, RunAutoStep, ReadReachable, Sweep, NextJoin,
       ReadCompleted, ReadIdle, SkipPending, EndInstance, EndExecution, DriveRecords, ReadMirror, RecordExecution
  <2> QED BY <2>1, <2>2 DEF RowsThere
<1>3. CASE \/ \E s \in Steps : \E d \in Decisions(s) : CompleteStep(h, s, d)
           \/ CancelInstance(h)
  <2>1. ~At(h, "create")
    BY <1>3 DEF CompleteStep, CancelInstance, Request, At
  <2>2. instance # "absent"
    <3>1. CASE CancelInstance(h)
      BY <3>1 DEF CancelInstance
    <3>2. ASSUME NEW s \in Steps, NEW d, CompleteStep(h, s, d) PROVE instance # "absent"
      BY <1>1, <3>2 DEF CompleteStep, MayDecide, Inserting
    <3> QED BY <1>3, <3>1, <3>2
  <2> QED BY <2>1, <2>2 DEF RowsThere
<1> QED BY <1>2, <1>3

LEMMA CreateLast ==
    ASSUME Shape, Calls, Shape', NEW h \in Handlers, CreateStep(h)
    PROVE  /\ At(h, "create")' => Top(h)'.step = Top(h).step + 1
           /\ Top(h).step # Len(wf.type) => At(h, "create")'
<1> DEFINE s == Top(h).step
           c == [op |-> "create", step |-> s + 1]
           F == {f \in Frames : f.op = "create" /\ f.step = s + 1}
<1>1. ASSUME At(h, "create")' PROVE Top(h)'.step = s + 1
  <2>0. Pushed(h, F)
    BY CreatePushes
  <2>1. 1 \in DOMAIN stack'[h] /\ stack'[h][1].op = "create" /\ Top(h)' = stack'[h][1]
    BY <1>1, TopThereNext
  <2>2. stack'[h][1] \in F \/ \E k \in DOMAIN stack[h] : k > 1 /\ stack'[h][1] = stack[h][k]
    BY <2>0, <2>1 DEF Pushed
  <2>3. \A k \in DOMAIN stack[h] : stack[h][k].op = "create" => k = 1
    BY DEF Calls, Orderly
  <2> QED BY <2>1, <2>2, <2>3
<1>2. ASSUME s # Len(wf.type) PROVE At(h, "create")'
  <2>1. Continue(h, <<c>>)
    BY <1>2 DEF CreateStep
  <2>2. stack[h] \in Seq(Frames) /\ stack[h] # <<>>
    BY TopIs, StackTyped DEF CreateStep
  <2>3. stack' = [stack EXCEPT ![h] = <<c>> \o Tail(stack[h])] /\ stack \in [Handlers -> Seq(Frames)]
    BY <2>1 DEF Continue, Shape
  <2>4. c.op = "create"
    OBVIOUS
  <2> HIDE DEF c
  <2>5. stack'[h] = <<c>> \o Tail(stack[h])
    BY <2>3
  <2>6. stack'[h] # <<>> /\ Head(stack'[h]) = c
    <3>1. Tail(stack[h]) \in Seq(Frames)
      BY <2>2
    <3> QED BY <2>5, <3>1
  <2> QED BY <2>4, <2>6 DEF At, Idle, Top
<1> QED BY <1>1, <1>2

LEMMA RowsThereStep ==
    ASSUME Serial, RowsInv, Shape', Phases, RowsThere, Next
    PROVE  RowsThere'
<1>1. Shape /\ Calls /\ SentBack /\ Inserting
  BY DEF RowsInv
<1>2. PICK h \in Handlers : StepKinds(h) /\ \A g \in Handlers : g = h
  BY <1>1, SerialSteps
<1>3. wf' = wf /\ Steps' = Steps /\ Steps \subseteq Nat
  BY <1>1, SameDefinition, SameWorkflow, WfTyped
<1>4. \A s \in Steps : status[s] # "absent" => status'[s] # "absent"
  BY <1>1, RowsMove, RowsStay
<1>5. CASE \A s \in Steps : status[s] # "absent"
  BY <1>3, <1>4, <1>5 DEF RowsThere
<1>6. CASE StartWorkflow(h)
  <2>1. Worked(h) /\ Top(h)' = [op |-> "create", step |-> 1]
    BY <1>1, <1>6, StartPhased, StartPushes
  <2>2. stack'[h] # <<>>
    BY <2>1 DEF Worked, Holds
  <2>3. At(h, "create")' /\ Top(h)'.step = 1
    BY <2>1, <2>2 DEF At, Idle
  <2>4. \A s \in Steps : ~(s < 1)
    BY <1>3, WfTyped, <1>1
  <2> QED BY <1>2, <1>3, <2>3, <2>4 DEF RowsThere
<1>7. CASE CreateStep(h)
  <2> DEFINE t == Top(h).step
  <2>1. /\ At(h, "create") /\ t \in Steps
        /\ status' = [status EXCEPT ![t] = IF t = 1 THEN "in_progress" ELSE "pending"]
    BY <1>1, <1>7, TopIs, StackTyped, FrameFields DEF CreateStep
  <2>2. At(h, "create")' => Top(h)'.step = t + 1
    BY <1>1, <1>7, CreateLast
  <2>3. ~At(h, "create")' => t = Len(wf.type)
    BY <1>1, <1>7, CreateLast
  <2> HIDE DEF t
  <2>4. \A s \in Steps : s < t => status[s] # "absent"
    BY <2>1 DEF RowsThere, t
  <2>5. status'[t] # "absent"
    BY <1>1, <2>1, ShapeParts
  <2>6. ASSUME NEW s \in Steps, s < t + 1 PROVE status'[s] # "absent"
    <3>1. s < t \/ s = t
      BY <1>3, <2>1, <2>6
    <3> QED BY <1>4, <2>4, <2>5, <3>1
  <2>7. t = Len(wf.type) => \A s \in Steps : s < t + 1
    BY <1>1, WfTyped DEF Steps
  <2> QED BY <1>2, <1>3, <2>2, <2>3, <2>6, <2>7 DEF RowsThere
<1>8. CASE ~StartWorkflow(h) /\ ~CreateStep(h)
  <2>1. \/ Statement(h) /\ ~CreateStep(h)
        \/ \E s \in Steps : \E d \in Decisions(s) : CompleteStep(h, s, d)
        \/ CancelInstance(h)
    BY <1>2, <1>8 DEF StepKinds, Statement
  <2>2. \A s \in Steps : status[s] # "absent"
    BY <1>2, <2>1, AllThere
  <2> QED BY <1>5, <2>2
<1> QED BY <1>6, <1>7, <1>8

\* The frame at the top of the stack, by its kind.
LEMMA TopKindNext ==
    ASSUME Shape', NEW h \in Handlers, NEW op \in {"idle", "skip", "end"}, At(h, op)'
    PROVE  \E i \in DOMAIN stack'[h] : Kind(stack'[h][i]) = op
<1>1. 1 \in DOMAIN stack'[h] /\ stack'[h][1].op = op
  BY TopThereNext
<1> QED BY <1>1, KindIs

LEMMA ClosingStep ==
    ASSUME Serial, RowsInv, Shape', Phases, RowsThere, Closing, Next
    PROVE  Closing'
<1>1. Shape /\ Calls /\ SentBack /\ Inserting
  BY DEF RowsInv
<1>2. PICK h \in Handlers : StepKinds(h) /\ \A g \in Handlers : g = h
  BY <1>1, SerialSteps
<1>3. wf' = wf /\ Steps' = Steps /\ status \in [Steps -> Statuses] /\ status' \in [Steps -> Statuses]
  <2>1. wf' = wf /\ Steps' = Steps
    BY SameDefinition, SameWorkflow
  <2> QED BY <1>1, <2>1 DEF Shape, Statuses
<1>4. ASSUME \A i \in DOMAIN stack'[h] : Kind(stack'[h][i]) \in {"work", "idle", "rest", "last"} PROVE Closing'
  <2>1. ~At(h, "skip")' /\ ~At(h, "end")'
    BY <1>4, TopKindNext
  <2> QED BY <1>2, <2>1 DEF Closing
<1>5. CASE Worked(h)
  BY <1>4, <1>5 DEF Worked
<1>6. CASE CancelInstance(h)
  BY <1>1, <1>4, <1>6, CancelPhased
<1>7. CASE Statement(h) /\ Kind(Top(h)) \in {"end", "rest", "last"}
  BY <1>1, <1>4, <1>7, RestPhased
<1>8. CASE ReadIdle(h)
  <2>1. status' = status /\ Statement(h) /\ ~CreateStep(h)
    BY <1>8, TopIs DEF ReadIdle, rows, Statement, CreateStep
  <2>2. \A s \in Steps : status[s] # "absent"
    BY <1>2, <2>1, AllThere
  <2>3. CASE \A i \in DOMAIN stack'[h] : Kind(stack'[h][i]) = "last"
    BY <1>4, <2>3
  <2>4. CASE /\ \A s \in Steps : status[s] # "in_progress"
             /\ Head(stack'[h]) = [op |-> "skip"]
    <3>1. \A s \in Steps : status'[s] \in Resolved \cup {"pending"}
      BY <1>3, <2>1, <2>2, <2>4 DEF Statuses, Open
    <3>2. ~At(h, "end")'
      BY <2>4 DEF At, Top
    <3> QED BY <1>2, <1>3, <3>1, <3>2 DEF Closing
  <2> QED BY <1>1, <1>8, <2>3, <2>4, IdlePhased
<1>9. CASE SkipPending(h)
  <2>1. \A s \in Steps : status[s] \in Resolved \cup {"pending"}
    BY <1>9 DEF SkipPending, Closing
  <2>2. status' = [s \in Steps |-> IF status[s] = "pending" THEN "skipped" ELSE status[s]]
    BY <1>9 DEF SkipPending
  <2>3. \A s \in Steps : status'[s] \in Resolved
    BY <2>1, <2>2 DEF Resolved
  <2>4. \A s \in Steps : status'[s] \in Resolved \cup {"pending"}
    BY <2>3
  <2> QED BY <1>3, <2>3, <2>4, <1>2 DEF Closing
<1> QED BY <1>2, <1>5, <1>6, <1>7, <1>8, <1>9 DEF StepKinds

LEMMA AtWorkStep ==
    ASSUME MaxFaults = 0, RowsInv, Shape', Phases, AtWork, Next
    PROVE  AtWork'
<1>1. Shape /\ Calls /\ SentBack /\ Inserting
  BY DEF RowsInv
<1>2. PICK h \in Handlers : StepKinds(h) /\ \A g \in Handlers \ {h} : stack'[g] = stack[g]
  BY <1>1, HandlerSteps
<1>3. wf' = wf /\ Steps' = Steps
  BY SameDefinition, SameWorkflow
<1>4. CASE Worked(h)
  BY <1>4 DEF Worked, AtWork
<1>5. CASE CancelInstance(h)
  BY <1>5 DEF CancelInstance, AtWork
<1>6. CASE ReadIdle(h)
  <2>1. status' = status
    BY <1>6 DEF ReadIdle, rows
  <2> QED BY <1>1, <1>3, <1>6, <2>1, IdlePhased DEF AtWork
<1>7. CASE SkipPending(h)
  BY <1>1, <1>7, SkipPhased DEF AtWork
<1>8. CASE Statement(h) /\ Kind(Top(h)) = "end"
  <2>1. EndInstance(h)
    <3>1. Top(h).op = "end"
      BY <1>8, KindIs
    <3> QED BY <1>8, <3>1, OpOf DEF Statement
  <2>2. instance' # "running"
    BY <2>1 DEF EndInstance, MayEnd
  <2> QED BY <2>2 DEF AtWork
<1>9. CASE Statement(h) /\ Kind(Top(h)) \in {"rest", "last"}
  <2> SUFFICES ASSUME instance' = "running" PROVE AtWork'
    BY DEF AtWork
  <2>1. ~Idle(h) /\ instance = "running"
    BY <1>9, InstanceMoves DEF Ended
  <2>2. status' = status
    BY <1>1, <1>9, RestPhased DEF rows
  <2>3. ~Holds(stack[h], "idle") /\ ~Holds(stack[h], "end")
    <3>1. \A i \in DOMAIN stack[h] : i = 1 \/ i > 1
      BY <1>1, <2>1, TopPhased
    <3>2. \A i \in DOMAIN stack[h] : Kind(stack[h][i]) \in {"rest", "last"}
      BY <1>1, <1>9, <2>1, <3>1, TopPhased, BelowIs
    <3> QED BY <3>2 DEF Holds
  <2> QED BY <1>2, <1>3, <2>1, <2>2, <2>3 DEF AtWork
<1> QED BY <1>2, <1>4, <1>5, <1>6, <1>7, <1>8, <1>9 DEF StepKinds

LEMMA EndStatement ==
    ASSUME NEW h \in Handlers, Statement(h), Top(h).op = "end"
    PROVE  EndInstance(h)
  BY OpOf DEF Statement

LEMMA EndsBy ==
    ASSUME NEW h \in Handlers, Statement(h), instance' # instance, instance' # "failed"
    PROVE  EndInstance(h) /\ instance' = "completed"
<1>1. CASE EndInstance(h)
  BY <1>1 DEF EndInstance
<1>2. CASE ~EndInstance(h)
  BY <1>2 DEF Statement, CreateStep, Fallback, Activate, ActivateJoin, ReadPredecessor,
     FireJoin, ReadRework, FailInstance, FailExecution, ResetDownstream, Revive, RunAutoStep, ReadReachable,
     Sweep, NextJoin, ReadCompleted, ReadIdle, SkipPending, EndExecution, DriveRecords, ReadMirror, RecordExecution
<1> QED BY <1>1, <1>2

LEMMA EndedCleanStep ==
    ASSUME Serial, RowsInv, Shape', Phases, RowsThere, Closing, EndedClean, Next
    PROVE  EndedClean'
<1>1. Shape /\ Calls /\ SentBack /\ Inserting
  BY DEF RowsInv
<1>2. PICK h \in Handlers : StepKinds(h) /\ \A g \in Handlers : g = h
  BY <1>1, SerialSteps
<1>3. wf' = wf /\ Steps' = Steps /\ status \in [Steps -> Statuses]
  BY <1>1, SameDefinition, SameWorkflow, ShapeParts
<1> SUFFICES ASSUME instance' \in {"completed", "cancelled"}
             PROVE  /\ \A s \in Steps : status'[s] \in Resolved
                    /\ \A i \in DOMAIN stack'[h] : Kind(stack'[h][i]) \in {"rest", "last"}
  BY <1>2, <1>3 DEF EndedClean
<1>4. CASE CancelInstance(h)
  <2>1. \A s \in Steps : status[s] # "absent"
    BY <1>2, <1>4, AllThere
  <2>2. status' = [s \in Steps |-> IF status[s] \in Open THEN "skipped" ELSE status[s]]
    BY <1>4 DEF CancelInstance, Withdrawn
  <2>3. \A s \in Steps : status'[s] \in Resolved
    BY <1>3, <2>1, <2>2 DEF Statuses, Resolved
  <2> QED BY <1>1, <1>4, <2>3, CancelPhased
<1>5. CASE StartWorkflow(h)
  BY <1>5 DEF StartWorkflow
<1>6. ASSUME NEW s \in Steps, NEW d, CompleteStep(h, s, d) PROVE FALSE
  <2>1. instance \in {"completed", "cancelled"} /\ status[s] \in Open
    BY <1>6 DEF CompleteStep, MayDecide, Open
  <2> QED BY <2>1 DEF EndedClean, Resolved, Finished, Open
<1>7. CASE Statement(h)
  <2>1. ~Idle(h)
    BY <1>7, InstanceMoves
  <2>2. 1 \in DOMAIN stack[h] /\ stack[h][1] = Top(h)
    BY <1>1, <2>1, TopPhased
  <2>3. CASE instance \in {"completed", "cancelled"}
    <3>1. Kind(Top(h)) \in {"rest", "last"}
      BY <2>2, <2>3 DEF EndedClean
    <3>2. status' = status /\ \A i \in DOMAIN stack'[h] : Kind(stack'[h][i]) \in {"rest", "last"}
      BY <1>1, <1>7, <3>1, RestPhased DEF rows
    <3> QED BY <2>3, <3>2 DEF EndedClean
  <2>4. CASE instance \notin {"completed", "cancelled"}
    <3>1. EndInstance(h)
      BY <1>7, <2>4, EndsBy
    <3>2. At(h, "end") /\ Kind(Top(h)) = "end"
      BY <3>1, TopIs, KindIs DEF EndInstance
    <3>3. \A s \in Steps : status[s] \in Resolved
      BY <3>2 DEF Closing
    <3>4. status' = status /\ \A i \in DOMAIN stack'[h] : Kind(stack'[h][i]) \in {"rest", "last"}
      BY <1>1, <1>7, <3>2, RestPhased DEF rows
    <3> QED BY <3>3, <3>4
  <2> QED BY <2>3, <2>4
<1>8. ReadIdle(h) \/ SkipPending(h) => Statement(h)
  BY DEF Statement
<1> QED BY <1>2, <1>4, <1>5, <1>6, <1>7, <1>8 DEF StepKinds

LEMMA WorkInit == Init => Phases /\ RowsThere /\ Closing /\ AtWork /\ EndedClean
<1> SUFFICES ASSUME Init PROVE Phases /\ RowsThere /\ Closing /\ AtWork /\ EndedClean
  OBVIOUS
<1>1. instance = "absent" /\ \A h \in Handlers : stack[h] = <<>>
  BY DEF Init
<1>2. \A h \in Handlers : Phased(stack[h])
  BY <1>1 DEF Phased, Holds
<1> QED BY <1>1, <1>2 DEF Phases, RowsThere, Closing, AtWork, EndedClean, At, Idle

LEMMA WorkStill ==
    ASSUME WorkInv, UNCHANGED vars
    PROVE  WorkInv'
<1>1. RowsInv'
  BY RowsStep DEF WorkInv
<1>2. UNCHANGED <<wf, status, instance, stack>>
  BY DEF vars, rows
<1>3. Steps' = Steps
  BY <1>2, SameWorkflow
<1> QED BY <1>1, <1>2, <1>3 DEF WorkInv, Phases, RowsThere, Closing, AtWork, EndedClean, At, Idle, Top

LEMMA WorkCorrect ==
    ASSUME Serial
    PROVE  Spec => []WorkInv
<1>1. Init => WorkInv
  BY WorkInit, RowsInvInit DEF WorkInv
<1>2. WorkInv /\ [Next]_vars => WorkInv'
  <2> SUFFICES ASSUME WorkInv, [Next]_vars PROVE WorkInv'
    OBVIOUS
  <2>1. CASE UNCHANGED vars
    BY <2>1, WorkStill
  <2>2. CASE Next
    <3>1. RowsInv /\ Phases /\ RowsThere /\ Closing /\ AtWork /\ EndedClean /\ Shape /\ Calls
      BY DEF WorkInv, RowsInv
    <3>2. RowsInv' /\ Shape'
      BY <3>1, RowsStep DEF RowsInv
    <3>3. Phases'
      BY <2>2, <3>1, PhasesStep DEF Serial
    <3>4. RowsThere' /\ Closing' /\ AtWork' /\ EndedClean'
      BY <2>2, <3>1, <3>2, RowsThereStep, ClosingStep, AtWorkStep, EndedCleanStep DEF Serial
    <3> QED BY <3>2, <3>3, <3>4 DEF WorkInv
  <2> QED BY <2>1, <2>2
<1> QED BY <1>1, <1>2, PTL DEF Spec

\* Between requests an instance is running exactly when someone has something
\* to do in it, and one that completed or was cancelled has nothing open: for
\* any definition, however its cascades fork, join, rework and reconcile, as
\* long as requests are taken one at a time and none is cut short.
THEOREM RunningHasWorkHolds ==
    ASSUME Serial
    PROVE  Spec => []RunningHasWork
<1>1. WorkInv => RunningHasWork
  <2> SUFFICES ASSUME WorkInv, Quiet
               PROVE  /\ instance = "running" => \E s \in Steps : status[s] = "in_progress"
                      /\ instance \in {"completed", "cancelled"} => \A s \in Steps : status[s] \in Resolved
    BY DEF RunningHasWork
  <2>1. \A h \in Handlers : stack[h] = <<>>
    BY DEF Quiet, Idle
  <2>2. \A h \in Handlers : ~Holds(stack[h], "idle") /\ ~Holds(stack[h], "end")
    BY <2>1 DEF Holds
  <2> QED BY <2>2 DEF WorkInv, AtWork, EndedClean
<1> QED BY <1>1, WorkCorrect, PTL

\* What is left of it when requests interleave: a running run never waits for
\* nobody.
RunningIsAsked ==
    Quiet /\ instance = "running" => \E s \in Steps : status[s] = "in_progress"

\* However many requests work on a run at once, when the last of them has
\* returned a run that is still running has a step in progress: a cascade only
\* leaves a run open when it has just seen such a step, and whoever finishes
\* that step afterwards has a cascade, and a check for idleness, of its own.
THEOREM RunningIsAskedHolds ==
    ASSUME MaxFaults = 0
    PROVE  Spec => []RunningIsAsked
<1> DEFINE Inv == RowsInv /\ Phases /\ AtWork
<1>1. Init => Inv
  BY WorkInit, RowsInvInit
<1>2. Inv /\ [Next]_vars => Inv'
  <2> SUFFICES ASSUME Inv, [Next]_vars PROVE Inv'
    OBVIOUS
  <2>1. RowsInv' /\ Shape' /\ Shape /\ Calls
    BY RowsStep DEF RowsInv
  <2>2. CASE UNCHANGED vars
    <3>1. UNCHANGED <<wf, status, instance, stack>> /\ Steps' = Steps
      BY <2>2, SameWorkflow DEF vars, rows
    <3> QED BY <2>1, <3>1 DEF Phases, AtWork
  <2>3. CASE Next
    BY <2>1, <2>3, PhasesStep, AtWorkStep
  <2> QED BY <2>1, <2>2, <2>3
<1>3. Inv => RunningIsAsked
  <2> SUFFICES ASSUME AtWork, Quiet, instance = "running" PROVE \E s \in Steps : status[s] = "in_progress"
    BY DEF RunningIsAsked
  <2>1. \A h \in Handlers : stack[h] = <<>>
    BY DEF Quiet, Idle
  <2> QED BY <2>1 DEF AtWork, Holds
<1> QED BY <1>1, <1>2, <1>3, PTL DEF Spec

-----------------------------------------------------------------------------
(* The record of the run. *)

Drives(q, event) == \E i \in DOMAIN q : q[i].op = "drive" /\ q[i].event = event

\* What the start makes of the record comes right after the INSERTs.
Opening ==
    \A h \in Handlers : \A i \in DOMAIN stack[h] :
        stack[h][i].op = "drive" /\ stack[h][i].event = "started"
        => i = 1 \/ (i = 2 /\ stack[h][1].op = "create")

\* The record is driven by what has happened to the run.
DrivenBy ==
    \A h \in Handlers :
        /\ Drives(stack[h], "started") => instance = "running"
        /\ Drives(stack[h], "cancelled") => instance = "cancelled"
        /\ Drives(stack[h], "finished") => instance = "completed"

Verdict == IF decision[DecidedBy] = "approve" THEN "approved" ELSE "rejected"

\* How far the record is, while something may be left to be done to it.
RecordDriven ==
    Decides /\ ~wf.test =>
    /\ instance = "absent" => record = "draft"
    /\ instance \in {"running", "failed"} =>
        \/ record = "submitted"
        \/ record = "draft" /\ \E h \in Handlers : Drives(stack[h], "started")
    /\ instance = "cancelled" =>
        \/ record = "draft"
        \/ record = "submitted" /\ \E h \in Handlers : Drives(stack[h], "cancelled")
    /\ instance = "completed" =>
        \/ record = "submitted" /\ (Decided = {} \/ \E h \in Handlers : Drives(stack[h], "finished"))
        \/ record = Verdict /\ Decided # {}

RecordInv == Opening /\ DrivenBy /\ RecordDriven

\* Only the end of a run puts something more to be done to its record.
LEMMA OldDrives ==
    ASSUME Shape, Calls, Phases, NEW h \in Handlers, Statement(h), ~EndInstance(h),
           NEW i \in DOMAIN stack'[h], stack'[h][i].op = "drive"
    PROVE  \E k \in DOMAIN stack[h] : k > 1 /\ stack'[h][i] = stack[h][k]
<1> DEFINE F == {f \in Frames : f.op # "drive"}
           old == \E k \in DOMAIN stack[h] : k > 1 /\ stack'[h][i] = stack[h][k]
<1>1. Pushed(h, F) => old
  BY DEF Pushed
<1>2. ~Idle(h) /\ Top(h) \in Frames
  BY InstanceMoves, StackTyped
<1>3. ASSUME NEW fs \in Seq(F), Continue(h, fs) PROVE Pushed(h, F)
  <2>1. F \subseteq Frames
    OBVIOUS
  <2> HIDE DEF F
  <2> QED BY <1>2, <1>3, <2>1, ContinuePushes
<1>4. CASE CreateStep(h)
  <2> DEFINE G == {f \in Frames : f.op = "create" /\ f.step = Top(h).step + 1}
  <2>1. Pushed(h, G) /\ G \subseteq F
    BY <1>4, CreatePushes
  <2> HIDE DEF F, G
  <2> QED BY <1>1, <2>1, PushedMore
<1>5. CASE SkipPending(h) \/ EndExecution(h) \/ DriveRecords(h) \/ RecordExecution(h)
  <2>1. Continue(h, <<>>) /\ <<>> \in Seq(F)
    BY <1>5 DEF SkipPending, EndExecution, DriveRecords, RecordExecution
  <2> QED BY <1>1, <1>3, <2>1
<1>6. CASE ReadIdle(h)
  <2>1. Continue(h, <<>>) \/ Continue(h, CloseInstance)
    BY <1>6 DEF ReadIdle
  <2>2. [op |-> "skip"] \in F /\ [op |-> "end"] \in F /\ [op |-> "endexec"] \in F
    BY DEF Frames
  <2>3. <<>> \in Seq(F) /\ CloseInstance \in Seq(F)
    <3> HIDE DEF F
    <3> QED BY <2>2 DEF CloseInstance
  <2> QED BY <1>1, <1>3, <2>1, <2>3
<1>7. CASE ReadMirror(h)
  <2>1. PICK as \in {"running", "cancelled", "completed"} : Continue(h, RecordMirror(as))
    BY <1>7 DEF ReadMirror
  <2>2. [op |-> "record", status |-> as] \in F
    BY DEF Frames
  <2>3. RecordMirror(as) \in Seq(F)
    <3> HIDE DEF F
    <3> QED BY <2>2 DEF RecordMirror
  <2> QED BY <1>1, <1>3, <2>1, <2>3
<1>8. CASE Kind(Top(h)) = "work" /\ ~CreateStep(h)
  <2>1. Pushed(h, Fresh) /\ Worked(h)
    BY <1>8, StatementsPush, WorkStatements
  <2>2. stack'[h][i] \notin Fresh
    <3>1. Kind(stack'[h][i]) # "rest"
      BY <2>1 DEF Worked
    <3> QED BY <3>1, KindIs DEF Fresh
  <2> QED BY <2>1, <2>2 DEF Pushed
<1>9. CASE Kind(Top(h)) # "work"
  <2>1. Top(h).op \in {"idle", "skip", "end", "endexec", "started", "record", "drive"}
    BY <1>9, KindIs
  <2> QED BY <1>5, <1>6, <1>7, <2>1, OpOf DEF Statement
<1> QED BY <1>4, <1>8, <1>9

\* The frames below an INSERT stay where they are, or come up by one.
LEMMA CreateStack ==
    ASSUME Shape, Calls, NEW h \in Handlers, CreateStep(h)
    PROVE  \E n \in {0, 1} :
            /\ n = 1 => stack'[h][1].op = "create"
            /\ \A i \in DOMAIN stack'[h] :
                i > n => i - n + 1 \in DOMAIN stack[h] /\ stack'[h][i] = stack[h][i - n + 1]
            /\ \A j \in DOMAIN stack[h] :
                j > 1 => j + n - 1 \in DOMAIN stack'[h] /\ stack'[h][j + n - 1] = stack[h][j]
<1> DEFINE q == stack[h]
           c == [op |-> "create", step |-> Top(h).step + 1]
           fs == IF Top(h).step = Len(wf.type) THEN <<>> ELSE <<c>>
           r == fs \o Tail(q)
<1>1. /\ ~Idle(h) /\ Top(h).step \in Steps /\ q \in Seq(Frames) /\ q # <<>>
  BY TopIs, StackTyped, FrameFields DEF CreateStep
<1>2. Top(h).step = Len(wf.type) \/ c \in Frames
  BY <1>1, WfTyped DEF Frames, Steps
<1>3. c.op = "create" /\ stack' = [stack EXCEPT ![h] = r] /\ stack \in [Handlers -> Seq(Frames)] /\ r = fs \o Tail(q)
  BY DEF CreateStep, Continue, Shape
<1>4. fs \in Seq(Frames) /\ Len(fs) \in {0, 1} /\ (Len(fs) = 1 => fs[1] = c)
  <2> HIDE DEF c
  <2> QED BY <1>2
<1> HIDE DEF q, c, fs, r
<1>5. /\ r \in Seq(Frames) /\ Len(r) = Len(fs) + Len(q) - 1
      /\ Len(q) \in Nat \ {0} /\ Len(fs) \in Nat
      /\ \A i \in 1..Len(r) : r[i] = IF i <= Len(fs) THEN fs[i] ELSE q[i - Len(fs) + 1]
  BY <1>1, <1>3, <1>4, Replaced
<1>6. stack'[h] = r /\ DOMAIN r = 1..Len(r) /\ DOMAIN q = 1..Len(q)
  BY <1>1, <1>3, <1>5
<1>7. Len(fs) = 1 => r[1].op = "create"
  BY <1>3, <1>4, <1>5
<1>8. ASSUME NEW i \in DOMAIN r, i > Len(fs)
      PROVE  i - Len(fs) + 1 \in DOMAIN q /\ r[i] = q[i - Len(fs) + 1]
  <2>1. i \in 1..Len(r) /\ ~(i <= Len(fs)) /\ i - Len(fs) + 1 \in 1..Len(q)
    BY <1>5, <1>6, <1>8
  <2> QED BY <1>5, <1>6, <2>1
<1>9. ASSUME NEW j \in DOMAIN q, j > 1
      PROVE  j + Len(fs) - 1 \in DOMAIN r /\ r[j + Len(fs) - 1] = q[j]
  <2>1. j + Len(fs) - 1 \in 1..Len(r) /\ ~(j + Len(fs) - 1 <= Len(fs)) /\ (j + Len(fs) - 1) - Len(fs) + 1 = j
    BY <1>5, <1>6, <1>9
  <2> QED BY <1>5, <1>6, <2>1
<1> DEFINE moved(n) ==
            /\ n = 1 => r[1].op = "create"
            /\ \A i \in DOMAIN r : i > n => i - n + 1 \in DOMAIN q /\ r[i] = q[i - n + 1]
            /\ \A j \in DOMAIN q : j > 1 => j + n - 1 \in DOMAIN r /\ r[j + n - 1] = q[j]
<1>10. moved(Len(fs))
  BY <1>7, <1>8, <1>9
<1>11. \E n \in {0, 1} : moved(n)
  <2> HIDE DEF moved
  <2> QED BY <1>4, <1>10
<1> QED BY <1>6, <1>11 DEF q

\* Until it is driven by the start, a record waits for the INSERTs alone.
LEMMA StartedDrives ==
    ASSUME Shape, Calls, Opening, NEW h \in Handlers, Statement(h)
    PROVE  /\ Drives(stack'[h], "started") => CreateStep(h) /\ Drives(stack[h], "started")
           /\ CreateStep(h) /\ Drives(stack[h], "started") => Drives(stack'[h], "started")
           /\ \A i \in DOMAIN stack'[h] :
                stack'[h][i].op = "drive" /\ stack'[h][i].event = "started"
                => i = 1 \/ (i = 2 /\ stack'[h][1].op = "create")
<1>1. \A i \in DOMAIN stack[h] :
        stack[h][i].op = "drive" /\ stack[h][i].event = "started"
        => i = 1 \/ (i = 2 /\ stack[h][1].op = "create")
  BY DEF Opening
<1>2. ~Idle(h) /\ stack[h] \in Seq(Frames) /\ 1 \in DOMAIN stack[h] /\ stack[h][1] = Top(h)
  <2>1. ~Idle(h)
    BY InstanceMoves
  <2>2. /\ stack[h] \in Seq(Frames) /\ stack[h] # <<>> /\ Len(stack[h]) \in Nat \ {0}
        /\ Top(h) \in Frames /\ Top(h) = stack[h][1]
    BY <2>1, StackTyped
  <2> QED BY <2>1, <2>2
<1>3. CASE ~CreateStep(h)
  <2>1. ASSUME NEW i \in DOMAIN stack'[h], stack'[h][i].op = "drive", stack'[h][i].event = "started" PROVE FALSE
    <3>1. Pushed(h, Fresh)
      BY <1>3, StatementsPush
    <3>2. stack'[h][i] \notin Fresh
      BY <2>1 DEF Fresh
    <3>3. PICK k \in DOMAIN stack[h] : k > 1 /\ stack'[h][i] = stack[h][k]
      BY <3>1, <3>2 DEF Pushed
    <3>4. Top(h).op = "create"
      BY <1>1, <1>2, <2>1, <3>3
    <3> QED BY <1>3, <3>4, OpOf DEF Statement
  <2> QED BY <1>3, <2>1 DEF Drives
<1>4. CASE CreateStep(h)
  <2>1. stack[h][1].op = "create"
    BY <1>2, <1>4, TopIs DEF CreateStep
  <2>2. PICK n \in {0, 1} :
          /\ n = 1 => stack'[h][1].op = "create"
          /\ \A i \in DOMAIN stack'[h] :
              i > n => i - n + 1 \in DOMAIN stack[h] /\ stack'[h][i] = stack[h][i - n + 1]
          /\ \A j \in DOMAIN stack[h] :
              j > 1 => j + n - 1 \in DOMAIN stack'[h] /\ stack'[h][j + n - 1] = stack[h][j]
    BY <1>4, CreateStack
  <2>3. DOMAIN stack'[h] \subseteq Nat \ {0}
    <3>1. Shape'
      BY <1>4, CreateShape
    <3>2. stack'[h] \in Seq(Frames')
      BY <3>1 DEF Shape
    <3> QED BY <3>2
  <2>4. ASSUME NEW i \in DOMAIN stack'[h], stack'[h][i].op = "drive", stack'[h][i].event = "started"
        PROVE  /\ i = 1 \/ (i = 2 /\ stack'[h][1].op = "create")
               /\ Drives(stack[h], "started")
    <3>1. i > n
      BY <2>2, <2>3, <2>4
    <3>2. i - n + 1 \in DOMAIN stack[h] /\ stack'[h][i] = stack[h][i - n + 1]
      BY <2>2, <3>1
    <3>3. i - n + 1 \in {1, 2}
      BY <1>1, <2>4, <3>2
    <3>4. (n = 0 /\ i = 1) \/ (n = 1 /\ i = 2)
      BY <2>3, <3>1, <3>3
    <3> QED BY <2>2, <2>4, <3>2, <3>4 DEF Drives
  <2>5. ASSUME Drives(stack[h], "started") PROVE Drives(stack'[h], "started")
    <3>1. PICK j \in DOMAIN stack[h] : stack[h][j].op = "drive" /\ stack[h][j].event = "started"
      BY <2>5 DEF Drives
    <3>2. j = 2
      BY <1>1, <2>1, <3>1
    <3> QED BY <2>2, <3>1, <3>2 DEF Drives
  <2> QED BY <1>4, <2>4, <2>5 DEF Drives
<1> QED BY <1>3, <1>4

LEMMA OpeningStep ==
    ASSUME MaxFaults = 0, Shape, Calls, Phases, Opening, Next
    PROVE  Opening'
<1>1. PICK h \in Handlers : StepKinds(h) /\ \A g \in Handlers \ {h} : stack'[g] = stack[g]
  BY HandlerSteps
<1> SUFFICES ASSUME NEW i \in DOMAIN stack'[h], stack'[h][i].op = "drive", stack'[h][i].event = "started"
             PROVE  i = 1 \/ (i = 2 /\ stack'[h][1].op = "create")
  BY <1>1 DEF Opening
<1>2. CASE StartWorkflow(h)
  <2>1. Over([op |-> "create", step |-> 1], stack'[h])
    BY <1>2, StartStack
  <2>2. stack'[h][1].op = "create" /\ (i = 1 \/ i = 2 \/ stack'[h][i] \in Plain)
    BY <2>1 DEF Over
  <2> QED BY <2>2 DEF Plain
<1>3. CASE (\E s \in Steps : \E d \in Decisions(s) : CompleteStep(h, s, d)) \/ CancelInstance(h)
  <2>1. Pushed(h, Fresh) /\ stack[h] = <<>>
    BY <1>3, RequestsPush DEF CompleteStep, CancelInstance, Request, Idle
  <2> QED BY <2>1 DEF Pushed, Fresh
<1>4. CASE Statement(h)
  BY <1>4, StartedDrives
<1>5. ReadIdle(h) \/ SkipPending(h) => Statement(h)
  BY DEF Statement
<1> QED BY <1>1, <1>2, <1>3, <1>4, <1>5 DEF StepKinds

\* Nothing is left to be done to the record of a run that is not over, other
\* than by its start, nor by a handler that is idle.
LEMMA WorkDrives ==
    ASSUME NEW h, Worked(h), NEW event \in {"cancelled", "finished"}
    PROVE  ~Drives(stack'[h], event)
<1>1. ASSUME NEW i \in DOMAIN stack'[h], stack'[h][i].op = "drive", stack'[h][i].event = event PROVE FALSE
  <2>1. Kind(stack'[h][i]) = "rest"
    BY <1>1, KindIs
  <2> QED BY <2>1 DEF Worked
<1> QED BY <1>1 DEF Drives

LEMMA StatementDrives ==
    ASSUME Shape, Calls, Phases, NEW h \in Handlers, Statement(h), ~EndInstance(h), NEW event,
           Drives(stack'[h], event)
    PROVE  Drives(stack[h], event)
  BY OldDrives DEF Drives

\* The end of the run.
LEMMA EndDrives ==
    ASSUME Shape, Calls, Phases, NEW h \in Handlers, EndInstance(h)
    PROVE  /\ \A event : Drives(stack'[h], event) =>
                Drives(stack[h], event) \/ (event = "finished" /\ instance = "running")
           /\ instance = "running" => Drives(stack'[h], "finished")
<1> DEFINE g == [op |-> "drive", event |-> "finished"]
<1>1. ~Idle(h) /\ Kind(Top(h)) = "end" /\ g.op = "drive" /\ g.event = "finished"
  BY TopIs, KindIs DEF EndInstance
<1>2. g \in Frames /\ Kind(g) = "rest"
  BY <1>1, KindIs DEF Frames
<1> HIDE DEF g
<1>3. <<g>> \in Seq({g}) /\ <<g>> \in Seq(Frames) /\ {g} \subseteq Frames
  BY <1>2
<1>4. CASE instance = "running"
  <2>1. Continue(h, <<g>>)
    BY <1>4 DEF EndInstance, MayEnd, Drive, g
  <2>2. Pushed(h, {g})
    BY <1>1, <1>3, <2>1, ContinuePushes
  <2>3. \A event : Drives(stack'[h], event) => Drives(stack[h], event) \/ event = "finished"
    BY <1>1, <2>2 DEF Drives, Pushed
  <2>4. 1 \in DOMAIN stack'[h] /\ stack'[h][1] = g
    <3> DEFINE q == stack[h]
               fs == <<g>>
               r == fs \o Tail(q)
    <3>1. /\ r = fs \o Tail(q) /\ q \in Seq(Frames) /\ q # <<>> /\ fs \in Seq(Frames) /\ Len(fs) = 1 /\ fs[1] = g
          /\ stack' = [stack EXCEPT ![h] = r] /\ stack \in [Handlers -> Seq(Frames)]
      BY <1>1, <1>3, <2>1, StackTyped DEF Continue, Shape
    <3> HIDE DEF q, r, fs
    <3>2. /\ r \in Seq(Frames) /\ Len(r) = Len(fs) + Len(q) - 1 /\ Len(q) \in Nat \ {0}
          /\ \A i \in 1..Len(r) : r[i] = IF i <= Len(fs) THEN fs[i] ELSE q[i - Len(fs) + 1]
      <4>1. q \in Seq(Frames) /\ q # <<>> /\ fs \in Seq(Frames) /\ r = fs \o Tail(q)
        BY <3>1
      <4> QED BY <4>1, Replaced
    <3>3. 1 \in 1..Len(r) /\ DOMAIN r = 1..Len(r) /\ r[1] = g
      BY <3>1, <3>2
    <3> QED BY <3>1, <3>3
  <2> QED BY <1>1, <1>4, <2>3, <2>4 DEF Drives
<1>5. CASE instance # "running"
  <2>1. Continue(h, <<>>)
    BY <1>5 DEF EndInstance, MayEnd
  <2> DEFINE F == {f \in Frames : FALSE}
  <2>2. Pushed(h, F)
    <3>1. <<>> \in Seq(F) /\ F \subseteq Frames
      OBVIOUS
    <3> HIDE DEF F
    <3> QED BY <1>1, <2>1, <3>1, ContinuePushes
  <2> QED BY <1>5, <2>2 DEF Drives, Pushed
<1> QED BY <1>4, <1>5

LEMMA IdleDrives ==
    ASSUME NEW h, Idle(h), NEW event
    PROVE  ~Drives(stack[h], event)
  BY DEF Idle, Drives

\* A handler with something left to do to the record of a run that was not
\* started just now: its run is over.
LEMMA DrivenByStep ==
    ASSUME Serial, RowsInv, Phases, EndedClean, Opening, DrivenBy, Next
    PROVE  DrivenBy'
<1>1. Shape /\ Calls
  BY DEF RowsInv
<1>2. PICK h \in Handlers : StepKinds(h) /\ \A g \in Handlers : g = h
  BY <1>1, SerialSteps
<1>3. /\ Drives(stack[h], "started") => instance = "running"
      /\ Drives(stack[h], "cancelled") => instance = "cancelled"
      /\ Drives(stack[h], "finished") => instance = "completed"
  BY DEF DrivenBy
<1> SUFFICES /\ Drives(stack'[h], "started") => instance' = "running"
             /\ Drives(stack'[h], "cancelled") => instance' = "cancelled"
             /\ Drives(stack'[h], "finished") => instance' = "completed"
  BY <1>2 DEF DrivenBy
<1>4. CASE StartWorkflow(h)
  BY <1>1, <1>4, StartPhased, WorkDrives DEF StartWorkflow
<1>5. CASE CancelInstance(h)
  <2>1. stack'[h] = <<[op |-> "drive", event |-> "cancelled"]>> /\ instance' = "cancelled"
    BY <1>1, <1>5, CancelPhased DEF CancelInstance
  <2>2. \A i \in DOMAIN stack'[h] : stack'[h][i].event = "cancelled"
    BY <2>1
  <2> QED BY <2>1, <2>2 DEF Drives
<1>6. ASSUME NEW s \in Steps, NEW d \in Decisions(s), CompleteStep(h, s, d)
      PROVE  \A event \in {"started", "cancelled", "finished"} : ~Drives(stack'[h], event)
  <2>1. Pushed(h, Fresh) /\ stack[h] = <<>>
    BY <1>1, <1>6, RequestsPush DEF CompleteStep, Request, Idle
  <2>2. ~Drives(stack'[h], "started")
    BY <2>1 DEF Pushed, Fresh, Drives
  <2> QED BY <1>1, <1>6, <2>2, CompletePhased, WorkDrives
<1>7. CASE Statement(h) /\ EndInstance(h)
  <2>1. /\ Drives(stack'[h], "started") => CreateStep(h)
        /\ \A event : Drives(stack'[h], event) =>
             Drives(stack[h], event) \/ (event = "finished" /\ instance = "running")
    BY <1>1, <1>7, StartedDrives, EndDrives
  <2>2. ~CreateStep(h) /\ (instance = "running" => instance' = "completed")
        /\ (instance # "running" => instance' = instance)
    BY <1>7, TopIs DEF CreateStep, EndInstance, MayEnd
  <2> QED BY <1>3, <2>1, <2>2
<1>8. CASE Statement(h) /\ ~EndInstance(h)
  <2>1. \A event : Drives(stack'[h], event) => Drives(stack[h], event)
    BY <1>1, <1>8, StatementDrives
  <2>2. instance' = instance \/ (instance = "running" /\ FailInstance(h))
    BY <1>8 DEF Statement, CreateStep, Fallback, Activate, ActivateJoin, ReadPredecessor, FireJoin, ReadRework,
       FailInstance, FailExecution, ResetDownstream, Revive, RunAutoStep, ReadReachable, Sweep, NextJoin,
       ReadCompleted, ReadIdle, SkipPending, EndExecution, DriveRecords, ReadMirror, RecordExecution
  <2>3. CASE instance' = instance
    BY <1>3, <2>1, <2>3
  <2>4. CASE instance = "running" /\ FailInstance(h)
    <3>1. ~CreateStep(h)
      BY <2>4, TopIs DEF CreateStep, FailInstance
    <3>2. ~Drives(stack'[h], "started")
      BY <1>1, <1>8, <3>1, StartedDrives
    <3> QED BY <1>3, <2>1, <2>4, <3>2
  <2> QED BY <2>2, <2>3, <2>4
<1>9. (ReadIdle(h) \/ SkipPending(h) => Statement(h))
  BY DEF Statement
<1> QED BY <1>2, <1>4, <1>5, <1>6, <1>7, <1>8, <1>9 DEF StepKinds

\* What is left to be done to the record of a run that is over gets done.
LEMMA KeptDrives ==
    ASSUME Shape, Calls, Phases, EndedClean, instance \in {"completed", "cancelled"},
           NEW h \in Handlers, Statement(h)
    PROVE  /\ UNCHANGED <<rows, instance>> /\ Kind(Top(h)) \in {"rest", "last"}
           /\ \A event \in {"cancelled", "finished"} :
                Drives(stack[h], event) /\ ~DriveRecords(h) => Drives(stack'[h], event)
<1>1. /\ ~Idle(h) /\ stack[h] \in Seq(Frames) /\ 1 \in DOMAIN stack[h] /\ stack[h][1] = Top(h)
      /\ \A i \in DOMAIN stack[h] : i > 1 => Kind(stack[h][i]) \in Below(Kind(Top(h)))
  BY InstanceMoves, TopPhased
<1>2. Kind(Top(h)) \in {"rest", "last"}
  BY <1>1 DEF EndedClean
<1>3. UNCHANGED <<rows, instance>>
  <2>1. UNCHANGED rows
    BY <1>2, RestPhased
  <2> QED BY <2>1, InstanceMoves
<1>4. ASSUME NEW event \in {"cancelled", "finished"}, Drives(stack[h], event), ~DriveRecords(h)
      PROVE  Drives(stack'[h], event)
  <2>1. PICK k \in DOMAIN stack[h] : stack[h][k].op = "drive" /\ stack[h][k].event = event
    BY <1>4 DEF Drives
  <2>2. Top(h).op # "drive"
    BY <1>4, OpOf DEF Statement
  <2>3. k > 1
    BY <1>1, <2>1, <2>2
  <2>4. Top(h).op = "endexec"
    <3>1. Kind(Top(h)) # "last"
      BY <1>1, <2>1, <2>3, BelowIs
    <3> QED BY <1>2, <2>2, <3>1, KindIs
  <2>5. Continue(h, <<>>)
    <3>1. EndExecution(h)
      BY <2>4, OpOf DEF Statement
    <3> QED BY <3>1 DEF EndExecution
  <2>6. Keeps(stack[h], stack'[h])
    BY <1>1, <2>5, PopPhased
  <2> QED BY <2>1, <2>3, <2>6 DEF Keeps, Drives
<1> QED BY <1>2, <1>3, <1>4

LEMMA SameVerdict ==
    ASSUME wf' = wf, UNCHANGED rows
    PROVE  Decides' = Decides /\ Decided' = Decided /\ Verdict' = Verdict
<1>1. Steps' = Steps /\ decision' = decision /\ earlier' = earlier
  BY SameWorkflow DEF rows
<1>2. Decided' = Decided
  BY <1>1 DEF Decided
<1>3. DecidedBy' = DecidedBy
  BY <1>1, <1>2 DEF DecidedBy
<1> QED BY <1>1, <1>2, <1>3 DEF Decides, Verdict

\* Only driveRecords writes the record.
LEMMA RecordStays ==
    ASSUME NEW h, Statement(h), ~DriveRecords(h)
    PROVE  record' = record
<1>1. CASE CreateStep(h) \/ Fallback(h) \/ Activate(h) \/ ActivateJoin(h) \/ ReadPredecessor(h) \/ FireJoin(h)
           \/ ReadRework(h) \/ FailInstance(h) \/ FailExecution(h)
  BY <1>1 DEF CreateStep, Fallback, Activate, ActivateJoin, ReadPredecessor, FireJoin, ReadRework,
     FailInstance, FailExecution
<1>2. CASE ResetDownstream(h) \/ Revive(h) \/ RunAutoStep(h) \/ ReadReachable(h) \/ Sweep(h) \/ NextJoin(h)
           \/ ReadCompleted(h) \/ ReadIdle(h)
  BY <1>2 DEF ResetDownstream, Revive, RunAutoStep, ReadReachable, Sweep, NextJoin, ReadCompleted, ReadIdle
<1>3. CASE SkipPending(h) \/ EndInstance(h) \/ EndExecution(h) \/ ReadMirror(h) \/ RecordExecution(h)
  BY <1>3 DEF SkipPending, EndInstance, EndExecution, ReadMirror, RecordExecution
<1> QED BY <1>1, <1>2, <1>3 DEF Statement

\* A run that is not over goes from the start's frame to the record alone.
LEMMA StartedKept ==
    ASSUME Shape, Calls, Opening, NEW h \in Handlers, Statement(h), ~DriveRecords(h), Drives(stack[h], "started")
    PROVE  Drives(stack'[h], "started") /\ CreateStep(h)
<1>1. PICK i \in DOMAIN stack[h] : stack[h][i].op = "drive" /\ stack[h][i].event = "started"
  BY DEF Drives
<1>2. ~Idle(h) /\ stack[h][1] = Top(h)
  BY InstanceMoves, StackTyped
<1>3. Top(h).op \in {"drive", "create"}
  BY <1>1, <1>2 DEF Opening
<1>4. CreateStep(h)
  BY <1>3, OpOf DEF Statement
<1> QED BY <1>4, StartedDrives

LEMMA DriveStep ==
    ASSUME Shape, Calls, Phases, Opening, DrivenBy, RecordDriven, Decides, ~wf.test,
           NEW h \in Handlers, \A g \in Handlers : g = h, DriveRecords(h)
    PROVE  RecordDriven'
<1>1. ~Idle(h) /\ Top(h).op = "drive" /\ Top(h) \in Frames /\ 1 \in DOMAIN stack[h] /\ stack[h][1] = Top(h)
  <2>1. ~Idle(h) /\ Top(h).op = "drive"
    BY TopIs DEF DriveRecords
  <2> QED BY <2>1, TopPhased
<1>2. Top(h).event \in {"started", "cancelled", "finished"} /\ Drives(stack[h], Top(h).event)
  BY <1>1, FrameFields DEF Drives
<1>3. wf' = wf /\ UNCHANGED rows /\ instance' = instance /\ record' = RecordAfter(Top(h).event)
  BY DEF DriveRecords, rows
<1>4. Decides' = Decides /\ Decided' = Decided /\ Verdict' = Verdict
  BY <1>3, SameVerdict
<1>5. CASE Top(h).event = "started"
  <2>1. instance = "running" /\ record \in {"submitted", "draft"}
    BY <1>2, <1>5 DEF DrivenBy, RecordDriven
  <2>2. record' = "submitted"
    BY <1>3, <1>5, <2>1 DEF RecordAfter
  <2> QED BY <1>3, <2>1, <2>2 DEF RecordDriven
<1>6. CASE Top(h).event = "cancelled"
  <2>1. instance = "cancelled" /\ record \in {"submitted", "draft"}
    BY <1>2, <1>6 DEF DrivenBy, RecordDriven
  <2>2. record' = "draft"
    BY <1>3, <1>6, <2>1 DEF RecordAfter
  <2> QED BY <1>3, <2>1, <2>2 DEF RecordDriven
<1>7. CASE Top(h).event = "finished"
  <2>1. /\ instance = "completed"
        /\ record = "submitted" \/ (record = Verdict /\ Decided # {})
    BY <1>2, <1>7 DEF DrivenBy, RecordDriven
  <2>2. IF Decided # {} THEN record' = Verdict ELSE record' = record
    BY <1>3, <1>7 DEF RecordAfter, Verdict
  <2> QED BY <1>3, <1>4, <2>1, <2>2 DEF RecordDriven
<1> QED BY <1>2, <1>5, <1>6, <1>7

LEMMA RecordStep ==
    ASSUME Serial, RowsInv, Phases, EndedClean, Opening, DrivenBy, RecordDriven, Next
    PROVE  RecordDriven'
<1>1. Shape /\ Calls /\ Inserting
  BY DEF RowsInv
<1>2. PICK h \in Handlers : StepKinds(h) /\ \A g \in Handlers : g = h
  BY <1>1, SerialSteps
<1>3. wf' = wf /\ Decides' = Decides
  <2>1. wf' = wf /\ Steps' = Steps
    BY SameDefinition, SameWorkflow
  <2> QED BY <2>1 DEF Decides
<1> SUFFICES ASSUME Decides, ~wf.test PROVE RecordDriven'
  BY <1>3 DEF RecordDriven
<1>4. CASE StartWorkflow(h)
  <2>1. instance = "absent" /\ instance' = "running" /\ record' = record /\ record = "draft"
    BY <1>4 DEF StartWorkflow, RecordDriven
  <2>2. Over([op |-> "create", step |-> 1], stack'[h])
    BY <1>1, <1>4, StartStack
  <2>3. 2 \in DOMAIN stack'[h] /\ stack'[h][2] = DriveStarted
    BY <2>2 DEF Over
  <2>4. Drives(stack'[h], "started")
    BY <2>3 DEF Drives, DriveStarted
  <2> QED BY <2>1, <2>4 DEF RecordDriven
<1>5. CASE CancelInstance(h)
  <2>1. instance = "running" /\ instance' = "cancelled" /\ record' = record /\ Idle(h)
    BY <1>5 DEF CancelInstance, Request
  <2>2. record = "submitted"
    BY <1>2, <2>1, IdleDrives DEF RecordDriven
  <2>3. stack'[h] = <<[op |-> "drive", event |-> "cancelled"]>>
    BY <1>1, <1>5, CancelPhased
  <2>4. Drives(stack'[h], "cancelled")
    <3>1. 1 \in DOMAIN stack'[h] /\ stack'[h][1] = [op |-> "drive", event |-> "cancelled"]
      BY <2>3
    <3> QED BY <3>1 DEF Drives
  <2> QED BY <2>1, <2>2, <2>4 DEF RecordDriven
<1>6. ASSUME NEW s \in Steps, NEW d \in Decisions(s), CompleteStep(h, s, d) PROVE RecordDriven'
  <2>1. instance' = instance /\ record' = record /\ Idle(h) /\ status[s] \in Open
    BY <1>6 DEF CompleteStep, Request, MayDecide, Open
  <2>2. instance \in {"running", "failed"}
    <3>1. instance # "absent"
      BY <1>1, <2>1 DEF Inserting, Open
    <3>2. instance \notin {"completed", "cancelled"}
      BY <2>1 DEF EndedClean, Resolved, Finished, Open
    <3> QED BY <1>1, <3>1, <3>2 DEF Shape, Ended
  <2>3. record = "submitted"
    BY <1>2, <2>1, <2>2, IdleDrives DEF RecordDriven
  <2> QED BY <2>1, <2>2, <2>3 DEF RecordDriven
<1>7. CASE DriveRecords(h)
  BY <1>1, <1>2, <1>7, DriveStep
<1>8. CASE Statement(h) /\ ~DriveRecords(h)
  <2>1. record' = record
    BY <1>8, RecordStays
  <2>2. CASE instance \in {"completed", "cancelled"}
    <3>1. /\ UNCHANGED <<rows, instance>>
          /\ \A event \in {"cancelled", "finished"} : Drives(stack[h], event) => Drives(stack'[h], event)
      BY <1>1, <1>8, <2>2, KeptDrives
    <3>2. Decided' = Decided /\ Verdict' = Verdict
      BY <1>3, <3>1, SameVerdict
    <3>3. instance' = instance
      BY <3>1
    <3>4. /\ instance = "cancelled" =>
                record = "draft" \/ (record = "submitted" /\ Drives(stack[h], "cancelled"))
          /\ instance = "completed" =>
                \/ record = "submitted" /\ (Decided = {} \/ Drives(stack[h], "finished"))
                \/ record = Verdict /\ Decided # {}
      BY <1>2 DEF RecordDriven
    <3> QED BY <2>1, <2>2, <3>1, <3>2, <3>3, <3>4 DEF RecordDriven
  <2>3. CASE instance \in {"running", "failed"}
    <3>1. record = "submitted" \/ (record = "draft" /\ Drives(stack[h], "started"))
      BY <1>2, <2>3 DEF RecordDriven
    <3>2. CASE Drives(stack[h], "started")
      <4>1. Drives(stack'[h], "started") /\ CreateStep(h)
        BY <1>1, <1>8, <3>2, StartedKept
      <4>2. instance' = instance
        BY <4>1 DEF CreateStep
      <4> QED BY <2>1, <2>3, <3>1, <4>1, <4>2 DEF RecordDriven
    <3>3. CASE ~Drives(stack[h], "started")
      <4>1. record' = "submitted"
        BY <2>1, <3>1, <3>3
      <4>2. instance' = instance \/ instance' = "failed" \/ (EndInstance(h) /\ instance' = "completed")
        BY <1>8, EndsBy
      <4>3. CASE instance' \in {"running", "failed"}
        BY <4>1, <4>3 DEF RecordDriven
      <4>4. CASE EndInstance(h) /\ instance' = "completed"
        <5>1. instance = "running"
          BY <2>3, <4>4 DEF EndInstance, MayEnd
        <5>2. Drives(stack'[h], "finished")
          BY <1>1, <4>4, <5>1, EndDrives
        <5> QED BY <4>1, <4>4, <5>2 DEF RecordDriven
      <4> QED BY <2>3, <4>2, <4>3, <4>4
    <3> QED BY <3>2, <3>3
  <2>4. instance # "absent"
    BY <1>1, <1>8, InstanceMoves DEF Inserting
  <2> QED BY <1>1, <2>2, <2>3, <2>4 DEF Shape, Ended
<1>9. (ReadIdle(h) \/ SkipPending(h) => Statement(h))
  BY DEF Statement
<1> QED BY <1>2, <1>4, <1>5, <1>6, <1>7, <1>8, <1>9 DEF StepKinds

LEMMA RecordInit == Init => RecordInv
<1> SUFFICES ASSUME Init PROVE RecordInv
  OBVIOUS
<1>1. instance = "absent" /\ record = "draft" /\ \A h \in Handlers : stack[h] = <<>>
  BY DEF Init
<1> QED BY <1>1 DEF RecordInv, Opening, DrivenBy, RecordDriven, Drives

LEMMA RecordStill ==
    ASSUME RecordInv, UNCHANGED vars
    PROVE  RecordInv'
<1>1. UNCHANGED <<wf, rows, instance, record, stack>>
  BY DEF vars
<1>2. Decides' = Decides /\ Decided' = Decided /\ Verdict' = Verdict
  BY <1>1, SameVerdict
<1>3. Opening' /\ DrivenBy'
  BY <1>1 DEF RecordInv, Opening, DrivenBy
<1>4. RecordDriven'
  BY <1>1, <1>2 DEF RecordInv, RecordDriven
<1> QED BY <1>3, <1>4 DEF RecordInv

\* The last of the decisions is the only one, and the one RecordFollowsRun is
\* about.
LEMMA VerdictIs ==
    ASSUME Shape, VerdictInv, ~Direct, Decided # {},
           NEW by, by = CHOOSE s \in Steps :
                /\ wf.type[s] = "approval" /\ status[s] \in Finished
                /\ \A t \in Steps \ {s} :
                    wf.type[t] = "approval" /\ status[t] \in Finished => t \in earlier[s]
    PROVE  (Verdict = "approved") = (status[by] = "completed")
<1>1. \A s \in Steps : wf.type[s] = "approval" /\ status[s] \in Finished <=> s \in Decided
  BY DEF VerdictInv, VerdictsStand, ApprovalsDecide, Decided, Finished
<1>2. DecidedInOrder /\ Decided \subseteq Steps
  BY DEF VerdictInv, Decided
<1> DEFINE last(s) == s \in Decided /\ Decided \subseteq earlier[s] \cup {s}
<1>3. \E s : last(s)
  BY <1>2, LastDecision
<1>4. \A s, t : last(s) /\ last(t) => s = t
  <2>1. SUFFICES ASSUME NEW s, NEW t, last(s), last(t), s # t PROVE FALSE
    OBVIOUS
  <2>2. s \in earlier[t] /\ t \in earlier[s] /\ s \in Decided /\ t \in Decided
    BY <2>1
  <2>3. earlier[s] \subseteq earlier[t] /\ t \notin earlier[t]
    BY <1>2, <2>2 DEF DecidedInOrder
  <2> QED BY <2>2, <2>3
<1>5. last(DecidedBy)
  BY <1>3 DEF DecidedBy
<1>6. last(by)
  <2> DEFINE P(s) == /\ wf.type[s] = "approval" /\ status[s] \in Finished
                     /\ \A t \in Steps \ {s} :
                          wf.type[t] = "approval" /\ status[t] \in Finished => t \in earlier[s]
  <2>1. \A s \in Steps : P(s) <=> last(s)
    BY <1>1, <1>2
  <2>2. \E s \in Steps : P(s)
    BY <1>2, <1>3, <2>1
  <2>3. by \in Steps /\ P(by)
    BY <2>2
  <2> QED BY <2>1, <2>3
<1>7. by = DecidedBy /\ by \in Decided /\ by \in Steps
  BY <1>2, <1>4, <1>5, <1>6
<1>8. decision[by] = "approve" <=> status[by] = "completed"
  BY <1>7 DEF VerdictInv, VerdictsStand, Decided
<1> QED BY <1>7, <1>8 DEF Verdict

\* The record of a run is under review while it runs; at the end it has the
\* status of the last approval decision that still stands, and it goes back
\* to its creator when the run is cancelled: for any definition and any
\* sequence of decisions and reworks, as long as callers keep to what their
\* inbox offers, requests are taken one at a time and none is cut short.
THEOREM RecordFollowsRunHolds ==
    ASSUME Serial, ~Direct
    PROVE  Spec => []RecordFollowsRun
<1> DEFINE Inv == WorkInv /\ VerdictInv /\ RecordInv
<1>1. Init => VerdictInv /\ RecordInv
  BY VerdictInit, RecordInit
<1>2. WorkInv /\ VerdictInv /\ [Next]_vars => VerdictInv'
  BY VerdictStep DEF WorkInv
<1>3. WorkInv /\ RecordInv /\ [Next]_vars => RecordInv'
  <2> SUFFICES ASSUME WorkInv, RecordInv, [Next]_vars PROVE RecordInv'
    OBVIOUS
  <2>1. CASE UNCHANGED vars
    BY <2>1, RecordStill
  <2>2. CASE Next
    <3>1. RowsInv /\ Phases /\ EndedClean /\ Shape /\ Calls
      BY DEF WorkInv, RowsInv
    <3>2. Opening /\ DrivenBy /\ RecordDriven
      BY DEF RecordInv
    <3>3. Opening'
      BY <2>2, <3>1, <3>2, OpeningStep DEF Serial
    <3>4. DrivenBy' /\ RecordDriven'
      BY <2>2, <3>1, <3>2, DrivenByStep, RecordStep
    <3> QED BY <3>3, <3>4 DEF RecordInv
  <2> QED BY <2>1, <2>2
<1>4. Inv => RecordFollowsRun
  <2> SUFFICES ASSUME Inv, Quiet, Decides, ~wf.test
               PROVE  /\ instance = "running" => record = "submitted"
                      /\ instance = "cancelled" => record = "draft"
                      /\ instance = "completed" /\ record \in {"approved", "rejected"} =>
                          LET by == CHOOSE s \in Steps :
                                /\ wf.type[s] = "approval" /\ status[s] \in Finished
                                /\ \A t \in Steps \ {s} :
                                    wf.type[t] = "approval" /\ status[t] \in Finished => t \in earlier[s]
                          IN (record = "approved") = (status[by] = "completed")
    BY DEF RecordFollowsRun
  <2>1. \A h \in Handlers : \A event : ~Drives(stack[h], event)
    BY IdleDrives DEF Quiet
  <2>2. RecordDriven /\ Shape /\ VerdictInv
    BY DEF RecordInv, WorkInv, RowsInv
  <2>3. /\ instance = "running" => record = "submitted"
        /\ instance = "cancelled" => record = "draft"
    BY <2>1, <2>2 DEF RecordDriven
  <2>4. ASSUME instance = "completed", record \in {"approved", "rejected"}
        PROVE  record = Verdict /\ Decided # {}
    BY <2>2, <2>4 DEF RecordDriven
  <2> QED BY <2>2, <2>3, <2>4, VerdictIs
<1> QED BY <1>1, <1>2, <1>3, <1>4, WorkCorrect, PTL DEF Spec

-----------------------------------------------------------------------------
(* A join waits for its branches. *)

\* A definition opens with another step than a join, and one that has a join
\* routes every step: the fallback of a step without routes opens whatever
\* is pending, a join as well, for a person to complete.
Wired ==
    \A w \in Workflows :
        /\ w.type[1] # "join"
        /\ (\E s \in 1..Len(w.type) : w.type[s] = "join")
            => \A s \in 1..Len(w.type) : DOMAIN w.routes[s] # {}

\* No person is asked to complete a join.
JoinsUnasked == \A j \in Joins : status[j] # "in_progress"

\* What the statement h is about to make may rely on.
Checked(h) ==
    /\ At(h, "preds") => \A p \in Predecessors(Top(h).join) \ Top(h).left : status[p] \in Resolved
    /\ At(h, "any") \/ At(h, "fire") => \A p \in Predecessors(Top(h).join) : status[p] \in Resolved
    /\ At(h, "revive") => \A j \in Joins : RoutesTo(Top(h).step, j) => status[j] # "completed"

JoinInv == JoinWaits /\ JoinsUnasked /\ \A h \in Handlers : Checked(h)

\* What is reset with a step: the joins it leads to, and with a predecessor
\* of a join the join.
LEMMA DownstreamJoins ==
    ASSUME Shape, NEW t \in Steps \ Joins, NEW p, NEW j \in Joins, RoutesTo(p, j),
           p = t \/ p \in Downstream(t)
    PROVE  j \in Downstream(t)
<1> DEFINE succ == [s \in Steps |-> IF s = t THEN {} ELSE AllTargets(s)]
           S == AllTargets(t)
<1>1. j \in Steps /\ j # t /\ j \in AllTargets(p)
  BY DEF Joins, RoutesTo
<1>2. Downstream(t) = Closure(S, succ) \ {t} /\ DOMAIN succ = Steps
  BY DEF Downstream
<1>3. ASSUME NEW C \in SUBSET DOMAIN succ, S \subseteq C, \A s \in C : succ[s] \subseteq C
      PROVE  j \in C
  <2>1. CASE p = t
    BY <1>1, <1>3, <2>1
  <2>2. CASE p # t
    <3>1. p \in Closure(S, succ) /\ p \in Steps
      BY <1>2, <2>2, DownstreamTyped
    <3>2. p \in C
      BY <1>3, <3>1 DEF Closure
    <3>3. succ[p] = AllTargets(p)
      BY <2>2, <3>1
    <3> QED BY <1>1, <1>3, <3>2, <3>3
  <2> QED BY <2>1, <2>2
<1>4. j \in Closure(S, succ)
  <2> HIDE DEF succ, S
  <2> QED BY <1>1, <1>2, <1>3 DEF Closure
<1> QED BY <1>1, <1>2, <1>4

LEMMA NewTop ==
    ASSUME Shape, NEW h \in Handlers, ~Idle(h), NEW fs \in Seq(Frames), fs # <<>>, Continue(h, fs)
    PROVE  ~Idle(h)' /\ Top(h)' = fs[1]
<1> DEFINE r == fs \o Tail(stack[h])
<1>1. stack[h] \in Seq(Frames) /\ stack[h] # <<>>
  BY DEF Shape, Idle
<1>2. stack'[h] = r
  <2>1. stack' = [stack EXCEPT ![h] = r] /\ stack \in [Handlers -> Seq(Frames)]
    BY DEF Continue, Shape
  <2> HIDE DEF r
  <2> QED BY <2>1
<1>3. r # <<>> /\ Head(r) = fs[1]
  <2>1. Tail(stack[h]) \in Seq(Frames) /\ fs \in Seq(Frames) /\ Len(fs) > 0
    BY <1>1
  <2> QED BY <2>1
<1> QED BY <1>2, <1>3 DEF Idle, Top

\* A frame that comes up or is pushed with others: it is no read of a join's
\* predecessors, and a step is only revived when it was reset.
LEMMA PlainTop ==
    ASSUME Shape, Calls, Shape', NEW h \in Handlers, Pushed(h, Plain), Idle(h) \/ Top(h).op # "reset"
    PROVE  Checked(h)'
<1>1. ASSUME NEW op \in {"preds", "any", "fire", "revive"}, At(h, op)' PROVE FALSE
  <2>1. 1 \in DOMAIN stack'[h] /\ stack'[h][1].op = op
    BY <1>1, TopThereNext
  <2>2. stack'[h][1] \notin Plain
    BY <2>1 DEF Plain
  <2>3. PICK k \in DOMAIN stack[h] : k > 1 /\ stack'[h][1] = stack[h][k]
    BY <2>1, <2>2 DEF Pushed
  <2>4. op = "revive" /\ stack[h][1].op = "reset"
    BY <2>1, <2>3 DEF Calls, Orderly
  <2>5. ~Idle(h)
    BY <2>3 DEF Idle
  <2>6. Top(h) = stack[h][1]
    BY <2>5, StackTyped
  <2> QED BY <2>4, <2>5, <2>6
<1> QED BY <1>1 DEF Checked

LEMMA PlainContinues ==
    ASSUME Shape, Calls, Shape', NEW h \in Handlers, ~Idle(h), Top(h).op # "reset", NEW fs \in Seq(Plain), Continue(h, fs)
    PROVE  Checked(h)'
<1>1. Plain \subseteq Frames
  BY DEF Plain
<1> QED BY <1>1, ContinuePushes, PlainTop

\* The joins keep what they have waited for.
JoinsKept ==
    /\ wf' = wf
    /\ \A s \in Steps : status[s] \in Resolved => status'[s] \in Resolved
    /\ \A j \in Joins : /\ status'[j] = "completed" => status[j] = "completed"
                        /\ status'[j] # "in_progress"

LEMMA KeptWaits ==
    ASSUME JoinWaits, JoinsKept
    PROVE  JoinWaits' /\ JoinsUnasked'
<1>1. Steps' = Steps /\ Joins' = Joins /\ \A s, t : RoutesTo(s, t)' = RoutesTo(s, t)
  BY SameWorkflow DEF JoinsKept, RoutesTo
<1>2. JoinsUnasked'
  BY <1>1 DEF JoinsUnasked, JoinsKept
<1>3. \A j \in Joins : status[j] = "completed" => \A s \in Steps : RoutesTo(s, j) => status[s] \in Resolved
  BY DEF JoinWaits, Joins
<1>4. \A j \in Steps' : wf'.type[j] = "join" <=> j \in Joins
  BY <1>1 DEF Joins, JoinsKept
<1>5. JoinWaits'
  BY <1>1, <1>3, <1>4 DEF JoinWaits, JoinsKept
<1> QED BY <1>2, <1>5

\* Without a join there is nothing to wait for.
LEMMA NoJoins ==
    ASSUME Shape', wf' = wf, Joins = {}
    PROVE  JoinInv'
<1>1. Joins' = {} /\ Steps' = Steps /\ Frames' = Frames
  BY SameWorkflow
<1>2. JoinWaits' /\ JoinsUnasked'
  BY <1>1 DEF JoinWaits, JoinsUnasked, Joins
<1>3. ASSUME NEW h \in Handlers PROVE Checked(h)'
  <2>1. ASSUME NEW op \in {"preds", "any", "fire"}, At(h, op)' PROVE FALSE
    <3>1. 1 \in DOMAIN stack'[h] /\ stack'[h][1].op = op /\ stack'[h] \in Seq(Frames')
      BY <2>1, TopThereNext DEF Shape
    <3>2. stack'[h][1] \in Frames
      BY <1>1, <3>1
    <3> QED BY <1>1, <3>1, <3>2, FrameFields, SameWorkflow
  <2> QED BY <1>1, <2>1 DEF Checked
<1> QED BY <1>2, <1>3 DEF JoinInv

\* Statements that read.
LEMMA ReadsChecked ==
    ASSUME Shape, Calls, Shape', JoinInv, NEW h \in Handlers,
           ActivateJoin(h) \/ ReadPredecessor(h) \/ NextJoin(h) \/ ReadCompleted(h) \/ ReadRework(h)
    PROVE  Checked(h)'
<1> DEFINE f == Top(h)
           k == [f EXCEPT !.left = Rest(@)]
<1>1. ~Idle(h) /\ f \in Frames /\ f.op \in {"activate", "preds", "joins", "any", "rework"}
  BY TopIs, StackTyped DEF ActivateJoin, ReadPredecessor, NextJoin, ReadCompleted, ReadRework
<1>2. wf' = wf /\ status' = status
  BY DEF ActivateJoin, ReadPredecessor, NextJoin, ReadCompleted, ReadRework, rows
<1>3. \A s, t : RoutesTo(s, t)' = RoutesTo(s, t) /\ Predecessors(t)' = Predecessors(t)
  BY <1>2, SameWorkflow DEF RoutesTo, Predecessors
<1>4. Continue(h, <<>>) => Checked(h)'
  <2>1. <<>> \in Seq(Plain)
    OBVIOUS
  <2> QED BY <1>1, <2>1, PlainContinues
<1>5. /\ At(h, "preds") => \A p \in Predecessors(f.join) \ f.left : status[p] \in Resolved
      /\ At(h, "any") => \A p \in Predecessors(f.join) : status[p] \in Resolved
  BY DEF JoinInv, Checked
<1>6. ASSUME NEW g \in Frames, NEW fs \in Seq(Frames), fs # <<>>, fs[1] = g, Continue(h, fs),
             \/ g.op \in {"joins", "reset"}
             \/ /\ g.op = "preds"
                /\ \A p \in Predecessors(g.join) \ g.left : status[p] \in Resolved
             \/ /\ g.op \in {"any", "fire"}
                /\ \A p \in Predecessors(g.join) : status[p] \in Resolved
      PROVE  Checked(h)'
  <2>1. ~Idle(h)' /\ Top(h)' = g
    BY <1>1, <1>6, NewTop
  <2>2. \A op : At(h, op)' <=> g.op = op
    BY <2>1 DEF At
  <2> QED BY <1>2, <1>3, <1>6, <2>1, <2>2 DEF Checked
<1>7. ASSUME NEW g \in Frames, Continue(h, <<g>>),
             \/ g.op \in {"joins", "reset"}
             \/ /\ g.op = "preds"
                /\ \A p \in Predecessors(g.join) \ g.left : status[p] \in Resolved
             \/ /\ g.op \in {"any", "fire"}
                /\ \A p \in Predecessors(g.join) : status[p] \in Resolved
      PROVE  Checked(h)'
  <2>1. <<g>> \in Seq(Frames) /\ <<g>> # <<>> /\ <<g>>[1] = g
    OBVIOUS
  <2> QED BY <1>6, <1>7, <2>1
<1>8. f.op \in {"preds", "any", "joins"} => k \in Frames /\ k.op = f.op /\ k.left = Rest(f.left)
                                           /\ (f.op # "joins" => k.join = f.join)
  BY <1>1, FrameRest
<1>9. CASE ActivateJoin(h)
  <2> DEFINE g == [op |-> "preds", join |-> f.to, left |-> Predecessors(f.to), then |-> "fire"]
  <2>1. f.to \in Joins /\ Continue(h, <<g>>)
    BY <1>1, <1>9, TopIs, FrameFields DEF ActivateJoin, ReadPredecessors, Joins
  <2>2. g \in Frames /\ g.op = "preds" /\ g.left = Predecessors(g.join)
    BY <2>1, AskFrame
  <2> HIDE DEF g
  <2> QED BY <1>7, <2>1, <2>2
<1>10. CASE ReadPredecessor(h)
  <2> DEFINE g == [op |-> f.then, join |-> f.join, left |-> Predecessors(f.join)]
  <2>1. At(h, "preds") /\ f.op = "preds" /\ f.join \in Joins /\ f.then \in {"fire", "any"} /\ f.left \subseteq Steps
    BY <1>1, <1>10, TopIs, FrameFields DEF ReadPredecessor
  <2>2. \/ f.left = {} /\ Continue(h, <<g>>)
        \/ f.left # {} /\ status[First(f.left)] \in Resolved /\ Continue(h, <<k>>)
        \/ Continue(h, <<>>)
    BY <1>10 DEF ReadPredecessor, PredecessorDone
  <2>3. CASE f.left = {} /\ Continue(h, <<g>>)
    <3>1. g \in Frames /\ g.op \in {"fire", "any"} /\ g.join = f.join
      BY <2>1, AskFrame
    <3>2. \A p \in Predecessors(f.join) : status[p] \in Resolved
      BY <1>5, <2>1, <2>3
    <3> HIDE DEF g
    <3> QED BY <1>7, <2>3, <3>1, <3>2
  <2>4. CASE f.left # {} /\ status[First(f.left)] \in Resolved /\ Continue(h, <<k>>)
    <3>1. \A p \in Predecessors(f.join) \ Rest(f.left) : status[p] \in Resolved
      BY <1>5, <2>1, <2>4 DEF Rest
    <3> HIDE DEF k
    <3> QED BY <1>7, <1>8, <2>1, <2>4, <3>1
  <2> QED BY <1>4, <2>2, <2>3, <2>4
<1>11. CASE NextJoin(h)
  <2> DEFINE j == First(f.left)
             g == [op |-> "preds", join |-> j, left |-> Predecessors(j), then |-> "any"]
  <2>1. f.op = "joins" /\ f.pass \in Nat /\ f.left \subseteq Joins
    BY <1>1, <1>11, TopIs, FrameFields DEF NextJoin
  <2>2. CASE f.left = {}
    <3>1. Continue(h, ReconcileInstance(f.pass + 1)) \/ Continue(h, <<>>)
      BY <1>11, <2>2 DEF NextJoin
    <3>2. ReconcileInstance(f.pass + 1) \in Seq(Plain)
      BY <2>1, ReconcilePushed
    <3> QED BY <1>1, <1>4, <3>1, <3>2, PlainContinues
  <2>3. CASE f.left # {}
    <3>1. f.left \in SUBSET Nat
      BY <2>1, WfTyped DEF Joins
    <3>2. j \in Joins
      BY <2>1, <2>3, <3>1, FirstIn
    <3>3. g \in Frames /\ g.op = "preds" /\ g.left = Predecessors(g.join)
      BY <3>2, AskFrame
    <3>4. Continue(h, <<g>> \o <<k>>) \/ Continue(h, <<>> \o <<k>>)
      BY <1>11, <2>3 DEF NextJoin, ReadPredecessors
    <3>5. k \in Frames /\ k.op = "joins"
      BY <1>8, <2>1
    <3> HIDE DEF g, k
    <3>6. /\ <<g>> \o <<k>> \in Seq(Frames) /\ <<g>> \o <<k>> # <<>> /\ (<<g>> \o <<k>>)[1] = g
          /\ <<>> \o <<k>> \in Seq(Frames) /\ <<>> \o <<k>> # <<>> /\ (<<>> \o <<k>>)[1] = k
      BY <3>3, <3>5
    <3>7. CASE Continue(h, <<g>> \o <<k>>)
      BY <1>6, <3>3, <3>6, <3>7
    <3>8. CASE Continue(h, <<>> \o <<k>>)
      BY <1>6, <3>5, <3>6, <3>8
    <3> QED BY <3>4, <3>7, <3>8
  <2> QED BY <2>2, <2>3
<1>12. CASE ReadCompleted(h)
  <2> DEFINE g == [op |-> "fire", join |-> f.join, left |-> {}]
             r == <<g>> \o <<[stack[h][2] EXCEPT !.changed = TRUE]>> \o Tail(Tail(stack[h]))
  <2>1. At(h, "any") /\ f.op = "any" /\ f.join \in Joins
    BY <1>1, <1>12, TopIs, FrameFields DEF ReadCompleted
  <2>2. Continue(h, <<>>) \/ Continue(h, <<k>>) \/ stack' = [stack EXCEPT ![h] = r]
    BY <1>12 DEF ReadCompleted
  <2>3. \A p \in Predecessors(f.join) : status[p] \in Resolved
    BY <1>5, <2>1
  <2>4. CASE Continue(h, <<k>>)
    <3>1. k \in Frames /\ k.op = "any" /\ k.join = f.join
      BY <1>8, <2>1
    <3> HIDE DEF k
    <3> QED BY <1>7, <2>3, <2>4, <3>1
  <2>5. CASE stack' = [stack EXCEPT ![h] = r]
    <3>1. r \in Seq(Frames) /\ Len(r) = Len(stack[h]) /\ r[1] = g
      BY <2>1, CompletedStack
    <3>2. g.op = "fire" /\ g.join = f.join
      OBVIOUS
    <3>3. Len(stack[h]) > 0
      BY <1>1, StackTyped
    <3> HIDE DEF r, g
    <3>4. stack'[h] = r
      BY <2>5 DEF Shape
    <3>5. ~Idle(h)' /\ Top(h)' = g
      BY <3>1, <3>3, <3>4 DEF Idle, Top
    <3>6. \A op : At(h, op)' <=> op = "fire"
      BY <3>2, <3>5 DEF At
    <3> QED BY <1>2, <1>3, <2>3, <3>2, <3>5, <3>6 DEF Checked
  <2> QED BY <1>4, <2>2, <2>4, <2>5
<1>13. CASE ReadRework(h)
  <2> DEFINE a == [op |-> "reset", step |-> f.step]
             b == [op |-> "revive", step |-> f.step]
  <2>1. f.step \in Steps \ Joins
    BY <1>1, <1>13, TopIs, FrameFields DEF ReadRework
  <2>2. Continue(h, <<>>) \/ Continue(h, <<[op |-> "fail"], [op |-> "failexec"]>>) \/ Continue(h, <<a, b>>)
    BY <1>13 DEF ReadRework
  <2>3. CASE Continue(h, <<[op |-> "fail"], [op |-> "failexec"]>>)
    BY <1>1, <2>3, OthersPushed, PlainContinues
  <2>4. CASE Continue(h, <<a, b>>)
    <3>1. a \in Frames /\ b \in Frames /\ a.op = "reset"
      BY <2>1, ReworkFrames
    <3> HIDE DEF a, b
    <3>2. <<a, b>> \in Seq(Frames) /\ <<a, b>> # <<>> /\ <<a, b>>[1] = a
      BY <3>1
    <3> QED BY <1>6, <2>4, <3>1, <3>2
  <2> QED BY <1>4, <2>2, <2>3, <2>4
<1> QED BY <1>9, <1>10, <1>11, <1>12, <1>13

\* A definition with a join has a route from every step, and another first step.
LEMMA WiredHere ==
    ASSUME Wired, Shape, Joins # {}
    PROVE  1 \notin Joins /\ \A s \in Steps : ~Routeless(s)
<1>1. wf \in Workflows
  BY DEF Shape
<1> QED BY <1>1 DEF Wired, Joins, Steps, Routeless

LEMMA JoinStatus ==
    ASSUME Wired, RowsInv, JoinInv, Joins # {}, NEW h \in Handlers, Statement(h),
           ~FireJoin(h), ~ResetDownstream(h), ~Revive(h)
    PROVE  JoinsKept
<1>1. Shape /\ Calls /\ Inserting
  BY DEF RowsInv
<1>2. status \in [Steps -> Statuses] /\ \A j \in Joins : j \in Steps /\ status[j] # "in_progress"
  BY <1>1, ShapeParts DEF JoinInv, JoinsUnasked, Joins
<1>3. CASE \/ ActivateJoin(h) \/ ReadPredecessor(h) \/ ReadRework(h) \/ FailInstance(h) \/ FailExecution(h)
           \/ ReadReachable(h) \/ NextJoin(h) \/ ReadCompleted(h) \/ ReadIdle(h)
  <2>1. wf' = wf /\ status' = status
    BY <1>3 DEF rows, ActivateJoin, ReadPredecessor, ReadRework, FailInstance, FailExecution,
       ReadReachable, NextJoin, ReadCompleted, ReadIdle
  <2> QED BY <1>2, <2>1 DEF JoinsKept
<1>4. CASE EndInstance(h) \/ EndExecution(h) \/ DriveRecords(h) \/ ReadMirror(h) \/ RecordExecution(h)
  <2>1. wf' = wf /\ status' = status
    BY <1>4 DEF rows, EndInstance, EndExecution, DriveRecords, ReadMirror, RecordExecution
  <2> QED BY <1>2, <2>1 DEF JoinsKept
<1>5. CASE Fallback(h)
  <2>1. ~Idle(h) /\ Top(h).op = "fallback"
    BY <1>5, TopIs DEF Fallback
  <2>2. Top(h) \in Frames
    BY <1>1, <2>1, StackTyped
  <2>3. \E s \in Steps : Routeless(s)
    BY <2>1, <2>2 DEF Frames
  <2> QED BY <1>1, <2>3, WiredHere
<1>6. CASE Activate(h)
  <2>1. wf' = wf /\ wf.type[Top(h).to] # "join"
    BY <1>6 DEF Activate
  <2>2. status' = status \/ (status[Top(h).to] = "pending" /\ status' = [status EXCEPT ![Top(h).to] = "in_progress"])
    BY <1>6 DEF Activate
  <2> QED BY <1>2, <2>1, <2>2 DEF JoinsKept, Joins, Resolved, Finished
<1>7. CASE CreateStep(h)
  <2> DEFINE t == Top(h).step
  <2>1. /\ wf' = wf /\ At(h, "create")
        /\ status' = [status EXCEPT ![t] = IF t = 1 THEN "in_progress" ELSE "pending"]
    BY <1>7 DEF CreateStep
  <2>2. t \in Steps /\ status[t] = "absent"
    <3>1. t \in Steps /\ Steps \subseteq Nat
      BY <1>1, <2>1, TopIs, StackTyped, FrameFields, WfTyped
    <3>2. \A s \in Steps : s >= t => status[s] = "absent"
      BY <1>1, <2>1 DEF Inserting
    <3> HIDE DEF t
    <3> QED BY <3>1, <3>2
  <2>3. 1 \notin Joins
    BY <1>1, WiredHere
  <2> HIDE DEF t
  <2> QED BY <1>2, <2>1, <2>2, <2>3 DEF JoinsKept, Resolved, Finished
<1>8. CASE RunAutoStep(h)
  <2> DEFINE s == Top(h).step
  <2>1. s \in Steps /\ s \notin Joins
    BY <1>1, <1>8, TopIs, StackTyped, FrameFields DEF RunAutoStep, IsAuto, Joins
  <2>2. wf' = wf
    BY <1>8 DEF RunAutoStep
  <2>3. status' = status \/ status' = [status EXCEPT ![s] = "completed"]
    BY <1>8 DEF RunAutoStep
  <2> HIDE DEF s
  <2> QED BY <1>2, <2>1, <2>2, <2>3 DEF JoinsKept, Resolved, Finished
<1>9. CASE Sweep(h) \/ SkipPending(h)
  <2>1. /\ wf' = wf
        /\ \A s \in Steps : status'[s] = status[s] \/ (status[s] = "pending" /\ status'[s] = "skipped")
    BY <1>9 DEF Sweep, SkipPending
  <2> QED BY <1>2, <2>1 DEF JoinsKept, Resolved, Finished
<1> QED BY <1>3, <1>4, <1>5, <1>6, <1>7, <1>8, <1>9 DEF Statement

\* The statement that completes a join has seen its branches resolved.
LEMMA FireWaits ==
    ASSUME RowsInv, JoinInv, NEW h \in Handlers, FireJoin(h)
    PROVE  JoinWaits' /\ JoinsUnasked'
<1> DEFINE j == Top(h).join
<1>1. Shape /\ status \in [Steps -> Statuses]
  BY ShapeParts DEF RowsInv
<1>2. wf' = wf /\ status' = [status EXCEPT ![j] = IF @ = "pending" THEN "completed" ELSE @]
  BY DEF FireJoin
<1>3. \A p \in Predecessors(j) : status[p] \in Resolved
  BY DEF FireJoin, JoinInv, Checked
<1>4. Steps' = Steps /\ Joins' = Joins /\ \A s, t : RoutesTo(s, t)' = RoutesTo(s, t)
  BY <1>2, SameWorkflow DEF RoutesTo
<1> HIDE DEF j
<1>5. \A s \in Steps : status[s] \in Resolved => status'[s] \in Resolved
  BY <1>1, <1>2 DEF Resolved, Finished
<1>6. JoinsUnasked'
  BY <1>1, <1>2, <1>4 DEF JoinInv, JoinsUnasked, Joins
<1>7. ASSUME NEW k \in Joins, status'[k] = "completed", NEW s \in Steps, RoutesTo(s, k)
      PROVE  status'[s] \in Resolved
  <2>1. CASE k = j
    BY <1>3, <1>5, <1>7, <2>1 DEF Predecessors
  <2>2. CASE k # j
    <3>1. status[k] = "completed" /\ wf.type[k] = "join" /\ k \in Steps
      BY <1>1, <1>2, <1>7, <2>2 DEF Joins
    <3> QED BY <1>5, <1>7, <3>1 DEF JoinInv, JoinWaits
  <2> QED BY <2>1, <2>2
<1>8. \A k \in Steps' : wf'.type[k] = "join" <=> k \in Joins
  BY <1>2, <1>4 DEF Joins
<1>9. JoinWaits'
  BY <1>4, <1>7, <1>8 DEF JoinWaits
<1> QED BY <1>6, <1>9

\* With a branch that is reset the join is reset.
LEMMA ResetWaits ==
    ASSUME RowsInv, Shape', JoinInv, NEW h \in Handlers, ResetDownstream(h)
    PROVE  JoinWaits' /\ JoinsUnasked' /\ Checked(h)'
<1> DEFINE t == Top(h).step
<1>1. Shape /\ Calls /\ status \in [Steps -> Statuses]
  BY ShapeParts DEF RowsInv
<1>2. ~Idle(h) /\ Top(h).op = "reset" /\ t \in Steps \ Joins /\ Top(h) = stack[h][1]
  BY <1>1, TopIs, StackTyped, FrameFields DEF ResetDownstream
<1>3. /\ wf' = wf /\ Continue(h, <<>>)
      /\ \A s \in Steps : status'[s] = IF s \in Reset(t) THEN "pending" ELSE status[s]
  BY DEF ResetDownstream, Reopen
<1>4. /\ Steps' = Steps /\ Joins' = Joins /\ \A s, u : RoutesTo(s, u)' = RoutesTo(s, u)
      /\ \A j \in Steps' : wf'.type[j] = "join" <=> j \in Joins
  BY <1>3, SameWorkflow DEF RoutesTo, Joins
<1>5. \A j \in Joins : j \in Steps /\ status[j] # "in_progress"
  BY DEF JoinInv, JoinsUnasked, Joins
<1> HIDE DEF t
<1>6. JoinsUnasked'
  BY <1>3, <1>4, <1>5 DEF JoinsUnasked
<1>7. ASSUME NEW j \in Joins, NEW p, RoutesTo(p, j), p = t \/ p \in Downstream(t) PROVE status'[j] # "completed"
  <2>1. j \in Downstream(t)
    BY <1>1, <1>2, <1>7, DownstreamJoins
  <2>2. j \in Reset(t) \/ status[j] \in {"in_progress", "absent"}
    BY <1>5, <2>1 DEF Reset
  <2> QED BY <1>3, <1>5, <2>2
<1>8. ASSUME NEW j \in Joins, status'[j] = "completed", NEW s \in Steps, RoutesTo(s, j)
      PROVE  status'[s] \in Resolved
  <2>1. s \notin Downstream(t)
    BY <1>7, <1>8
  <2>2. status'[s] = status[s] /\ status[j] = "completed" /\ wf.type[j] = "join" /\ j \in Steps
    BY <1>3, <1>5, <1>8, <2>1 DEF Reset, Joins
  <2> QED BY <1>8, <2>2 DEF JoinInv, JoinWaits
<1>9. JoinWaits'
  BY <1>4, <1>8 DEF JoinWaits
<1>10. Checked(h)'
  <2> DEFINE F == {f \in Frames : FALSE}
  <2>1. Pushed(h, F)
    <3>1. <<>> \in Seq(F) /\ F \subseteq Frames
      OBVIOUS
    <3> HIDE DEF F
    <3> QED BY <1>1, <1>2, <1>3, <3>1, ContinuePushes
  <2>2. ASSUME NEW op \in {"preds", "any", "fire", "revive"}, At(h, op)'
        PROVE  op = "revive" /\ Top(h)'.step = t
    <3>1. 1 \in DOMAIN stack'[h] /\ stack'[h][1].op = op /\ Top(h)' = stack'[h][1]
      BY <2>2, TopThereNext
    <3>2. PICK k \in DOMAIN stack[h] : k > 1 /\ stack'[h][1] = stack[h][k]
      BY <2>1, <3>1 DEF Pushed
    <3>3. op = "revive" /\ k = 2 /\ stack[h][1].step = stack[h][2].step
      BY <1>1, <3>1, <3>2 DEF Calls, Orderly
    <3> QED BY <1>2, <3>1, <3>2, <3>3 DEF t
  <2> QED BY <1>4, <1>7, <2>2 DEF Checked
<1> QED BY <1>6, <1>9, <1>10

LEMMA ReviveWaits ==
    ASSUME RowsInv, JoinInv, NEW h \in Handlers, Revive(h)
    PROVE  JoinWaits' /\ JoinsUnasked'
<1> DEFINE t == Top(h).step
<1>1. Shape /\ Calls /\ status \in [Steps -> Statuses]
  BY ShapeParts DEF RowsInv
<1>2. t \in Steps \ Joins /\ At(h, "revive")
  <2>1. At(h, "revive")
    BY DEF Revive
  <2>2. Top(h) \in Frames /\ Top(h).op = "revive"
    BY <1>1, <2>1, TopIs, StackTyped
  <2> QED BY <2>1, <2>2, FrameFields
<1>3. wf' = wf /\ \A s \in Steps : status'[s] = IF s = t THEN "in_progress" ELSE status[s]
  BY DEF Revive, Reopen
<1>4. /\ Steps' = Steps /\ Joins' = Joins /\ \A s, u : RoutesTo(s, u)' = RoutesTo(s, u)
      /\ \A j \in Steps' : wf'.type[j] = "join" <=> j \in Joins
  BY <1>3, SameWorkflow DEF RoutesTo, Joins
<1>5. \A j \in Joins : RoutesTo(t, j) => status[j] # "completed"
  BY <1>2 DEF JoinInv, Checked
<1>6. \A j \in Joins : j \in Steps /\ status[j] # "in_progress" /\ wf.type[j] = "join"
  BY DEF JoinInv, JoinsUnasked, Joins
<1> HIDE DEF t
<1>7. JoinsUnasked'
  BY <1>2, <1>3, <1>4, <1>6 DEF JoinsUnasked
<1>8. ASSUME NEW j \in Joins, status'[j] = "completed", NEW s \in Steps, RoutesTo(s, j)
      PROVE  status'[s] \in Resolved
  <2>1. status[j] = "completed" /\ s # t
    BY <1>2, <1>3, <1>5, <1>6, <1>8
  <2> QED BY <1>3, <1>6, <1>8, <2>1 DEF JoinInv, JoinWaits
<1>9. JoinWaits'
  BY <1>4, <1>8 DEF JoinWaits
<1> QED BY <1>7, <1>9

\* What a statement leaves at the top of its handler's stack.
LEMMA StatementChecked ==
    ASSUME RowsInv, Shape', JoinInv, NEW h \in Handlers, Statement(h), ~ResetDownstream(h)
    PROVE  Checked(h)'
<1>1. Shape /\ Calls
  BY DEF RowsInv
<1>2. CASE ActivateJoin(h) \/ ReadPredecessor(h) \/ NextJoin(h) \/ ReadCompleted(h) \/ ReadRework(h)
  BY <1>1, <1>2, ReadsChecked
<1>3. CASE \/ Activate(h) \/ FireJoin(h) \/ Revive(h) \/ RunAutoStep(h) \/ ReadReachable(h) \/ Sweep(h)
           \/ ReadIdle(h) \/ EndInstance(h) \/ ReadMirror(h)
  <2>1. Top(h).op # "reset"
    BY <1>3, TopIs
    DEF Activate, FireJoin, Revive, RunAutoStep, ReadReachable, Sweep, ReadIdle, EndInstance, ReadMirror
  <2>2. ~Idle(h) /\ \E fs \in Seq(Plain) : Continue(h, fs)
    BY <1>1, <1>3, PlainStatements
  <2> QED BY <1>1, <2>1, <2>2, PlainContinues
<1>4. CASE \/ Fallback(h) \/ FailInstance(h) \/ FailExecution(h) \/ SkipPending(h)
           \/ EndExecution(h) \/ DriveRecords(h) \/ RecordExecution(h)
  <2>1. ~Idle(h) /\ Top(h).op # "reset" /\ Continue(h, <<>>)
    BY <1>4, TopIs DEF Fallback, FailInstance, FailExecution, SkipPending, EndExecution, DriveRecords, RecordExecution
  <2>2. <<>> \in Seq(Plain)
    OBVIOUS
  <2> QED BY <1>1, <2>1, <2>2, PlainContinues
<1>5. CASE CreateStep(h)
  <2> DEFINE F == {f \in Frames : f.op = "create" /\ f.step = Top(h).step + 1}
  <2>1. Pushed(h, F) /\ \A f \in F : f.op = "create"
    BY <1>1, <1>5, CreatePushes
  <2>2. stack[h][1].op = "create"
    <3>1. ~Idle(h) /\ Top(h).op = "create"
      BY <1>5, TopIs DEF CreateStep
    <3> QED BY <1>1, <3>1, StackTyped
  <2> HIDE DEF F
  <2>3. ASSUME NEW op \in {"preds", "any", "fire", "revive"}, At(h, op)' PROVE FALSE
    <3>1. 1 \in DOMAIN stack'[h] /\ stack'[h][1].op = op
      BY <2>3, TopThereNext
    <3>2. PICK k \in DOMAIN stack[h] : k > 1 /\ stack'[h][1] = stack[h][k]
      BY <2>1, <3>1 DEF Pushed
    <3> QED BY <1>1, <2>2, <3>1, <3>2 DEF Calls, Orderly
  <2> QED BY <2>3 DEF Checked
<1> QED BY <1>2, <1>3, <1>4, <1>5 DEF Statement

\* A decision is on a step in progress, which is no join, and a cancellation
\* skips what is open.
LEMMA RequestWaits ==
    ASSUME ~Direct, RowsInv, Shape', JoinInv, NEW h \in Handlers,
           \/ StartWorkflow(h)
           \/ \E s \in Steps : \E d \in Decisions(s) : CompleteStep(h, s, d)
           \/ CancelInstance(h)
    PROVE  JoinsKept /\ Checked(h)'
<1>1. Shape /\ Calls /\ status \in [Steps -> Statuses]
  BY ShapeParts DEF RowsInv
<1>2. \A j \in Joins : j \in Steps /\ status[j] # "in_progress"
  BY DEF JoinInv, JoinsUnasked, Joins
<1>3. CASE StartWorkflow(h)
  <2>1. wf' = wf /\ status' = status
    BY <1>3 DEF StartWorkflow, rows
  <2>2. Top(h)'.op = "create"
    BY <1>1, <1>3, StartPushes
  <2>3. Checked(h)'
    BY <2>2 DEF Checked, At
  <2> QED BY <1>2, <2>1, <2>3 DEF JoinsKept
<1>4. ASSUME NEW s \in Steps, NEW d \in Decisions(s), CompleteStep(h, s, d)
      PROVE  JoinsKept /\ Checked(h)'
  <2>1. wf' = wf /\ status' = [status EXCEPT ![s] = IF d = "reject" THEN "rejected" ELSE "completed"]
    BY <1>4 DEF CompleteStep
  <2>2. s \notin Joins
    BY <1>2, <1>4 DEF CompleteStep, MayDecide
  <2>3. JoinsKept
    BY <1>1, <1>2, <2>1, <2>2 DEF JoinsKept, Resolved, Finished
  <2>4. PICK next \in ActivateNextSteps(s, d) : Request(h, next \o ReconcileInstance(1) \o CloseInstanceIfIdle)
    BY <1>4 DEF CompleteStep
  <2> DEFINE fs == next \o ReconcileInstance(1) \o CloseInstanceIfIdle
  <2>5. fs \in Seq(Plain)
    BY <1>1, CompleteFrames
  <2>6. Idle(h) /\ stack' = [stack EXCEPT ![h] = fs]
    BY <2>4 DEF Request
  <2> HIDE DEF fs
  <2>7. Pushed(h, Plain)
    BY <1>1, <2>5, <2>6, RequestPushes
  <2> QED BY <1>1, <2>3, <2>6, <2>7, PlainTop
<1>5. CASE CancelInstance(h)
  <2>1. wf' = wf /\ \A s \in Steps : status'[s] = IF status[s] \in Open THEN "skipped" ELSE status[s]
    BY <1>5 DEF CancelInstance, Withdrawn
  <2>2. JoinsKept
    BY <1>2, <2>1 DEF JoinsKept, Resolved, Finished, Open
  <2>3. Idle(h) /\ stack' = [stack EXCEPT ![h] = Drive("cancelled")] /\ Drive("cancelled") \in Seq(Plain)
    BY <1>5, OthersPushed DEF CancelInstance, Request
  <2>4. Pushed(h, Plain)
    BY <1>1, <2>3, RequestPushes
  <2> QED BY <1>1, <2>2, <2>3, <2>4, PlainTop
<1> QED BY <1>3, <1>4, <1>5

LEMMA JoinStep ==
    ASSUME Serial, ~Direct, Wired, RowsInv, Shape', JoinInv, Next
    PROVE  JoinInv'
<1>1. Shape /\ JoinWaits /\ wf' = wf
  BY SameDefinition DEF RowsInv, JoinInv
<1>2. ASSUME NEW h \in Handlers, JoinWaits', JoinsUnasked', Checked(h)' PROVE JoinInv'
  <2>1. \A g \in Handlers : g = h
    BY DEF Serial
  <2> QED BY <1>2, <2>1 DEF JoinInv
<1>3. ASSUME NEW h \in Handlers,
             \/ StartWorkflow(h)
             \/ \E s \in Steps : \E d \in Decisions(s) : CompleteStep(h, s, d)
             \/ CancelInstance(h)
      PROVE  JoinInv'
  <2>1. JoinsKept /\ Checked(h)'
    BY <1>3, RequestWaits
  <2> QED BY <1>1, <1>2, <2>1, KeptWaits
<1>4. ASSUME NEW h \in Handlers, Statement(h), Joins # {} PROVE JoinInv'
  <2>1. CASE ResetDownstream(h)
    BY <1>2, <2>1, ResetWaits
  <2>2. CASE ~ResetDownstream(h)
    <3>1. Checked(h)'
      BY <1>4, <2>2, StatementChecked
    <3>2. FireJoin(h) => JoinWaits' /\ JoinsUnasked'
      BY FireWaits
    <3>3. Revive(h) => JoinWaits' /\ JoinsUnasked'
      BY ReviveWaits
    <3>4. ~FireJoin(h) /\ ~Revive(h) => JoinsKept
      BY <1>4, <2>2, JoinStatus
    <3> QED BY <1>1, <1>2, <3>1, <3>2, <3>3, <3>4, KeptWaits
  <2> QED BY <2>1, <2>2
<1>5. ASSUME NEW h \in Handlers, Abandon(h) \/ StatementFails(h) PROVE FALSE
  BY <1>1, <1>5, NoFaults DEF Serial
<1>6. Joins = {} => JoinInv'
  BY <1>1, NoJoins
<1> QED BY <1>3, <1>4, <1>5, <1>6 DEF Next

LEMMA JoinStill ==
    ASSUME JoinInv, UNCHANGED vars
    PROVE  JoinInv'
<1>1. wf' = wf /\ status' = status /\ stack' = stack
  BY DEF vars, rows
<1>2. /\ Steps' = Steps /\ Joins' = Joins
      /\ \A s, t : RoutesTo(s, t)' = RoutesTo(s, t) /\ Predecessors(t)' = Predecessors(t)
  BY <1>1, SameWorkflow DEF RoutesTo, Predecessors
<1>3. \A h \in Handlers : Top(h)' = Top(h) /\ \A op : At(h, op)' = At(h, op)
  BY <1>1 DEF At, Idle, Top
<1>4. JoinWaits' /\ JoinsUnasked'
  BY <1>1, <1>2 DEF JoinInv, JoinWaits, JoinsUnasked
<1>5. \A h \in Handlers : Checked(h)'
  BY <1>1, <1>2, <1>3 DEF JoinInv, Checked
<1> QED BY <1>4, <1>5 DEF JoinInv

LEMMA JoinInit == Init => JoinInv
<1> SUFFICES ASSUME Init PROVE JoinInv
  OBVIOUS
<1>1. (\A s \in Steps : status[s] = "absent") /\ \A h \in Handlers : Idle(h)
  BY DEF Init, Idle
<1>2. JoinWaits /\ JoinsUnasked
  BY <1>1 DEF JoinWaits, JoinsUnasked, Joins
<1>3. \A h \in Handlers : Checked(h)
  BY <1>1 DEF Checked, At
<1> QED BY <1>2, <1>3 DEF JoinInv

\* A join has only completed when every branch into it is resolved, for any
\* definition whose joins sit among routed steps, through skipped branches,
\* rework of a branch and joins fed by joins: the cascade asks every
\* predecessor before it fires a join, and resetDownstream resets the join
\* before a step that leads to it is open again. Requests are taken one at a
\* time, none is cut short and callers keep to what their inbox offers.
THEOREM JoinWaitsHolds ==
    ASSUME Serial, ~Direct, Wired
    PROVE  Spec => []JoinWaits
<1>1. RowsInv /\ JoinInv /\ [Next]_vars => JoinInv'
  <2> SUFFICES ASSUME RowsInv, JoinInv, [Next]_vars PROVE JoinInv'
    OBVIOUS
  <2>1. Shape'
    BY RowsStep DEF RowsInv
  <2>2. CASE UNCHANGED vars
    BY <2>2, JoinStill
  <2>3. CASE Next
    BY <2>1, <2>3, JoinStep
  <2> QED BY <2>2, <2>3
<1>2. JoinInv => JoinWaits
  BY DEF JoinInv
<1> QED BY <1>1, <1>2, JoinInit, RowsCorrect, PTL DEF Spec

-----------------------------------------------------------------------------
(* The automation execution mirrors the instance it started. *)

\* The stack after the top frame was replaced, frame by frame.
LEMMA ContinueIndex ==
    ASSUME Shape, Calls, NEW h \in Handlers, ~Idle(h), NEW fs \in Seq(Frames), Continue(h, fs)
    PROVE  /\ Len(fs) \in Nat /\ Len(stack[h]) \in Nat \ {0}
           /\ DOMAIN stack[h] = 1..Len(stack[h]) /\ DOMAIN stack'[h] = 1..(Len(fs) + Len(stack[h]) - 1)
           /\ \A i \in DOMAIN stack'[h] : stack'[h][i] = IF i <= Len(fs) THEN fs[i] ELSE stack[h][i - Len(fs) + 1]
<1> DEFINE q == stack[h]
           r == fs \o Tail(q)
<1>1. q \in Seq(Frames) /\ q # <<>> /\ stack \in [Handlers -> Seq(Frames)]
  BY StackTyped DEF Shape
<1>2. stack' = [stack EXCEPT ![h] = r] /\ r = fs \o Tail(q)
  BY DEF Continue
<1>3. /\ r \in Seq(Frames)
      /\ Len(r) = Len(fs) + Len(q) - 1
      /\ Len(q) \in Nat \ {0} /\ Len(fs) \in Nat
      /\ \A i \in 1..Len(r) : r[i] = IF i <= Len(fs) THEN fs[i] ELSE q[i - Len(fs) + 1]
  <2> HIDE DEF q, r
  <2> QED BY <1>1, <1>2, Replaced
<1>4. stack'[h] = r
  <2> HIDE DEF r
  <2> QED BY <1>1, <1>2
<1> HIDE DEF r
<1>5. DOMAIN r = 1..Len(r) /\ DOMAIN q = 1..Len(q)
  BY <1>1, <1>3
<1> QED BY <1>3, <1>4, <1>5

\* Whatever is below the top stays.
LEMMA ContinueKeeps ==
    ASSUME Shape, Calls, NEW h \in Handlers, ~Idle(h), NEW fs \in Seq(Frames), Continue(h, fs)
    PROVE  Keeps(stack[h], stack'[h])
<1>1. /\ Len(fs) \in Nat /\ Len(stack[h]) \in Nat \ {0}
      /\ DOMAIN stack[h] = 1..Len(stack[h]) /\ DOMAIN stack'[h] = 1..(Len(fs) + Len(stack[h]) - 1)
      /\ \A i \in DOMAIN stack'[h] : stack'[h][i] = IF i <= Len(fs) THEN fs[i] ELSE stack[h][i - Len(fs) + 1]
  BY ContinueIndex
<1>2. ASSUME NEW j \in DOMAIN stack[h], j > 1 PROVE \E i \in DOMAIN stack'[h] : stack'[h][i] = stack[h][j]
  <2> DEFINE i == j + Len(fs) - 1
  <2>1. i \in DOMAIN stack'[h] /\ ~(i <= Len(fs)) /\ i - Len(fs) + 1 = j
    BY <1>1, <1>2
  <2> QED BY <1>1, <2>1
<1> QED BY <1>2 DEF Keeps

\* What the statements about joins push: without a completed step, and when
\* the cascade did not ask, no join fires.
LEMMA JoinsAsk ==
    ASSUME Shape, Calls, NEW h \in Handlers, NEW G \in SUBSET Frames,
           \A f \in Frames : f.op \in {"any", "joins", "reach"} \/ (f.op = "preds" /\ f.then = "any") => f \in G,
           \/ \A f \in Frames : f.op \in {"fire", "preds"} => f \in G
           \/ /\ ~ActivateJoin(h) /\ (Top(h).op = "preds" => Top(h).then = "any")
              /\ \A s \in Steps : status[s] # "completed",
           ActivateJoin(h) \/ ReadPredecessor(h) \/ NextJoin(h) \/ ReadCompleted(h)
    PROVE  Pushed(h, G)
<1> DEFINE f == Top(h)
           k == [f EXCEPT !.left = Rest(@)]
<1>1. ~Idle(h) /\ f \in Frames
  BY TopIs, StackTyped DEF ActivateJoin, ReadPredecessor, NextJoin, ReadCompleted
<1>2. ASSUME NEW g \in G, Continue(h, <<g>>) PROVE Pushed(h, G)
  <2>1. <<g>> \in Seq(G)
    OBVIOUS
  <2> QED BY <1>1, <1>2, <2>1, ContinuePushes
<1>3. Continue(h, <<>>) => Pushed(h, G)
  <2>1. <<>> \in Seq(G)
    OBVIOUS
  <2> QED BY <1>1, <2>1, ContinuePushes
<1>4. f.op \in {"preds", "any", "joins"} => k \in Frames /\ k.op = f.op /\ (f.op = "preds" => k.then = f.then)
  BY <1>1, FrameRest
<1>5. CASE ActivateJoin(h)
  <2> DEFINE g == [op |-> "preds", join |-> f.to, left |-> Predecessors(f.to), then |-> "fire"]
  <2>1. f.to \in Joins /\ Continue(h, <<g>>)
    BY <1>1, <1>5, TopIs, FrameFields DEF ActivateJoin, ReadPredecessors, Joins
  <2>2. g \in Frames /\ g.op = "preds"
    BY <2>1, AskFrame
  <2>3. \A e \in Frames : e.op \in {"fire", "preds"} => e \in G
    BY <1>5
  <2> HIDE DEF g
  <2> QED BY <1>2, <2>1, <2>2, <2>3
<1>6. CASE ReadPredecessor(h)
  <2> DEFINE g == [op |-> f.then, join |-> f.join, left |-> Predecessors(f.join)]
  <2>1. f.op = "preds" /\ f.join \in Joins /\ f.then \in {"fire", "any"}
    BY <1>1, <1>6, TopIs, FrameFields DEF ReadPredecessor
  <2>2. Continue(h, <<g>>) \/ Continue(h, <<k>>) \/ Continue(h, <<>>)
    BY <1>6 DEF ReadPredecessor
  <2>3. g \in Frames /\ g.op = f.then
    BY <2>1, AskFrame
  <2> HIDE DEF g, k
  <2>4. g \in G /\ k \in G
    BY <1>4, <2>1, <2>3
  <2> QED BY <1>2, <1>3, <2>2, <2>4
<1>7. CASE NextJoin(h)
  <2> DEFINE j == First(f.left)
             g == [op |-> "preds", join |-> j, left |-> Predecessors(j), then |-> "any"]
  <2>1. f.op = "joins" /\ f.pass \in Nat /\ f.left \subseteq Joins
    BY <1>1, <1>7, TopIs, FrameFields DEF NextJoin
  <2>2. CASE f.left = {}
    <3> DEFINE p == [op |-> "reach", pass |-> f.pass + 1]
    <3>1. Continue(h, ReconcileInstance(f.pass + 1)) \/ Continue(h, <<>>)
      BY <1>7, <2>2 DEF NextJoin
    <3>2. ReconcileInstance(f.pass + 1) = <<>> \/ ReconcileInstance(f.pass + 1) = <<p>>
      BY <2>1, ReconcilePushed
    <3>3. p \in Frames /\ p.op = "reach"
      BY <2>1 DEF Frames
    <3> HIDE DEF p
    <3>4. p \in G
      BY <3>3
    <3> QED BY <1>2, <1>3, <3>1, <3>2, <3>4
  <2>3. CASE f.left # {}
    <3>1. f.left \in SUBSET Nat
      BY <2>1, WfTyped DEF Joins
    <3>2. j \in Joins
      BY <2>1, <2>3, <3>1, FirstIn
    <3>3. g \in Frames /\ g.op = "preds" /\ g.then = "any"
      BY <3>2, AskFrame
    <3>4. Continue(h, <<g>> \o <<k>>) \/ Continue(h, <<>> \o <<k>>)
      BY <1>7, <2>3 DEF NextJoin, ReadPredecessors
    <3> HIDE DEF g, k
    <3>5. g \in G /\ k \in G
      BY <1>4, <2>1, <3>3
    <3>6. <<g>> \o <<k>> \in Seq(G) /\ <<>> \o <<k>> \in Seq(G)
      BY <3>5
    <3> QED BY <1>1, <3>4, <3>6, ContinuePushes
  <2> QED BY <2>2, <2>3
<1>8. CASE ReadCompleted(h)
  <2> DEFINE r == <<[op |-> "fire", join |-> f.join, left |-> {}]>>
                  \o <<[stack[h][2] EXCEPT !.changed = TRUE]>> \o Tail(Tail(stack[h]))
  <2>1. f.op = "any" /\ f.join \in Joins /\ f.left \subseteq Steps /\ At(h, "any")
    BY <1>1, <1>8, TopIs, FrameFields DEF ReadCompleted
  <2>2. \/ Continue(h, <<>>) \/ Continue(h, <<k>>)
        \/ f.left # {} /\ status[First(f.left)] = "completed" /\ stack' = [stack EXCEPT ![h] = r]
    BY <1>8 DEF ReadCompleted
  <2>3. k \in G
    BY <1>4, <2>1
  <2>4. ASSUME f.left # {}, status[First(f.left)] = "completed", stack' = [stack EXCEPT ![h] = r]
        PROVE  Pushed(h, G)
    <3>1. First(f.left) \in Steps
      <4>1. f.left \in SUBSET Nat
        BY <2>1, WfTyped
      <4> QED BY <2>1, <2>4, <4>1, FirstIn
    <3>2. \A e \in Frames : e.op \in {"fire", "preds"} => e \in G
      BY <2>4, <3>1
    <3>3. /\ r \in Seq(Frames) /\ Len(r) = Len(stack[h]) /\ Len(r) \in Nat
          /\ r[1] = [op |-> "fire", join |-> f.join, left |-> {}]
          /\ r[2].op = "joins" /\ \A i \in 3..Len(r) : r[i] = stack[h][i]
      BY <2>1, CompletedStack
    <3>4. r[1].op = "fire"
      BY <3>3
    <3> HIDE DEF r
    <3>5. stack'[h] = r /\ \A g \in Handlers \ {h} : stack'[g] = stack[g]
      BY <2>4 DEF Shape
    <3>6. DOMAIN r = 1..Len(r) /\ DOMAIN stack[h] = 1..Len(r)
      BY <3>3, StackTyped
    <3>7. ASSUME NEW i \in DOMAIN r
          PROVE  r[i] \in G \/ \E m \in DOMAIN stack[h] : m > 1 /\ r[i] = stack[h][m]
      <4>1. CASE i \in {1, 2}
        <5>1. r[i] \in Frames /\ r[i].op \in {"fire", "joins"}
          BY <3>3, <3>4, <4>1
        <5> QED BY <3>2, <5>1
      <4>2. CASE i \notin {1, 2}
        <5>1. i \in 3..Len(r) /\ i > 1
          BY <3>3, <3>6, <4>2
        <5> QED BY <3>3, <3>6, <5>1
      <4> QED BY <4>1, <4>2
    <3> QED BY <3>5, <3>7 DEF Pushed
  <2> HIDE DEF k
  <2> QED BY <1>2, <1>3, <2>2, <2>3, <2>4
<1> QED BY <1>5, <1>6, <1>7, <1>8

\* The frames of a cascade that goes on.
Moving ==
    {f \in Frames : f.op \notin {"idle", "skip", "end", "endexec", "started", "record", "drive", "fail", "failexec"}}

LEMMA PlainMoving ==
    ASSUME NEW fs \in Seq(Plain),
           \A i \in DOMAIN fs : fs[i].op \in {"auto", "fallback", "activate", "reach", "sweep", "joins", "rework"}
    PROVE  fs \in Seq(Moving)
<1>1. \A i \in DOMAIN fs : fs[i] \in Moving
  BY DEF Plain, Moving
<1> QED BY <1>1

LEMMA AutoMoving ==
    ASSUME Shape, NEW s \in Steps
    PROVE  ProcessAutoStep(s) \in Seq(Moving)
<1>1. \A i \in DOMAIN ProcessAutoStep(s) : ProcessAutoStep(s)[i].op = "auto"
  BY AutoPushed
<1> QED BY <1>1, AutoPushed, PlainMoving

LEMMA ActivateMoving ==
    ASSUME Shape, NEW s \in Steps, NEW d, NEW next \in ActivateNextSteps(s, d)
    PROVE  next \in Seq(Moving)
<1>1. \A i \in DOMAIN next : next[i].op \in {"fallback", "activate"}
  <2>1. CASE next = <<[op |-> "fallback"]>>
    BY <2>1
  <2>2. CASE \A i \in DOMAIN next : next[i].op = "activate"
    BY <2>2
  <2> QED BY <2>1, <2>2, ActivatePushed
<1> QED BY <1>1, ActivatePushed, PlainMoving

\* Only a step that is sent back too often pushes the end of the run by failure.
LEMMA WorkPushes ==
    ASSUME Shape, Calls, NEW h \in Handlers, Statement(h), Kind(Top(h)) = "work", ~ReadRework(h)
    PROVE  Pushed(h, Moving)
<1> DEFINE f == Top(h)
<1>1. ~Idle(h) /\ f \in Frames /\ Moving \subseteq Frames
  <2>1. ~Idle(h)
    BY InstanceMoves
  <2> QED BY <2>1, StackTyped DEF Moving
<1>2. f.op \notin {"idle", "skip", "end", "endexec", "started", "record"}
  BY KindIs
<1>3. ASSUME NEW fs \in Seq(Moving), Continue(h, fs) PROVE Pushed(h, Moving)
  BY <1>1, <1>3, ContinuePushes
<1>4. ASSUME NEW g \in Moving, Continue(h, <<g>>) PROVE Pushed(h, Moving)
  <2>1. <<g>> \in Seq(Moving)
    OBVIOUS
  <2> QED BY <1>3, <1>4, <2>1
<1>5. Continue(h, <<>>) => Pushed(h, Moving)
  <2>1. <<>> \in Seq(Moving)
    OBVIOUS
  <2> QED BY <1>3, <2>1
<1>6. CASE Fallback(h) \/ FailInstance(h) \/ FailExecution(h) \/ ResetDownstream(h) \/ DriveRecords(h)
  BY <1>5, <1>6 DEF Fallback, FailInstance, FailExecution, ResetDownstream, DriveRecords
<1>7. CASE ActivateJoin(h) \/ ReadPredecessor(h) \/ NextJoin(h) \/ ReadCompleted(h)
  <2>1. \A g \in Frames : g.op \in {"any", "joins", "reach", "preds", "fire"} => g \in Moving
    BY DEF Moving
  <2> QED BY <1>1, <1>7, <2>1, JoinsAsk
<1>8. CASE CreateStep(h)
  <2> DEFINE F == {g \in Frames : g.op = "create" /\ g.step = Top(h).step + 1}
  <2>1. Pushed(h, F) /\ F \subseteq Moving
    BY <1>8, CreatePushes DEF Moving
  <2> HIDE DEF F
  <2> QED BY <2>1, PushedMore
<1>9. CASE Activate(h)
  <2> DEFINE g == [op |-> "rework", step |-> f.to]
  <2>1. f.op = "activate" /\ f.to \in Steps \ Joins
    BY <1>1, <1>9, TopIs, FrameFields DEF Activate, Joins
  <2>2. g \in Moving
    <3>1. g \in Frames /\ g.op = "rework"
      BY <2>1 DEF Frames
    <3> HIDE DEF g
    <3> QED BY <3>1 DEF Moving
  <2>3. Continue(h, <<g>>) \/ Continue(h, ProcessAutoStep(f.to))
    BY <1>9 DEF Activate
  <2>4. ProcessAutoStep(f.to) \in Seq(Moving)
    BY <2>1, AutoMoving
  <2> HIDE DEF g
  <2> QED BY <1>3, <1>4, <2>2, <2>3, <2>4
<1>10. CASE FireJoin(h)
  <2>1. f.join \in Steps
    BY <1>1, <1>10, TopIs, FrameFields DEF FireJoin, Joins
  <2>2. PICK next \in ActivateNextSteps(f.join, "complete") : Continue(h, next)
    BY <1>10 DEF FireJoin
  <2> QED BY <1>3, <2>1, <2>2, ActivateMoving
<1>11. CASE Revive(h)
  <2>1. f.step \in Steps /\ Continue(h, ProcessAutoStep(f.step))
    BY <1>1, <1>11, TopIs, FrameFields DEF Revive
  <2> QED BY <1>3, <2>1, AutoMoving
<1>12. CASE RunAutoStep(h)
  <2>1. f.step \in Steps
    BY <1>1, <1>12, TopIs, FrameFields DEF RunAutoStep
  <2>2. Continue(h, <<>>) \/ \E d : \E next \in ActivateNextSteps(f.step, d) : Continue(h, next)
    BY <1>12 DEF RunAutoStep
  <2>3. ASSUME NEW d, NEW next \in ActivateNextSteps(f.step, d) PROVE next \in Seq(Moving)
    BY <2>1, ActivateMoving
  <2> QED BY <1>3, <1>5, <2>2, <2>3
<1>13. CASE ReadReachable(h)
  <2> DEFINE g == [op |-> "sweep", pass |-> f.pass, reach |-> Reachable]
  <2>1. f.op = "reach" /\ f.pass \in Nat /\ Continue(h, <<g>>)
    BY <1>1, <1>13, TopIs, FrameFields DEF ReadReachable, SweepFrom
  <2>2. g \in Frames /\ g.op = "sweep"
    BY <2>1, ReachableTyped DEF Frames
  <2> HIDE DEF g
  <2>3. g \in Moving
    BY <2>2 DEF Moving
  <2> QED BY <1>4, <2>1, <2>3
<1>14. CASE Sweep(h)
  <2>1. f.op = "sweep" /\ f.pass \in Nat /\ f.reach \subseteq Steps
    BY <1>1, <1>14, TopIs, FrameFields DEF Sweep
  <2>2. PICK changed \in BOOLEAN : Continue(h, FireJoins(f, changed))
    BY <1>14 DEF Sweep
  <2> DEFINE g == [op |-> "joins", pass |-> f.pass, changed |-> changed, left |-> Joins \cap f.reach]
  <2>3. g \in Frames /\ g.op = "joins" /\ Continue(h, <<g>>)
    BY <2>1, <2>2 DEF Frames, FireJoins
  <2> HIDE DEF g
  <2>4. g \in Moving
    BY <2>3 DEF Moving
  <2> QED BY <1>4, <2>3, <2>4
<1>15. ~ReadIdle(h) /\ ~SkipPending(h) /\ ~EndInstance(h) /\ ~EndExecution(h) /\ ~ReadMirror(h) /\ ~RecordExecution(h)
  BY <1>2, TopIs DEF ReadIdle, SkipPending, EndInstance, EndExecution, ReadMirror, RecordExecution
<1> QED BY <1>6, <1>7, <1>8, <1>9, <1>10, <1>11, <1>12, <1>13, <1>14, <1>15 DEF Statement

\* A frame that closes or fails the run, or ends its start.
Marks == {"fail", "failexec", "end", "endexec", "started", "record"}

\* What a statement can add of those.
LEMMA MarksOld ==
    ASSUME Shape, Calls, NEW h \in Handlers, Statement(h),
           NEW i \in DOMAIN stack'[h], stack'[h][i].op \in Marks
    PROVE  \/ \E k \in DOMAIN stack[h] : k > 1 /\ stack'[h][i] = stack[h][k]
           \/ ReadRework(h) /\ stack'[h][i].op \in {"fail", "failexec"}
           \/ ReadIdle(h) /\ stack'[h][i].op \in {"end", "endexec"}
           \/ ReadMirror(h) /\ stack'[h][i].op = "record"
<1> DEFINE old == \E k \in DOMAIN stack[h] : k > 1 /\ stack'[h][i] = stack[h][k]
           On(ops) == {f \in Frames : f.op \in ops}
<1>1. ~Idle(h) /\ Top(h) \in Frames
  <2>1. ~Idle(h)
    BY InstanceMoves
  <2> QED BY <2>1, StackTyped
<1>2. ASSUME NEW ops, NEW fs \in Seq(On(ops)), Continue(h, fs) PROVE stack'[h][i].op \in ops \/ old
  <2>1. On(ops) \subseteq Frames /\ \A f \in On(ops) : f.op \in ops
    OBVIOUS
  <2> HIDE DEF On
  <2>2. Pushed(h, On(ops))
    BY <1>1, <1>2, <2>1, ContinuePushes
  <2> QED BY <2>1, <2>2 DEF Pushed
<1>3. Continue(h, <<>>) => old
  <2>1. <<>> \in Seq(On({}))
    OBVIOUS
  <2> HIDE DEF On
  <2> QED BY <1>2, <2>1
<1>4. CASE Kind(Top(h)) = "work" /\ ~ReadRework(h)
  <2>1. Pushed(h, Moving)
    BY <1>4, WorkPushes
  <2> QED BY <2>1 DEF Pushed, Moving, Marks
<1>5. CASE ReadRework(h)
  <2> DEFINE s == Top(h).step
             a == [op |-> "reset", step |-> s]
             b == [op |-> "revive", step |-> s]
             c == [op |-> "fail"]
             d == [op |-> "failexec"]
             O == {"reset", "revive", "fail", "failexec"}
  <2>1. Continue(h, <<>>) \/ Continue(h, <<c, d>>) \/ Continue(h, <<a, b>>)
    BY <1>5 DEF ReadRework
  <2>2. a \in On(O) /\ b \in On(O) /\ c \in On(O) /\ d \in On(O)
    <3>1. s \in Steps \ Joins
      BY <1>1, <1>5, TopIs, FrameFields DEF ReadRework
    <3>2. a \in Frames /\ b \in Frames
      BY <3>1, ReworkFrames
    <3>3. c \in Frames /\ d \in Frames
      BY DEF Frames
    <3> QED BY <3>2, <3>3
  <2> HIDE DEF a, b, c, d
  <2>3. <<a, b>> \in Seq(On(O)) /\ <<c, d>> \in Seq(On(O))
    <3> HIDE DEF On, O
    <3> QED BY <2>2
  <2>4. stack'[h][i].op \in O \/ old
    <3> HIDE DEF On, O, old
    <3> QED BY <1>2, <1>3, <2>1, <2>3
  <2> QED BY <1>5, <2>4 DEF Marks
<1>6. CASE ReadIdle(h)
  <2> DEFINE a == [op |-> "skip"]
             b == [op |-> "end"]
             c == [op |-> "endexec"]
             O == {"skip", "end", "endexec"}
  <2>1. Continue(h, <<>>) \/ Continue(h, <<a, b, c>>)
    BY <1>6 DEF ReadIdle, CloseInstance
  <2>2. a \in On(O) /\ b \in On(O) /\ c \in On(O)
    BY DEF Frames
  <2> HIDE DEF a, b, c
  <2>3. <<a, b, c>> \in Seq(On(O))
    <3> HIDE DEF On, O
    <3> QED BY <2>2
  <2>4. stack'[h][i].op \in O \/ old
    <3> HIDE DEF On, O, old
    <3> QED BY <1>2, <1>3, <2>1, <2>3
  <2> QED BY <1>6, <2>4 DEF Marks
<1>7. CASE SkipPending(h) \/ EndExecution(h) \/ DriveRecords(h) \/ RecordExecution(h)
  BY <1>3, <1>7 DEF SkipPending, EndExecution, DriveRecords, RecordExecution
<1>8. CASE EndInstance(h)
  <2> DEFINE a == [op |-> "drive", event |-> "finished"]
             O == {"drive"}
  <2>1. Continue(h, <<>>) \/ Continue(h, <<a>>)
    BY <1>8 DEF EndInstance, Drive
  <2>2. a \in On(O)
    BY DEF Frames
  <2> HIDE DEF a
  <2>3. <<a>> \in Seq(On(O))
    <3> HIDE DEF On, O
    <3> QED BY <2>2
  <2>4. stack'[h][i].op \in O \/ old
    <3> HIDE DEF On, O, old
    <3> QED BY <1>2, <1>3, <2>1, <2>3
  <2> QED BY <2>4 DEF Marks
<1>9. CASE ReadMirror(h)
  <2>1. PICK as \in {"running", "cancelled", "completed"} : Continue(h, RecordMirror(as))
    BY <1>9 DEF ReadMirror
  <2> DEFINE a == [op |-> "record", status |-> as]
             O == {"record"}
  <2>2. Continue(h, <<>>) \/ Continue(h, <<a>>)
    BY <2>1 DEF RecordMirror
  <2>3. a \in On(O)
    BY DEF Frames
  <2> HIDE DEF a
  <2>4. <<a>> \in Seq(On(O))
    <3> HIDE DEF On, O
    <3> QED BY <2>3
  <2>5. stack'[h][i].op \in O \/ old
    <3> HIDE DEF On, O, old
    <3> QED BY <1>2, <1>3, <2>2, <2>4
  <2> QED BY <1>9, <2>5
<1>10. CASE Kind(Top(h)) # "work"
  <2>1. Top(h).op \in {"idle", "skip", "end", "endexec", "started", "record", "drive"}
    BY <1>10, KindIs
  <2> QED BY <1>6, <1>7, <1>8, <1>9, <2>1, OpOf DEF Statement
<1> QED BY <1>4, <1>5, <1>10

\* What a start and a decision put on the stack.
LEMMA StartFrames ==
    ASSUME Shape, NEW h \in Handlers, StartWorkflow(h), NEW G \in SUBSET Frames,
           \A f \in Frames : f.op \in {"create", "drive", "reach", "idle", "started"} => f \in G,
           IsAuto(1) => \A f \in Frames : f.op = "auto" => f \in G
    PROVE  \A i \in DOMAIN stack'[h] : stack'[h][i] \in G
<1> DEFINE a == [op |-> "create", step |-> 1]
           b == [op |-> "drive", event |-> "started"]
           c == [op |-> "idle"]
           d == [op |-> "started"]
           e == ProcessAutoStep(1)
           r == ReconcileInstance(1)
           q == <<a>> \o <<b>> \o e \o r \o <<c>> \o <<d>>
<1>1. stack' = [stack EXCEPT ![h] = q]
  BY DEF StartWorkflow, Request, Drive, CloseInstanceIfIdle
<1>2. 1 \in Steps /\ 1 \in Nat
  BY WfTyped
<1>3. a \in G /\ b \in G /\ c \in G /\ d \in G
  <2>1. a \in Frames /\ b \in Frames /\ c \in Frames /\ d \in Frames
    BY <1>2 DEF Frames
  <2> QED BY <2>1
<1>4. e \in Seq(G)
  <2>1. CASE IsAuto(1)
    <3> DEFINE g == [op |-> "auto", step |-> 1]
    <3>1. g \in G
      <4>1. g \in Frames
        BY <1>2, <2>1 DEF Frames
      <4> QED BY <2>1, <4>1
    <3>2. e = <<g>>
      BY <2>1 DEF ProcessAutoStep
    <3> HIDE DEF g, e
    <3>3. <<g>> \in Seq(G)
      BY <3>1
    <3> QED BY <3>2, <3>3
  <2>2. CASE ~IsAuto(1)
    BY <2>2 DEF ProcessAutoStep
  <2> QED BY <2>1, <2>2
<1>5. r \in Seq(G)
  <2> DEFINE g == [op |-> "reach", pass |-> 1]
  <2>1. g \in G
    <3>1. g \in Frames
      BY DEF Frames
    <3> QED BY <3>1
  <2>2. r = <<>> \/ r = <<g>>
    BY <1>2, ReconcilePushed
  <2> HIDE DEF g, r
  <2>3. <<>> \in Seq(G) /\ <<g>> \in Seq(G)
    BY <2>1
  <2> QED BY <2>2, <2>3
<1>6. q \in Seq(G)
  <2> HIDE DEF a, b, c, d, e, r
  <2> QED BY <1>3, <1>4, <1>5
<1>7. stack'[h] = q
  <2> HIDE DEF q
  <2> QED BY <1>1 DEF Shape
<1> HIDE DEF q
<1> QED BY <1>6, <1>7

LEMMA DecisionFrames ==
    ASSUME Shape, NEW h \in Handlers, NEW s \in Steps, NEW d \in Decisions(s), CompleteStep(h, s, d)
    PROVE  \A i \in DOMAIN stack'[h] : stack'[h][i].op \notin Marks
<1> DEFINE G == {f \in Frames : f.op \notin Marks}
           c == [op |-> "idle"]
<1>1. PICK next \in ActivateNextSteps(s, d) : Request(h, next \o ReconcileInstance(1) \o <<c>>)
  BY DEF CompleteStep, CloseInstanceIfIdle
<1> DEFINE r == ReconcileInstance(1)
           q == next \o r \o <<c>>
<1>2. next \in Seq(G)
  <2>1. Moving \subseteq G
    BY DEF Moving, Marks
  <2>2. next \in Seq(Moving)
    BY ActivateMoving
  <2> HIDE DEF G
  <2> QED BY <2>1, <2>2
<1>3. r \in Seq(G)
  <2> DEFINE g == [op |-> "reach", pass |-> 1]
  <2>1. g \in G
    BY DEF Frames, Marks
  <2>2. r = <<>> \/ r = <<g>>
    <3>1. 1 \in Nat
      OBVIOUS
    <3> QED BY <3>1, ReconcilePushed
  <2> HIDE DEF g, r, G
  <2>3. <<>> \in Seq(G) /\ <<g>> \in Seq(G)
    BY <2>1
  <2> QED BY <2>2, <2>3
<1>4. c \in G
  BY DEF Frames, Marks
<1>5. q \in Seq(G)
  <2> HIDE DEF c, r, G
  <2> QED BY <1>2, <1>3, <1>4
<1>6. stack'[h] = q
  <2>1. stack' = [stack EXCEPT ![h] = q]
    BY <1>1 DEF Request
  <2> HIDE DEF q
  <2> QED BY <2>1 DEF Shape
<1> HIDE DEF q
<1> QED BY <1>5, <1>6

Has(q, op) == \E i \in DOMAIN q : q[i].op = op

\* What an execution tells of its instance: how it is, except that one that
\* failed in the cascade of its own start is recorded as completed.
Mirror(e) == wf.rule /\ (e = instance \/ (IsAuto(1) /\ e = "completed" /\ instance = "failed"))

\* No execution is recorded before the start of the run returns.
Unrecorded ==
    /\ instance = "absent" => execution = "none"
    /\ \A h \in Handlers : Holds(stack[h], "last") => execution = "none"

\* What ends the run ends its execution.
EndsBoth ==
    \A h \in Handlers :
        /\ Has(stack[h], "end") => Has(stack[h], "endexec")
        /\ Has(stack[h], "endexec") /\ ~Has(stack[h], "end") => instance # "running"

\* What fails the run fails its execution in the next statement.
FailsBoth ==
    \A h \in Handlers : \A i \in DOMAIN stack[h] :
        /\ stack[h][i].op = "fail" => i = 1 /\ 2 \in DOMAIN stack[h] /\ stack[h][2].op = "failexec"
        /\ stack[h][i].op = "failexec" => (i = 1 /\ instance # "running") \/ (i = 2 /\ stack[h][1].op = "fail")

\* What is about to be recorded is how the instance is.
ReadAtEnd ==
    \A h \in Handlers : \A i \in DOMAIN stack[h] :
        stack[h][i].op = "record" => i = 1 /\ Mirror(stack[h][i].status)

Mirrored ==
    execution # "none" =>
        \/ Mirror(execution)
        \/ /\ wf.rule /\ execution = "running" /\ instance = "completed"
           /\ \E h \in Handlers : Has(stack[h], "endexec")
        \/ /\ wf.rule /\ execution = "running" /\ instance = "failed"
           /\ \E h \in Handlers : At(h, "failexec")

\* The frames of a start whose first step waits for a person.
Opened ==
    {f \in Frames :
        /\ f.op \in {"create", "drive", "reach", "sweep", "joins", "preds", "any", "idle", "started", "record"}
        /\ f.op = "preds" => f.then = "any"}

\* Such a start finishes no step, so the cascade moves nothing on.
Starts ==
    ~IsAuto(1) => \A h \in Handlers :
        Holds(stack[h], "last") =>
            /\ instance = "running"
            /\ \A i \in DOMAIN stack[h] : stack[h][i] \in Opened
            /\ \A s \in Steps : status[s] \notin Finished
            /\ status[1] = "in_progress" \/ (At(h, "create") /\ Top(h).step = 1)

\* The last frame of a request stands alone when it comes up.
LEMMA LastAlone ==
    ASSUME Shape, Calls, Phases, NEW h \in Handlers, ~Idle(h), Kind(Top(h)) = "last"
    PROVE  Len(stack[h]) = 1 /\ DOMAIN stack[h] = {1}
<1>1. \A i \in DOMAIN stack[h] : ~(i > 1)
  BY TopPhased, BelowIs
<1>2. stack[h] \in Seq(Frames) /\ Len(stack[h]) \in Nat \ {0} /\ DOMAIN stack[h] = 1..Len(stack[h])
  BY StackTyped
<1>3. Len(stack[h]) \in DOMAIN stack[h]
  BY <1>2
<1>4. ~(Len(stack[h]) > 1)
  BY <1>1, <1>3
<1>5. \A n \in Nat \ {0} : ~(n > 1) => n = 1
  OBVIOUS
<1>6. Len(stack[h]) = 1
  BY <1>2, <1>4, <1>5
<1> QED BY <1>2, <1>6

\* A request other than a start has no such frame to begin with.
LEMMA RequestMarks ==
    ASSUME Shape, Calls, Phases, NEW h \in Handlers,
           CancelInstance(h) \/ \E s \in Steps : \E d \in Decisions(s) : CompleteStep(h, s, d)
    PROVE  Idle(h) /\ \A i \in DOMAIN stack'[h] : stack'[h][i].op \notin Marks
<1>1. CASE CancelInstance(h)
  <2>1. stack'[h] = <<[op |-> "drive", event |-> "cancelled"]>>
    BY <1>1, CancelPhased
  <2> QED BY <1>1, <2>1 DEF CancelInstance, Request, Marks
<1>2. ASSUME NEW s \in Steps, NEW d \in Decisions(s), CompleteStep(h, s, d)
      PROVE  Idle(h) /\ \A i \in DOMAIN stack'[h] : stack'[h][i].op \notin Marks
  BY <1>2, DecisionFrames DEF CompleteStep, Request
<1> QED BY <1>1, <1>2

LEMMA StartMarks ==
    ASSUME Shape, NEW h \in Handlers, StartWorkflow(h)
    PROVE  \A i \in DOMAIN stack'[h] : stack'[h][i].op \notin Marks \ {"started"}
<1> DEFINE G == {f \in Frames : f.op \notin Marks \ {"started"}}
<1>1. /\ G \in SUBSET Frames
      /\ \A f \in Frames : f.op \in {"create", "drive", "reach", "idle", "started", "auto"} => f \in G
  BY DEF Marks
<1>2. \A f \in G : f.op \notin Marks \ {"started"}
  OBVIOUS
<1> HIDE DEF G
<1> QED BY <1>1, <1>2, StartFrames

LEMMA LastKept ==
    ASSUME Shape, Calls, Phases, NEW h \in Handlers, Statement(h), Holds(stack'[h], "last")
    PROVE  Holds(stack[h], "last") /\ ~RecordExecution(h)
<1>1. PICK i \in DOMAIN stack'[h] : stack'[h][i].op \in {"started", "record"}
  BY KindIs DEF Holds
<1>2. ~Idle(h)
  BY InstanceMoves
<1>3. 1 \in DOMAIN stack[h] /\ stack[h][1] = Top(h)
  BY <1>2, TopPhased
<1>4. CASE \E k \in DOMAIN stack[h] : k > 1 /\ stack'[h][i] = stack[h][k]
  <2>1. PICK k \in DOMAIN stack[h] : k > 1 /\ stack'[h][i] = stack[h][k]
    BY <1>4
  <2>2. Kind(stack[h][k]) = "last"
    BY <1>1, <2>1, KindIs
  <2>3. ASSUME RecordExecution(h) PROVE FALSE
    <3>1. Kind(Top(h)) = "last"
      BY <2>3, TopIs, KindIs DEF RecordExecution
    <3> QED BY <1>2, <2>1, <3>1, LastAlone
  <2> QED BY <2>2, <2>3 DEF Holds
<1>5. CASE ReadMirror(h)
  <2>1. Kind(Top(h)) = "last" /\ Top(h).op = "started"
    BY <1>5, TopIs, KindIs DEF ReadMirror
  <2> QED BY <1>3, <2>1, TopIs DEF Holds, RecordExecution
<1> QED BY <1>1, <1>4, <1>5, MarksOld DEF Marks

LEMMA ExecutionMoves ==
    ASSUME NEW h, Statement(h)
    PROVE  /\ execution' # execution => \/ EndExecution(h) /\ execution = "running" /\ execution' = "completed"
                                        \/ FailExecution(h) /\ execution = "running" /\ execution' = "failed"
                                        \/ RecordExecution(h)
           /\ instance' # instance => \/ EndInstance(h) /\ instance = "running" /\ instance' = "completed"
                                      \/ FailInstance(h) /\ instance = "running" /\ instance' = "failed"
<1>1. CASE EndExecution(h) \/ FailExecution(h) \/ RecordExecution(h) \/ EndInstance(h) \/ FailInstance(h)
  BY <1>1 DEF EndExecution, FailExecution, RecordExecution, EndInstance, FailInstance, MayEnd
<1>2. CASE ~(EndExecution(h) \/ FailExecution(h) \/ RecordExecution(h) \/ EndInstance(h) \/ FailInstance(h))
  <2>1. UNCHANGED <<execution, instance>>
    BY <1>2 DEF Statement, CreateStep, Fallback, Activate, ActivateJoin, ReadPredecessor, FireJoin, ReadRework,
       ResetDownstream, Revive, RunAutoStep, ReadReachable, Sweep, NextJoin, ReadCompleted, ReadIdle, SkipPending,
       DriveRecords, ReadMirror
  <2> QED BY <2>1
<1> QED BY <1>1, <1>2

LEMMA UnrecordedStep ==
    ASSUME Serial, Shape, Calls, Phases, Inserting, Unrecorded, Next
    PROVE  Unrecorded'
<1>1. PICK h \in Handlers : StepKinds(h) /\ \A g \in Handlers : g = h
  BY SerialSteps
<1>2. instance' # "absent"
  BY InstanceThere
<1> SUFFICES ASSUME Holds(stack'[h], "last") PROVE execution' = "none"
  BY <1>1, <1>2 DEF Unrecorded
<1>3. CASE StartWorkflow(h)
  BY <1>3 DEF StartWorkflow, Unrecorded
<1>4. CASE CancelInstance(h) \/ \E s \in Steps : \E d \in Decisions(s) : CompleteStep(h, s, d)
  <2>1. PICK i \in DOMAIN stack'[h] : stack'[h][i].op \in {"started", "record"}
    BY KindIs DEF Holds
  <2> QED BY <1>4, <2>1, RequestMarks DEF Marks
<1>5. CASE Statement(h)
  <2>1. Holds(stack[h], "last") /\ ~RecordExecution(h)
    BY <1>5, LastKept
  <2>2. execution = "none"
    BY <2>1 DEF Unrecorded
  <2> QED BY <1>5, <2>1, <2>2, ExecutionMoves
<1>6. ReadIdle(h) \/ SkipPending(h) => Statement(h)
  BY DEF Statement
<1> QED BY <1>1, <1>3, <1>4, <1>5, <1>6 DEF StepKinds

LEMMA EndsBothStep ==
    ASSUME Serial, Shape, Calls, Phases, EndsBoth, Next
    PROVE  EndsBoth'
<1>1. PICK h \in Handlers : StepKinds(h) /\ \A g \in Handlers : g = h
  BY SerialSteps
<1> DEFINE P == /\ Has(stack'[h], "end") => Has(stack'[h], "endexec")
                /\ Has(stack'[h], "endexec") /\ ~Has(stack'[h], "end") => instance' # "running"
<1> SUFFICES P
  BY <1>1 DEF EndsBoth
<1>2. (\A i \in DOMAIN stack'[h] : stack'[h][i].op \notin {"end", "endexec"}) => P
  BY DEF Has
<1>3. CASE StartWorkflow(h)
  BY <1>2, <1>3, StartMarks DEF Marks
<1>4. CASE CancelInstance(h) \/ \E s \in Steps : \E d \in Decisions(s) : CompleteStep(h, s, d)
  BY <1>2, <1>4, RequestMarks DEF Marks
<1>5. CASE Statement(h)
  <2>1. ~Idle(h)
    BY <1>5, InstanceMoves
  <2>2. /\ 1 \in DOMAIN stack[h] /\ stack[h][1] = Top(h) /\ DOMAIN stack[h] \subseteq Nat \ {0}
        /\ \A i \in DOMAIN stack[h] : i > 1 => Kind(stack[h][i]) \in Below(Kind(Top(h)))
    BY <2>1, TopPhased
  <2>3. CASE ReadIdle(h) /\ Continue(h, CloseInstance)
    <3> DEFINE fs == CloseInstance
    <3>1. fs \in Seq(Frames) /\ Len(fs) = 3 /\ fs[2].op = "end" /\ fs[3].op = "endexec"
      <4>1. [op |-> "skip"] \in Frames /\ [op |-> "end"] \in Frames /\ [op |-> "endexec"] \in Frames
        BY DEF Frames
      <4> QED BY <4>1 DEF CloseInstance
    <3> HIDE DEF fs
    <3>2. Continue(h, fs)
      BY <2>3 DEF fs
    <3>3. /\ Len(stack[h]) \in Nat \ {0} /\ DOMAIN stack'[h] = 1..(3 + Len(stack[h]) - 1)
          /\ \A i \in DOMAIN stack'[h] : stack'[h][i] = IF i <= 3 THEN fs[i] ELSE stack[h][i - 3 + 1]
      BY <2>1, <3>1, <3>2, ContinueIndex
    <3>4. 2 \in DOMAIN stack'[h] /\ 3 \in DOMAIN stack'[h]
      BY <3>3
    <3>5. stack'[h][2].op = "end" /\ stack'[h][3].op = "endexec"
      BY <3>1, <3>3, <3>4
    <3> QED BY <3>4, <3>5 DEF Has
  <2>4. CASE ReadIdle(h) /\ Continue(h, <<>>)
    <3>1. \A i \in DOMAIN stack'[h] : Kind(stack'[h][i]) \in Below(Kind(Top(h)))
      BY <2>1, <2>4, PopPhased
    <3>2. Kind(Top(h)) = "idle"
      BY <2>4, TopIs, KindIs DEF ReadIdle
    <3> QED BY <1>2, <3>1, <3>2, BelowIs, KindIs
  <2>5. CASE SkipPending(h)
    <3>1. Continue(h, <<>>) /\ Top(h).op = "skip"
      BY <2>5, TopIs DEF SkipPending
    <3>2. Keeps(stack[h], stack'[h]) /\ Holds(stack'[h], "end")
      BY <2>1, <2>5, <3>1, PopPhased, SkipPhased
    <3>3. Has(stack'[h], "end")
      BY <3>2, KindIs DEF Holds, Has
    <3>4. Has(stack[h], "end")
      <4>1. PICK i \in DOMAIN stack'[h] : stack'[h][i].op = "end"
        BY <3>3 DEF Has
      <4> QED BY <1>5, <2>5, <3>1, <4>1, MarksOld, TopIs DEF Marks, Has, ReadIdle
    <3>5. PICK m \in DOMAIN stack[h] : stack[h][m].op = "endexec"
      BY <3>4 DEF EndsBoth, Has
    <3>6. m > 1
      BY <2>2, <3>1, <3>5
    <3>7. Has(stack'[h], "endexec")
      BY <3>2, <3>5, <3>6 DEF Keeps, Has
    <3> QED BY <3>3, <3>7
  <2>6. CASE Kind(Top(h)) = "work"
    <3>1. \A i \in DOMAIN stack'[h] : Kind(stack'[h][i]) \in {"work", "idle", "last"}
      BY <1>5, <2>6, WorkStatements DEF Worked
    <3> QED BY <1>2, <3>1, KindIs
  <2>7. CASE Kind(Top(h)) \in {"end", "rest", "last"}
    <3>1. \A i \in DOMAIN stack'[h] : Kind(stack'[h][i]) \in {"rest", "last"}
      BY <1>5, <2>7, RestPhased
    <3>2. ~Has(stack'[h], "end")
      BY <3>1, KindIs DEF Has
    <3>3. ASSUME Has(stack'[h], "endexec") PROVE instance' # "running"
      <4>1. PICK i \in DOMAIN stack'[h] : stack'[h][i].op = "endexec"
        BY <3>3 DEF Has
      <4>2. Top(h).op \notin {"idle", "rework"}
        BY <2>7, KindIs
      <4>3. PICK k \in DOMAIN stack[h] : k > 1 /\ stack[h][k].op = "endexec"
        BY <1>5, <4>1, <4>2, MarksOld, TopIs DEF Marks, ReadIdle, ReadRework
      <4>4. CASE Kind(Top(h)) = "end"
        <5>1. EndInstance(h)
          BY <1>5, <4>4, KindIs, EndStatement
        <5> QED BY <5>1 DEF EndInstance, MayEnd
      <4>5. CASE Kind(Top(h)) = "rest"
        <5>1. ~Has(stack[h], "end")
          <6>1. ASSUME NEW m \in DOMAIN stack[h], stack[h][m].op = "end" PROVE FALSE
            <7>1. Kind(stack[h][m]) = "end"
              BY <6>1, KindIs
            <7>2. m = 1 \/ m > 1
              BY <2>2
            <7> QED BY <2>2, <4>5, <7>1, <7>2, BelowIs
          <6> QED BY <6>1 DEF Has
        <5>2. instance # "running"
          BY <4>3, <5>1 DEF EndsBoth, Has
        <5> QED BY <1>5, <5>2, InstanceMoves
      <4>6. CASE Kind(Top(h)) = "last"
        BY <2>1, <4>3, <4>6, LastAlone
      <4> QED BY <2>7, <4>4, <4>5, <4>6
    <3> QED BY <3>2, <3>3
  <2>8. CASE Kind(Top(h)) \in {"idle", "skip"}
    <3>1. ReadIdle(h) \/ SkipPending(h)
      <4>1. Top(h).op \in {"idle", "skip"}
        BY <2>8, KindIs
      <4> QED BY <1>5, <4>1, OpOf DEF Statement
    <3>2. ReadIdle(h) => Continue(h, <<>>) \/ Continue(h, CloseInstance)
      BY DEF ReadIdle
    <3> QED BY <2>3, <2>4, <2>5, <3>1, <3>2
  <2> QED BY <2>6, <2>7, <2>8, KindIs
<1>6. ReadIdle(h) \/ SkipPending(h) => Statement(h)
  BY DEF Statement
<1> QED BY <1>1, <1>3, <1>4, <1>5, <1>6 DEF StepKinds

LEMMA FailsBothStep ==
    ASSUME Serial, Shape, Calls, Phases, FailsBoth, Next
    PROVE  FailsBoth'
<1>1. PICK h \in Handlers : StepKinds(h) /\ \A g \in Handlers : g = h
  BY SerialSteps
<1> SUFFICES ASSUME NEW i \in DOMAIN stack'[h]
             PROVE  /\ stack'[h][i].op = "fail" => i = 1 /\ 2 \in DOMAIN stack'[h] /\ stack'[h][2].op = "failexec"
                    /\ stack'[h][i].op = "failexec" =>
                        (i = 1 /\ instance' # "running") \/ (i = 2 /\ stack'[h][1].op = "fail")
  BY <1>1 DEF FailsBoth
<1>2. CASE stack'[h][i].op \notin {"fail", "failexec"}
  BY <1>2
<1>3. CASE StartWorkflow(h)
  BY <1>2, <1>3, StartMarks DEF Marks
<1>4. CASE CancelInstance(h) \/ \E s \in Steps : \E d \in Decisions(s) : CompleteStep(h, s, d)
  BY <1>2, <1>4, RequestMarks DEF Marks
<1>5. ASSUME Statement(h), stack'[h][i].op \in {"fail", "failexec"}
      PROVE  /\ stack'[h][i].op = "fail" => i = 1 /\ 2 \in DOMAIN stack'[h] /\ stack'[h][2].op = "failexec"
             /\ stack'[h][i].op = "failexec" =>
                 (i = 1 /\ instance' # "running") \/ (i = 2 /\ stack'[h][1].op = "fail")
  <2>1. ~Idle(h)
    BY <1>5, InstanceMoves
  <2>2. 1 \in DOMAIN stack[h] /\ stack[h][1] = Top(h)
    BY <2>1, TopPhased
  <2>3. \A k \in DOMAIN stack[h] : k > 1 =>
            /\ stack[h][k].op # "fail"
            /\ stack[h][k].op = "failexec" => k = 2 /\ Top(h).op = "fail"
    BY <2>2 DEF FailsBoth
  <2>4. CASE ReadRework(h)
    <3> DEFINE a == [op |-> "fail"]
               b == [op |-> "failexec"]
               fs == <<a, b>>
    <3>1. ASSUME \E k \in DOMAIN stack[h] : k > 1 /\ stack'[h][i] = stack[h][k] PROVE FALSE
      BY <1>5, <2>3, <2>4, <3>1, TopIs DEF ReadRework
    <3>2. CASE Continue(h, fs)
      <4>1. fs \in Seq(Frames) /\ Len(fs) = 2 /\ fs[1].op = "fail" /\ fs[2].op = "failexec"
        <5>1. a \in Frames /\ b \in Frames
          BY DEF Frames
        <5>2. a.op = "fail" /\ b.op = "failexec"
          OBVIOUS
        <5> HIDE DEF a, b
        <5> QED BY <5>1, <5>2
      <4> HIDE DEF fs
      <4>2. /\ Len(stack[h]) \in Nat \ {0} /\ DOMAIN stack[h] = 1..Len(stack[h])
            /\ DOMAIN stack'[h] = 1..(2 + Len(stack[h]) - 1)
            /\ \A m \in DOMAIN stack'[h] : stack'[h][m] = IF m <= 2 THEN fs[m] ELSE stack[h][m - 2 + 1]
        BY <2>1, <3>2, <4>1, ContinueIndex
      <4>3. 1 \in DOMAIN stack'[h] /\ 2 \in DOMAIN stack'[h]
        BY <4>2
      <4>4. stack'[h][1].op = "fail" /\ stack'[h][2].op = "failexec"
        <5>1. stack'[h][1] = fs[1]
          BY <4>2, <4>3, 1 <= 2
        <5>2. stack'[h][2] = fs[2]
          BY <4>2, <4>3, 2 <= 2
        <5> QED BY <4>1, <5>1, <5>2
      <4>5. i \in {1, 2}
        <5>1. ASSUME i > 2 PROVE FALSE
          <6>1. stack'[h][i] = stack[h][i - 2 + 1]
            BY <4>2, <5>1
          <6>2. i \in 1..(2 + Len(stack[h]) - 1) /\ Len(stack[h]) \in Nat
            BY <4>2
          <6>3. i - 2 + 1 \in 1..Len(stack[h]) /\ i - 2 + 1 > 1
            BY <5>1, <6>2
          <6>4. i - 2 + 1 \in DOMAIN stack[h]
            BY <4>2, <6>3
          <6> QED BY <3>1, <6>1, <6>3, <6>4
        <5> QED BY <4>2, <5>1
      <4> QED BY <4>3, <4>4, <4>5
    <3>3. CASE ~Continue(h, fs)
      <4> DEFINE s == Top(h).step
                 c == [op |-> "reset", step |-> s]
                 d == [op |-> "revive", step |-> s]
                 G == {f \in Frames : f.op \in {"reset", "revive"}}
      <4>1. Continue(h, <<>>) \/ Continue(h, <<c, d>>)
        BY <2>4, <3>3 DEF ReadRework
      <4>2. c \in G /\ d \in G /\ G \subseteq Frames
        <5>1. s \in Steps \ Joins
          <6>1. Top(h) \in Frames /\ Top(h).op = "rework"
            BY <2>1, <2>4, TopIs, StackTyped DEF ReadRework
          <6> QED BY <6>1, FrameFields
        <5> QED BY <5>1, ReworkFrames
      <4>3. \A f \in G : f.op \notin {"fail", "failexec"}
        OBVIOUS
      <4> HIDE DEF c, d, G
      <4>4. <<>> \in Seq(G) /\ <<c, d>> \in Seq(G)
        BY <4>2
      <4>5. Pushed(h, G)
        BY <2>1, <4>1, <4>2, <4>4, ContinuePushes
      <4> QED BY <1>5, <3>1, <4>3, <4>5 DEF Pushed
    <3> QED BY <3>2, <3>3
  <2>5. CASE ~ReadRework(h)
    <3>1. PICK k \in DOMAIN stack[h] : k > 1 /\ stack'[h][i] = stack[h][k]
      BY <1>5, <2>5, MarksOld DEF Marks
    <3>2. stack'[h][i].op = "failexec" /\ Top(h).op = "fail"
      BY <1>5, <2>3, <3>1
    <3>3. FailInstance(h)
      BY <1>5, <3>2, OpOf DEF Statement
    <3>4. Continue(h, <<>>) /\ instance' # "running"
      BY <3>3 DEF FailInstance
    <3>5. <<>> \in Seq(Frames) /\ Len(<<>>) = 0
      OBVIOUS
    <3>6. /\ Len(stack[h]) \in Nat \ {0} /\ DOMAIN stack[h] = 1..Len(stack[h])
          /\ DOMAIN stack'[h] = 1..(0 + Len(stack[h]) - 1)
          /\ \A m \in DOMAIN stack'[h] : stack'[h][m] = IF m <= 0 THEN <<>>[m] ELSE stack[h][m - 0 + 1]
      BY <2>1, <3>4, <3>5, ContinueIndex
    <3>7. i + 1 \in DOMAIN stack[h] /\ i + 1 > 1 /\ stack'[h][i] = stack[h][i + 1] /\ i \in Nat
      BY <3>6
    <3>8. i + 1 = 2
      BY <2>3, <3>2, <3>7
    <3> QED BY <3>2, <3>4, <3>7, <3>8
  <2> QED BY <2>4, <2>5
<1>6. ReadIdle(h) \/ SkipPending(h) => Statement(h)
  BY DEF Statement
<1> QED BY <1>1, <1>2, <1>3, <1>4, <1>5, <1>6 DEF StepKinds

\* fireRule reads the instance in the last statement but one of the start.
LEMMA ReadAtEndStep ==
    ASSUME Serial, Shape, Calls, Phases, Inserting, Starts, ReadAtEnd, Next
    PROVE  ReadAtEnd'
<1>1. PICK h \in Handlers : StepKinds(h) /\ \A g \in Handlers : g = h
  BY SerialSteps
<1> SUFFICES ASSUME NEW i \in DOMAIN stack'[h], stack'[h][i].op = "record"
             PROVE  i = 1 /\ Mirror(stack[h][i].status)'
  BY <1>1 DEF ReadAtEnd, Mirror
<1>3. CASE StartWorkflow(h)
  BY <1>3, StartMarks DEF Marks
<1>4. CASE CancelInstance(h) \/ \E s \in Steps : \E d \in Decisions(s) : CompleteStep(h, s, d)
  BY <1>4, RequestMarks DEF Marks
<1>5. CASE Statement(h)
  <2>1. ~Idle(h)
    BY <1>5, InstanceMoves
  <2>2. ~ \E k \in DOMAIN stack[h] : k > 1 /\ stack'[h][i] = stack[h][k]
    BY DEF ReadAtEnd
  <2>3. ReadMirror(h)
    BY <1>5, <2>2, MarksOld DEF Marks
  <2> DEFINE as == IF instance \in {"running", "cancelled"} THEN instance ELSE "completed"
             a == [op |-> "record", status |-> as]
             fs == RecordMirror(as)
  <2>4. wf' = wf /\ instance' = instance /\ Continue(h, fs) /\ Top(h).op = "started"
    BY <2>3, TopIs DEF ReadMirror
  <2>5. Kind(Top(h)) = "last"
    BY <2>4, KindIs
  <2>6. Len(stack[h]) = 1 /\ Holds(stack[h], "last")
    BY <2>1, <2>5, LastAlone, TopPhased DEF Holds
  <2>7. (fs = <<a>> /\ wf.rule) \/ fs = <<>>
    BY DEF RecordMirror
  <2>8. a \in Frames /\ a.status = as
    BY DEF Frames
  <2>9. instance # "absent"
    BY <2>1 DEF Inserting
  <2>10. wf.rule => Mirror(as)
    <3>1. ~IsAuto(1) => instance = "running"
      BY <2>6 DEF Starts
    <3> QED BY <2>9, <3>1, ShapeParts DEF Mirror, Ended
  <2> HIDE DEF fs, a, as
  <2>11. fs \in Seq(Frames) /\ (fs = <<>> => Len(fs) = 0) /\ (fs = <<a>> => Len(fs) = 1 /\ fs[1] = a)
    <3>1. <<a>> \in Seq(Frames) /\ Len(<<a>>) = 1 /\ <<a>>[1] = a
      BY <2>8
    <3>2. <<>> \in Seq(Frames) /\ Len(<<>>) = 0
      OBVIOUS
    <3>3. CASE fs = <<a>>
      BY <3>1, <3>3
    <3>4. CASE fs = <<>>
      BY <3>2, <3>4
    <3> QED BY <2>7, <3>3, <3>4
  <2>12. /\ DOMAIN stack'[h] = 1..(Len(fs) + 1 - 1)
         /\ \A m \in DOMAIN stack'[h] : m <= Len(fs) => stack'[h][m] = fs[m]
    BY <2>1, <2>4, <2>6, <2>11, ContinueIndex
  <2>13. i = 1 /\ fs = <<a>> /\ stack'[h][i] = a
    BY <2>7, <2>11, <2>12
  <2>14. Mirror(as)
    BY <2>7, <2>10, <2>11, <2>13
  <2>15. stack'[h][i].status = as
    BY <2>8, <2>13
  <2> QED BY <2>4, <2>13, <2>14, <2>15 DEF Mirror, IsAuto
<1>6. ReadIdle(h) \/ SkipPending(h) => Statement(h)
  BY DEF Statement
<1> QED BY <1>1, <1>3, <1>4, <1>5, <1>6 DEF StepKinds

LEMMA TopStatement ==
    ASSUME NEW h, Statement(h)
    PROVE  /\ Top(h).op = "failexec" => FailExecution(h)
           /\ Top(h).op = "endexec" => EndExecution(h)
           /\ Top(h).op = "drive" => DriveRecords(h)
  BY OpOf DEF Statement

LEMMA StatementMirrored ==
    ASSUME Shape, Calls, Phases, EndedClean, EndsBoth, FailsBoth, ReadAtEnd, Mirrored,
           NEW h \in Handlers, \A g \in Handlers : g = h, Statement(h)
    PROVE  Mirrored'
<1>1. /\ ~Idle(h) /\ 1 \in DOMAIN stack[h] /\ stack[h][1] = Top(h) /\ DOMAIN stack[h] \subseteq Nat \ {0}
      /\ \A i \in DOMAIN stack[h] : i > 1 => Kind(stack[h][i]) \in Below(Kind(Top(h)))
  BY InstanceMoves, TopPhased
<1>2. wf' = wf /\ IsAuto(1)' = IsAuto(1)
  <2>1. wf' = wf
    BY DEF Statement, CreateStep, Fallback, Activate, ActivateJoin, ReadPredecessor, FireJoin, ReadRework,
     FailInstance, FailExecution, ResetDownstream, Revive, RunAutoStep, ReadReachable, Sweep, NextJoin,
     ReadCompleted, ReadIdle, SkipPending, EndInstance, EndExecution, DriveRecords, ReadMirror, RecordExecution
  <2> QED BY <2>1 DEF IsAuto
<1>3. CASE RecordExecution(h)
  <2>1. Top(h).op = "record" /\ execution' = Top(h).status /\ instance' = instance
    BY <1>3, TopIs DEF RecordExecution
  <2>2. Mirror(Top(h).status)
    BY <1>1, <2>1 DEF ReadAtEnd
  <2> QED BY <1>2, <2>1, <2>2 DEF Mirrored, Mirror
<1>4. CASE execution = "none" /\ ~RecordExecution(h)
  BY <1>4, ExecutionMoves DEF Mirrored
<1>5. CASE execution # "none" /\ Mirror(execution) /\ ~RecordExecution(h)
  <2>1. CASE UNCHANGED <<execution, instance>>
    BY <1>2, <1>5, <2>1 DEF Mirrored, Mirror
  <2>2. CASE EndInstance(h) /\ instance = "running" /\ instance' = "completed"
    <3> DEFINE fs == Drive("finished")
    <3>1. wf.rule /\ execution = "running" /\ execution' = "running" /\ Continue(h, fs) /\ Top(h).op = "end"
      BY <1>5, <2>2, TopIs DEF EndInstance, MayEnd, Mirror
    <3>2. fs \in Seq(Frames)
      <4>1. [op |-> "drive", event |-> "finished"] \in Frames
        BY DEF Frames
      <4> QED BY <4>1 DEF Drive
    <3> HIDE DEF fs
    <3>3. Keeps(stack[h], stack'[h])
      BY <1>1, <3>1, <3>2, ContinueKeeps
    <3>4. Has(stack[h], "end")
      BY <1>1, <3>1 DEF Has
    <3>5. PICK k \in DOMAIN stack[h] : stack[h][k].op = "endexec"
      BY <3>4 DEF EndsBoth, Has
    <3>6. k > 1
      BY <1>1, <3>1, <3>5
    <3>7. Has(stack'[h], "endexec")
      BY <3>3, <3>5, <3>6 DEF Keeps, Has
    <3> QED BY <1>2, <2>2, <3>1, <3>7 DEF Mirrored
  <2>3. CASE FailInstance(h) /\ instance = "running" /\ instance' = "failed"
    <3>1. wf.rule /\ execution = "running" /\ execution' = "running" /\ Continue(h, <<>>) /\ Top(h).op = "fail"
      BY <1>5, <2>3, TopIs DEF FailInstance, Mirror
    <3>2. 2 \in DOMAIN stack[h] /\ stack[h][2].op = "failexec"
      BY <1>1, <3>1 DEF FailsBoth
    <3>3. <<>> \in Seq(Frames) /\ Len(<<>>) = 0
      OBVIOUS
    <3>4. /\ Len(stack[h]) \in Nat \ {0} /\ DOMAIN stack[h] = 1..Len(stack[h])
          /\ DOMAIN stack'[h] = 1..(0 + Len(stack[h]) - 1)
          /\ \A m \in DOMAIN stack'[h] : stack'[h][m] = IF m <= 0 THEN <<>>[m] ELSE stack[h][m - 0 + 1]
      <4>1. ~Idle(h) /\ Continue(h, <<>>)
        BY <1>1, <3>1
      <4> QED BY <3>3, <4>1, ContinueIndex
    <3>5. 1 \in DOMAIN stack'[h]
      BY <3>2, <3>4
    <3>6. stack'[h][1] = stack[h][2]
      BY <3>4, <3>5, ~(1 <= 0), 1 - 0 + 1 = 2
    <3>7. stack'[h] # <<>>
      BY <3>5
    <3>8. At(h, "failexec")'
      BY <3>2, <3>6, <3>7 DEF At, Idle, Top
    <3> QED BY <1>2, <2>3, <3>1, <3>8 DEF Mirrored
  <2>4. CASE EndExecution(h) /\ execution = "running"
    <3>1. Top(h).op = "endexec" /\ instance = "running"
      BY <1>5, <2>4, TopIs DEF EndExecution, Mirror
    <3>2. Has(stack[h], "endexec") /\ Kind(Top(h)) = "rest"
      BY <1>1, <3>1, KindIs DEF Has
    <3>3. ~Has(stack[h], "end")
      <4>1. ASSUME NEW m \in DOMAIN stack[h], stack[h][m].op = "end" PROVE FALSE
        <5>1. Kind(stack[h][m]) = "end"
          BY <4>1, KindIs
        <5>2. m = 1 \/ m > 1
          BY <1>1
        <5> QED BY <1>1, <3>2, <5>1, <5>2, BelowIs
      <4> QED BY <4>1 DEF Has
    <3> QED BY <3>1, <3>2, <3>3 DEF EndsBoth
  <2>5. CASE FailExecution(h) /\ execution = "running"
    <3>1. Top(h).op = "failexec" /\ instance = "running"
      BY <1>5, <2>5, TopIs DEF FailExecution, Mirror
    <3> QED BY <1>1, <3>1 DEF FailsBoth
  <2> QED BY <1>5, <2>1, <2>2, <2>3, <2>4, <2>5, ExecutionMoves
<1>6. CASE /\ wf.rule /\ execution = "running" /\ instance = "completed" /\ ~RecordExecution(h)
           /\ \E g \in Handlers : Has(stack[g], "endexec")
  <2>1. PICK k \in DOMAIN stack[h] : stack[h][k].op = "endexec"
    BY <1>6 DEF Has
  <2>2. instance' = instance /\ Kind(Top(h)) \in {"rest", "last"}
    BY <1>6, KeptDrives
  <2>3. Kind(stack[h][k]) = "rest"
    BY <2>1, KindIs
  <2>4. Kind(Top(h)) = "rest"
    BY <1>1, <2>2, <2>3, LastAlone
  <2>5. CASE Top(h).op = "endexec"
    <3>1. execution' = "completed"
      BY <1>6, <2>5, TopStatement DEF EndExecution
    <3> QED BY <1>2, <1>6, <2>2, <3>1 DEF Mirrored, Mirror
  <2>6. CASE Top(h).op = "drive"
    <3>1. Continue(h, <<>>) /\ execution' = execution
      BY <2>6, TopStatement DEF DriveRecords
    <3>2. Keeps(stack[h], stack'[h])
      BY <1>1, <3>1, PopPhased
    <3>3. k > 1
      BY <1>1, <2>1, <2>6
    <3>4. Has(stack'[h], "endexec")
      BY <2>1, <3>2, <3>3 DEF Keeps, Has
    <3> QED BY <1>2, <1>6, <2>2, <3>1, <3>4 DEF Mirrored
  <2> QED BY <2>4, <2>5, <2>6, KindIs
<1>7. CASE /\ wf.rule /\ execution = "running" /\ instance = "failed"
           /\ \E g \in Handlers : At(g, "failexec")
  <2>1. Top(h).op = "failexec"
    BY <1>7, TopIs
  <2>2. execution' = "failed" /\ instance' = instance
    BY <1>7, <2>1, TopStatement DEF FailExecution
  <2> QED BY <1>2, <1>7, <2>2 DEF Mirrored, Mirror
<1> QED BY <1>3, <1>4, <1>5, <1>6, <1>7 DEF Mirrored

LEMMA IdleMirrored ==
    ASSUME Mirrored, execution # "none", NEW h \in Handlers, \A g \in Handlers : g = h, Idle(h)
    PROVE  Mirror(execution)
<1>1. ~Has(stack[h], "endexec") /\ ~At(h, "failexec")
  BY DEF Has, Idle, At
<1> QED BY <1>1 DEF Mirrored

LEMMA MirroredStep ==
    ASSUME Serial, Shape, Calls, Phases, EndedClean, Unrecorded, EndsBoth, FailsBoth, ReadAtEnd, Mirrored, Next
    PROVE  Mirrored'
<1>1. PICK h \in Handlers : StepKinds(h) /\ \A g \in Handlers : g = h
  BY SerialSteps
<1>2. CASE StartWorkflow(h)
  BY <1>2 DEF StartWorkflow, Unrecorded, Mirrored
<1>3. CASE \E s \in Steps : \E d \in Decisions(s) : CompleteStep(h, s, d)
  <2>1. UNCHANGED <<wf, instance, execution>> /\ Idle(h)
    BY <1>3 DEF CompleteStep, Request
  <2>2. execution # "none" => Mirror(execution)
    BY <1>1, <2>1, IdleMirrored
  <2> QED BY <2>1, <2>2 DEF Mirrored, Mirror, IsAuto
<1>4. CASE CancelInstance(h)
  <2>1. /\ instance = "running" /\ instance' = "cancelled" /\ wf' = wf /\ Idle(h)
        /\ execution' = IF execution = "running" THEN "cancelled" ELSE execution
    BY <1>4 DEF CancelInstance, Request
  <2>2. execution # "none" => wf.rule /\ execution = "running"
    BY <1>1, <2>1, IdleMirrored DEF Mirror
  <2> QED BY <2>1, <2>2 DEF Mirrored, Mirror
<1>5. CASE Statement(h)
  BY <1>1, <1>5, StatementMirrored
<1>6. ReadIdle(h) \/ SkipPending(h) => Statement(h)
  BY DEF Statement
<1> QED BY <1>1, <1>2, <1>3, <1>4, <1>5, <1>6 DEF StepKinds

LEMMA OpenedStatements ==
    ASSUME NEW h, Statement(h), Top(h) \in Opened
    PROVE  \/ CreateStep(h) \/ DriveRecords(h) \/ ReadReachable(h) \/ Sweep(h) \/ NextJoin(h) \/ ReadPredecessor(h)
           \/ ReadCompleted(h) \/ ReadIdle(h) \/ ReadMirror(h) \/ RecordExecution(h)
<1>1. Top(h).op \notin {"fallback", "activate", "fire", "rework", "fail", "failexec", "reset", "revive", "auto",
                        "skip", "end", "endexec"}
  BY DEF Opened
<1> QED BY <1>1, OpOf DEF Statement

LEMMA OpenedPushes ==
    ASSUME Shape, Calls, NEW h \in Handlers, Statement(h), Top(h) \in Opened,
           \A s \in Steps : status[s] \notin Finished, status[1] = "in_progress" \/ Top(h).op = "create"
    PROVE  Pushed(h, Opened)
<1> DEFINE f == Top(h)
<1>1. ~Idle(h) /\ f \in Frames
  BY InstanceMoves, StackTyped
<1>2. \/ CreateStep(h) \/ DriveRecords(h) \/ ReadReachable(h) \/ Sweep(h) \/ NextJoin(h) \/ ReadPredecessor(h)
      \/ ReadCompleted(h) \/ ReadIdle(h) \/ ReadMirror(h) \/ RecordExecution(h)
  BY OpenedStatements
<1>3. Opened \subseteq Frames
  BY DEF Opened
<1>4. ASSUME NEW g \in Opened, Continue(h, <<g>>) PROVE Pushed(h, Opened)
  <2>1. <<g>> \in Seq(Opened)
    OBVIOUS
  <2> QED BY <1>1, <1>3, <1>4, <2>1, ContinuePushes
<1>5. Continue(h, <<>>) => Pushed(h, Opened)
  <2>1. <<>> \in Seq(Opened)
    OBVIOUS
  <2> QED BY <1>1, <1>3, <2>1, ContinuePushes
<1>6. CASE CreateStep(h)
  <2>1. Pushed(h, {e \in Frames : e.op = "create" /\ e.step = Top(h).step + 1})
    BY <1>6, CreatePushes
  <2> QED BY <2>1 DEF Pushed, Opened
<1>7. CASE DriveRecords(h) \/ RecordExecution(h)
  BY <1>5, <1>7 DEF DriveRecords, RecordExecution
<1>8. CASE ReadReachable(h)
  <2> DEFINE g == [op |-> "sweep", pass |-> f.pass, reach |-> Reachable]
  <2>1. Continue(h, <<g>>) /\ f.pass \in Nat
    BY <1>1, <1>8, TopIs, FrameFields DEF ReadReachable, SweepFrom
  <2>2. g \in Opened
    <3>1. g \in Frames
      BY <2>1, ReachableTyped DEF Frames
    <3> QED BY <3>1 DEF Opened
  <2> HIDE DEF g
  <2> QED BY <1>4, <2>1, <2>2
<1>9. CASE Sweep(h)
  <2>1. PICK c \in BOOLEAN : Continue(h, FireJoins(f, c)) /\ f.op = "sweep"
    <3> DEFINE c == {s \in Steps \ f.reach : status[s] = "pending"} # {}
    <3>1. Continue(h, FireJoins(f, c)) /\ f.op = "sweep" /\ c \in BOOLEAN
      BY <1>9, TopIs DEF Sweep
    <3> HIDE DEF c
    <3> QED BY <3>1
  <2> DEFINE g == [op |-> "joins", pass |-> f.pass, changed |-> c, left |-> Joins \cap f.reach]
  <2>2. Continue(h, <<g>>) /\ f.pass \in Nat
    BY <1>1, <2>1, FrameFields DEF FireJoins
  <2>3. g \in Opened
    <3>1. g \in Frames
      BY <2>2 DEF Frames
    <3> QED BY <3>1 DEF Opened
  <2> HIDE DEF g
  <2> QED BY <1>4, <2>2, <2>3
<1>10. CASE NextJoin(h) \/ ReadPredecessor(h) \/ ReadCompleted(h)
  <2>1. f.op # "activate" /\ (f.op = "preds" => f.then = "any")
    BY DEF Opened
  <2>2. ~ActivateJoin(h)
    BY <2>1, TopIs DEF ActivateJoin
  <2>3. \A s \in Steps : status[s] # "completed"
    BY DEF Finished
  <2>4. \A e \in Frames : e.op \in {"any", "joins", "reach"} \/ (e.op = "preds" /\ e.then = "any") => e \in Opened
    BY DEF Opened
  <2> QED BY <1>3, <1>10, <2>1, <2>2, <2>3, <2>4, JoinsAsk
<1>11. CASE ReadIdle(h)
  <2>1. 1 \in Steps /\ f.op = "idle"
    BY <1>11, WfTyped, TopIs DEF ReadIdle
  <2>2. Continue(h, <<>>)
    BY <1>11, <2>1 DEF ReadIdle
  <2> QED BY <1>5, <2>2
<1>12. CASE ReadMirror(h)
  <2>1. PICK as \in {"running", "cancelled", "completed"} : Continue(h, RecordMirror(as))
    BY <1>12 DEF ReadMirror
  <2> DEFINE g == [op |-> "record", status |-> as]
  <2>2. Continue(h, <<>>) \/ Continue(h, <<g>>)
    BY <2>1 DEF RecordMirror
  <2>3. g \in Opened
    <3>1. g \in Frames
      BY <2>1 DEF Frames
    <3> QED BY <3>1 DEF Opened
  <2> HIDE DEF g
  <2> QED BY <1>4, <1>5, <2>2, <2>3
<1> QED BY <1>2, <1>6, <1>7, <1>8, <1>9, <1>10, <1>11, <1>12

\* Only the first step is opened, and it stays open.
LEMMA OpenedRows ==
    ASSUME Shape, Calls, NEW h \in Handlers, Statement(h), Top(h) \in Opened,
           \A s \in Steps : status[s] \notin Finished,
           status[1] = "in_progress" \/ (At(h, "create") /\ Top(h).step = 1)
    PROVE  wf' = wf /\ instance' = instance /\ status'[1] = "in_progress" /\ \A s \in Steps : status'[s] \notin Finished
<1>1. \/ CreateStep(h) \/ DriveRecords(h) \/ ReadReachable(h) \/ Sweep(h) \/ NextJoin(h) \/ ReadPredecessor(h)
      \/ ReadCompleted(h) \/ ReadIdle(h) \/ ReadMirror(h) \/ RecordExecution(h)
  BY OpenedStatements
<1>2. 1 \in Steps /\ status \in [Steps -> Statuses]
  BY WfTyped, ShapeParts
<1>3. CASE CreateStep(h)
  <2>1. /\ wf' = wf /\ instance' = instance
        /\ status' = [status EXCEPT ![Top(h).step] = IF Top(h).step = 1 THEN "in_progress" ELSE "pending"]
    BY <1>3 DEF CreateStep
  <2> QED BY <1>2, <2>1 DEF Finished
<1>4. CASE Sweep(h)
  <2>1. Top(h).op = "sweep" /\ wf' = wf /\ instance' = instance
    BY <1>4, TopIs DEF Sweep
  <2>2. status[1] = "in_progress"
    BY <2>1, TopIs
  <2>3. \A s \in Steps : status'[s] = status[s] \/ (status[s] = "pending" /\ status'[s] = "skipped")
    BY <1>4 DEF Sweep
  <2> QED BY <1>2, <2>1, <2>2, <2>3 DEF Finished
<1>5. CASE ~CreateStep(h) /\ ~Sweep(h)
  <2>1. wf' = wf /\ instance' = instance /\ status' = status
    BY <1>1, <1>5 DEF DriveRecords, ReadReachable, NextJoin, ReadPredecessor, ReadCompleted, ReadIdle, ReadMirror,
       RecordExecution, rows
  <2>2. ~At(h, "create")
    BY <1>1, <1>5, TopIs DEF DriveRecords, ReadReachable, NextJoin, ReadPredecessor, ReadCompleted, ReadIdle,
       ReadMirror, RecordExecution
  <2> QED BY <2>1, <2>2
<1> QED BY <1>3, <1>4, <1>5

LEMMA StartsStep ==
    ASSUME Serial, Shape, Calls, Phases, Inserting, Starts, Next
    PROVE  Starts'
<1>1. PICK h \in Handlers : StepKinds(h) /\ \A g \in Handlers : g = h
  BY SerialSteps
<1>2. wf' = wf /\ Steps' = Steps /\ IsAuto(1)' = IsAuto(1) /\ Opened' = Opened
  <2>1. wf' = wf
    BY SameDefinition
  <2>2. Steps' = Steps /\ Frames' = Frames
    BY <2>1, SameWorkflow
  <2> QED BY <2>1, <2>2 DEF IsAuto, Opened
<1> SUFFICES ASSUME ~IsAuto(1), Holds(stack'[h], "last")
             PROVE  /\ instance' = "running"
                    /\ \A i \in DOMAIN stack'[h] : stack'[h][i] \in Opened
                    /\ \A s \in Steps : status'[s] \notin Finished
                    /\ status'[1] = "in_progress" \/ (At(h, "create") /\ Top(h).step = 1)'
  BY <1>1, <1>2 DEF Starts
<1>3. CASE StartWorkflow(h)
  <2>1. /\ Opened \in SUBSET Frames
        /\ \A f \in Frames : f.op \in {"create", "drive", "reach", "idle", "started"} => f \in Opened
    BY DEF Opened
  <2>2. \A i \in DOMAIN stack'[h] : stack'[h][i] \in Opened
    BY <1>3, <2>1, StartFrames
  <2>3. instance = "absent" /\ instance' = "running" /\ status' = status
    BY <1>3 DEF StartWorkflow, rows
  <2>4. \A s \in Steps : status'[s] \notin Finished
    BY <2>3 DEF Inserting, Finished
  <2>5. Top(h)' = [op |-> "create", step |-> 1]
    BY <1>3, StartPushes
  <2>6. ~Idle(h)'
    BY DEF Idle, Holds
  <2> QED BY <2>2, <2>3, <2>4, <2>5, <2>6 DEF At
<1>4. CASE CancelInstance(h) \/ \E s \in Steps : \E d \in Decisions(s) : CompleteStep(h, s, d)
  <2>1. PICK i \in DOMAIN stack'[h] : stack'[h][i].op \in {"started", "record"}
    BY KindIs DEF Holds
  <2> QED BY <1>4, <2>1, RequestMarks DEF Marks
<1>5. CASE Statement(h)
  <2>1. Holds(stack[h], "last")
    BY <1>5, LastKept
  <2>2. /\ instance = "running" /\ \A s \in Steps : status[s] \notin Finished
        /\ \A i \in DOMAIN stack[h] : stack[h][i] \in Opened
        /\ status[1] = "in_progress" \/ (At(h, "create") /\ Top(h).step = 1)
    BY <2>1 DEF Starts
  <2>3. ~Idle(h) /\ Top(h) \in Opened
    BY <1>5, <2>2, InstanceMoves, TopPhased
  <2>4. status[1] = "in_progress" \/ Top(h).op = "create"
    BY <2>2, TopIs
  <2>5. Pushed(h, Opened)
    BY <1>5, <2>2, <2>3, <2>4, OpenedPushes
  <2>6. instance' = instance /\ status'[1] = "in_progress" /\ \A s \in Steps : status'[s] \notin Finished
    BY <1>5, <2>2, <2>3, OpenedRows
  <2> QED BY <2>2, <2>5, <2>6 DEF Pushed
<1>6. ReadIdle(h) \/ SkipPending(h) => Statement(h)
  BY DEF Statement
<1> QED BY <1>1, <1>3, <1>4, <1>5, <1>6 DEF StepKinds

ExecInv == Unrecorded /\ EndsBoth /\ FailsBoth /\ ReadAtEnd /\ Mirrored /\ Starts

LEMMA ExecInit == Init => ExecInv
<1> SUFFICES ASSUME Init PROVE ExecInv
  OBVIOUS
<1>1. execution = "none" /\ \A h \in Handlers : stack[h] = <<>>
  BY DEF Init
<1> QED BY <1>1 DEF ExecInv, Unrecorded, EndsBoth, FailsBoth, ReadAtEnd, Mirrored, Starts, Has, Holds

LEMMA ExecStill ==
    ASSUME ExecInv, UNCHANGED vars
    PROVE  ExecInv'
<1>1. UNCHANGED <<wf, status, instance, execution, stack>>
  BY DEF vars, rows
<1>2. Steps' = Steps /\ IsAuto(1)' = IsAuto(1) /\ Opened' = Opened
  BY <1>1, SameWorkflow DEF Opened
<1>3. Unrecorded' /\ EndsBoth' /\ FailsBoth'
  BY <1>1 DEF ExecInv, Unrecorded, EndsBoth, FailsBoth
<1>4. ReadAtEnd' /\ Mirrored'
  BY <1>1, <1>2 DEF ExecInv, ReadAtEnd, Mirrored, Mirror, At, Idle, Top
<1>5. Starts'
  BY <1>1, <1>2 DEF ExecInv, Starts, At, Idle, Top
<1> QED BY <1>3, <1>4, <1>5 DEF ExecInv

LEMMA ExecCorrect ==
    ASSUME Serial
    PROVE  Spec => []ExecInv
<1>1. WorkInv /\ ExecInv /\ [Next]_vars => ExecInv'
  <2> SUFFICES ASSUME WorkInv, ExecInv, [Next]_vars PROVE ExecInv'
    OBVIOUS
  <2>1. CASE UNCHANGED vars
    BY <2>1, ExecStill
  <2>2. CASE Next
    <3>1. Shape /\ Calls /\ Inserting /\ Phases /\ EndedClean
      BY DEF WorkInv, RowsInv
    <3>2. Unrecorded /\ EndsBoth /\ FailsBoth /\ ReadAtEnd /\ Mirrored /\ Starts
      BY DEF ExecInv
    <3>3. Unrecorded' /\ EndsBoth' /\ FailsBoth'
      BY <2>2, <3>1, <3>2, UnrecordedStep, EndsBothStep, FailsBothStep
    <3>4. ReadAtEnd' /\ Mirrored' /\ Starts'
      BY <2>2, <3>1, <3>2, ReadAtEndStep, MirroredStep, StartsStep
    <3> QED BY <3>3, <3>4 DEF ExecInv
  <2> QED BY <2>1, <2>2
<1> QED BY <1>1, ExecInit, WorkCorrect, PTL DEF Spec

\* Between requests the execution tells what became of its instance. The one
\* exception: fireRule records an instance that failed in the cascade of its
\* own start as completed, which takes a first step that nobody decides.
ExecutionFollows ==
    Quiet /\ execution # "none" =>
        \/ execution = instance
        \/ IsAuto(1) /\ execution = "completed" /\ instance = "failed"

\* The execution of a rule follows its instance through every cascade, with
\* that exception, as long as requests are taken one at a time and none is cut
\* short: what ends, fails or cancels the instance does so to the execution.
THEOREM ExecutionFollowsHolds ==
    ASSUME Serial
    PROVE  Spec => []ExecutionFollows
<1>1. ExecInv => ExecutionFollows
  <2> SUFFICES ASSUME Mirrored, Quiet, execution # "none" PROVE Mirror(execution)
    BY DEF ExecInv, ExecutionFollows, Mirror
  <2>1. \A h \in Handlers : ~Has(stack[h], "endexec") /\ ~At(h, "failexec")
    BY DEF Quiet, Has, Idle, At
  <2> QED BY <2>1 DEF Mirrored
<1> QED BY <1>1, ExecCorrect, PTL

\* A rule's runs begin with a step that waits for a person.
FirstWaits == \A w \in Workflows : w.rule => w.type[1] \notin {"notification", "condition"}

\* "The execution mirrors the instance lifecycle" (fireRule), exactly, where
\* the first step of the run waits for a person and so for a later request.
THEOREM ExecutionMirrorsHolds ==
    ASSUME Serial, FirstWaits
    PROVE  Spec => []ExecutionMirrors
<1>1. Shape /\ ExecInv => ExecutionMirrors
  <2> SUFFICES ASSUME Shape, Mirrored, Quiet, execution # "none" PROVE execution = instance
    BY DEF ExecInv, ExecutionMirrors
  <2>1. \A h \in Handlers : ~Has(stack[h], "endexec") /\ ~At(h, "failexec")
    BY DEF Quiet, Has, Idle, At
  <2>2. Mirror(execution)
    BY <2>1 DEF Mirrored
  <2>3. wf.rule => ~IsAuto(1)
    BY DEF FirstWaits, Shape, IsAuto
  <2> QED BY <2>2, <2>3 DEF Mirror
<1> QED BY <1>1, ExecCorrect, ShapeCorrect, PTL

-----------------------------------------------------------------------------
(* The record of the run when requests interleave, as long as callers wait *)
(* until its start has returned.                                           *)

\* While the start of the run is under way, nobody else is at work on it.
StartsAlone ==
    \A h \in Handlers :
        /\ Holds(stack[h], "last") => \A g \in Handlers \ {h} : Idle(g)
        /\ Drives(stack[h], "started") => Holds(stack[h], "last") /\ instance = "running"

\* A cancel comes to the record at once; a finish comes after the end.
DrivenOnce ==
    \A h \in Handlers :
        /\ \A i \in DOMAIN stack[h] :
             stack[h][i].op = "drive" /\ stack[h][i].event = "cancelled" => i = 1 /\ instance = "cancelled"
        /\ Drives(stack[h], "finished") => instance = "completed"

\* How far the record is.
RecordOpen ==
    Decides /\ ~wf.test =>
    /\ instance = "absent" => record = "draft"
    /\ instance \in {"running", "failed"} =>
        \/ record = "submitted"
        \/ record = "draft" /\ \E h \in Handlers : Drives(stack[h], "started")
    /\ instance = "cancelled" =>
        \/ record = "draft"
        \/ record = "submitted" /\ \E h \in Handlers : Drives(stack[h], "cancelled")
    /\ instance = "completed" => record # "draft"

SharedInv == RowsInv /\ Phases /\ Opening /\ StartsAlone /\ DrivenOnce /\ RecordOpen

LEMMA StartLast ==
    ASSUME Shape, NEW h \in Handlers, StartWorkflow(h)
    PROVE  Holds(stack'[h], "last")
<1> DEFINE c == <<[op |-> "create", step |-> 1]>> \o Drive("started") \o ProcessAutoStep(1)
                  \o ReconcileInstance(1) \o CloseInstanceIfIdle
           b == [op |-> "started"]
           r == c \o <<b>>
<1>1. stack' = [stack EXCEPT ![h] = r]
  BY DEF StartWorkflow, Request
<1>2. b.op = "started"
  OBVIOUS
<1>3. Len(c) \in Nat /\ DOMAIN c = 1..Len(c)
  <2>1. 1 \in Steps /\ Frames \in SUBSET Frames /\ \A f \in Plain : f \in Frames
    BY WfTyped DEF Plain
  <2>2. ProcessAutoStep(1) \in Seq(Frames) /\ ReconcileInstance(1) \in Seq(Frames) /\ CloseInstanceIfIdle \in Seq(Frames)
    <3>1. ProcessAutoStep(1) \in Seq(Plain) /\ ReconcileInstance(1) \in Seq(Plain) /\ CloseInstanceIfIdle \in Seq(Plain)
      BY <2>1, AutoPushed, ReconcilePushed, OthersPushed
    <3> QED BY <2>1, <3>1
  <2>3. [op |-> "create", step |-> 1] \in Frames /\ [op |-> "drive", event |-> "started"] \in Frames
    BY <2>1 DEF Frames
  <2>4. <<[op |-> "create", step |-> 1]>> \in Seq(Frames) /\ Drive("started") \in Seq(Frames)
    BY <2>3 DEF Drive
  <2>5. c \in Seq(Frames)
    BY <2>2, <2>4
  <2> HIDE DEF c
  <2> QED BY <2>5
<1> HIDE DEF c, b
<1>4. r[Len(c) + 1] = b /\ Len(c) + 1 \in DOMAIN r
  BY <1>3
<1>5. stack'[h] = r
  <2> HIDE DEF r
  <2> QED BY <1>1 DEF Shape
<1>6. Kind(b) = "last"
  BY <1>2, KindIs
<1> QED BY <1>4, <1>5, <1>6 DEF Holds

LEMMA StartsAloneStep ==
    ASSUME MaxFaults = 0, Patient, RowsInv, Phases, Opening, StartsAlone, Next
    PROVE  StartsAlone'
<1>1. Shape /\ Calls /\ Inserting
  BY DEF RowsInv
<1>2. PICK h \in Handlers : StepKinds(h) /\ \A g \in Handlers \ {h} : stack'[g] = stack[g]
  BY <1>1, HandlerSteps
<1>3. CASE StartWorkflow(h)
  <2>1. \A g \in Handlers : stack[g] = <<>>
    BY <1>1, <1>3 DEF StartWorkflow, Inserting, Idle
  <2>2. instance' = "running" /\ Holds(stack'[h], "last")
    BY <1>1, <1>3, StartLast DEF StartWorkflow
  <2>3. \A g \in Handlers \ {h} : Idle(g)' /\ ~Holds(stack'[g], "last") /\ ~Drives(stack'[g], "started")
    BY <1>2, <2>1 DEF Idle, Holds, Drives
  <2> QED BY <2>2, <2>3 DEF StartsAlone
<1>4. CASE CancelInstance(h) \/ \E s \in Steps : \E d \in Decisions(s) : CompleteStep(h, s, d)
  <2>1. ~Starting
    BY <1>4 DEF CancelInstance, CompleteStep
  <2>2. ASSUME NEW g \in Handlers PROVE ~Holds(stack[g], "last")
    BY <2>1, KindIs DEF Starting, Holds
  <2>3. Pushed(h, Fresh) /\ stack[h] = <<>> /\ \A i \in DOMAIN stack'[h] : stack'[h][i].op \notin Marks
    BY <1>1, <1>4, RequestsPush, RequestMarks DEF Idle
  <2>4. ~Drives(stack'[h], "started")
    BY <2>3 DEF Pushed, Fresh, Drives
  <2>5. ~Holds(stack'[h], "last")
    BY <2>3, KindIs DEF Holds, Marks
  <2>6. \A g \in Handlers : ~Holds(stack'[g], "last") /\ ~Drives(stack'[g], "started")
    BY <1>2, <2>2, <2>4, <2>5 DEF StartsAlone
  <2> QED BY <2>6 DEF StartsAlone
<1>5. CASE Statement(h)
  <2>1. ~Idle(h)
    BY <1>5, InstanceMoves
  <2>2. \A g \in Handlers \ {h} : ~Holds(stack'[g], "last") /\ ~Drives(stack'[g], "started")
    BY <1>2, <2>1 DEF StartsAlone
  <2>3. ASSUME Holds(stack'[h], "last") PROVE \A g \in Handlers \ {h} : Idle(g)'
    <3>1. Holds(stack[h], "last")
      BY <1>1, <1>5, <2>3, LastKept
    <3> QED BY <1>2, <3>1 DEF StartsAlone, Idle
  <2>4. ASSUME Drives(stack'[h], "started") PROVE Holds(stack'[h], "last") /\ instance' = "running"
    <3>1. CreateStep(h) /\ Drives(stack[h], "started")
      BY <1>1, <1>5, <2>4, StartedDrives
    <3>2. Holds(stack[h], "last") /\ instance = "running" /\ instance' = instance
      BY <3>1 DEF StartsAlone, CreateStep
    <3>3. PICK j \in DOMAIN stack[h] : Kind(stack[h][j]) = "last"
      BY <3>2 DEF Holds
    <3>4. 1 \in DOMAIN stack[h] /\ stack[h][1].op = "create" /\ DOMAIN stack[h] \subseteq Nat \ {0}
      <4>1. stack[h] \in Seq(Frames)
        BY <1>1, <2>1, TopPhased
      <4> QED BY <1>1, <2>1, <3>1, <4>1, TopPhased, OpOf
    <3>5. j > 1
      BY <3>3, <3>4, KindIs
    <3>6. Holds(stack'[h], "last")
      BY <1>1, <3>1, <3>3, <3>5, CreateStack DEF Holds
    <3> QED BY <3>2, <3>6
  <2> QED BY <2>2, <2>3, <2>4 DEF StartsAlone
<1>6. ReadIdle(h) \/ SkipPending(h) => Statement(h)
  BY DEF Statement
<1> QED BY <1>2, <1>3, <1>4, <1>5, <1>6 DEF StepKinds

LEMMA DrivenOnceStep ==
    ASSUME MaxFaults = 0, RowsInv, Phases, DrivenOnce, Next
    PROVE  DrivenOnce'
<1>1. Shape /\ Calls /\ Inserting
  BY DEF RowsInv
<1>2. PICK h \in Handlers : StepKinds(h) /\ \A g \in Handlers \ {h} : stack'[g] = stack[g]
  BY <1>1, HandlerSteps
<1> DEFINE Fine(q, i) ==
        /\ \A k \in DOMAIN q : q[k].op = "drive" /\ q[k].event = "cancelled" => k = 1 /\ i = "cancelled"
        /\ Drives(q, "finished") => i = "completed"
<1>3. \A g \in Handlers : Fine(stack[g], instance)
  BY DEF DrivenOnce
<1>4. SUFFICES \A g \in Handlers : Fine(stack'[g], instance')
  BY DEF DrivenOnce
<1>5. instance = "running" => \A g \in Handlers : \A i : Fine(stack[g], i)
  BY <1>3
<1>6. ASSUME instance' = instance \/ instance = "running", Fine(stack'[h], instance')
      PROVE  \A g \in Handlers : Fine(stack'[g], instance')
  <2>1. ASSUME NEW g \in Handlers, g # h PROVE Fine(stack'[g], instance')
    <3>1. stack'[g] = stack[g]
      BY <1>2, <2>1
    <3>2. Fine(stack[g], instance')
      BY <1>3, <1>5, <1>6
    <3> HIDE DEF Fine
    <3> QED BY <3>1, <3>2
  <2> QED BY <1>6, <2>1
<1>7. ASSUME Worked(h), NEW i PROVE Fine(stack'[h], i)
  <2>1. ~Drives(stack'[h], "cancelled") /\ ~Drives(stack'[h], "finished")
    BY <1>7, WorkDrives
  <2> QED BY <2>1 DEF Drives
<1>8. CASE StartWorkflow(h)
  <2>1. \A g \in Handlers : stack[g] = <<>>
    BY <1>1, <1>8 DEF StartWorkflow, Inserting, Idle
  <2>2. Fine(stack'[h], instance')
    BY <1>1, <1>7, <1>8, StartPhased
  <2>3. ASSUME NEW g \in Handlers, g # h PROVE Fine(stack'[g], instance')
    <3>1. stack'[g] = <<>>
      BY <1>2, <2>1, <2>3
    <3> QED BY <3>1 DEF Drives
  <2> QED BY <2>2, <2>3
<1>9. CASE \E s \in Steps : \E d \in Decisions(s) : CompleteStep(h, s, d)
  <2>1. Worked(h) /\ instance' = instance
    BY <1>1, <1>9, CompletePhased DEF CompleteStep
  <2>2. Fine(stack'[h], instance')
    BY <1>7, <2>1
  <2> HIDE DEF Fine
  <2> QED BY <1>6, <2>1, <2>2
<1>10. CASE CancelInstance(h)
  <2>1. stack'[h] = <<[op |-> "drive", event |-> "cancelled"]>> /\ instance' = "cancelled" /\ instance = "running"
    BY <1>1, <1>10, CancelPhased DEF CancelInstance
  <2>2. DOMAIN stack'[h] = {1} /\ stack'[h][1].event = "cancelled"
    BY <2>1
  <2>3. Fine(stack'[h], instance')
    BY <2>1, <2>2 DEF Drives
  <2> HIDE DEF Fine
  <2> QED BY <1>6, <2>1, <2>3
<1>11. CASE Statement(h) /\ ~EndInstance(h)
  <2>1. instance' = instance \/ instance = "running"
    BY <1>11, InstanceMoves
  <2>2. ASSUME NEW k \in DOMAIN stack'[h], stack'[h][k].op = "drive", stack'[h][k].event = "cancelled" PROVE FALSE
    <3>1. PICK j \in DOMAIN stack[h] : j > 1 /\ stack'[h][k] = stack[h][j]
      BY <1>1, <1>11, <2>2, OldDrives
    <3>2. j = 1
      BY <1>3, <2>2, <3>1
    <3> QED BY <3>1, <3>2
  <2>3. ASSUME Drives(stack'[h], "finished") PROVE instance' = "completed"
    <3>1. Drives(stack[h], "finished")
      BY <1>1, <1>11, <2>3, StatementDrives
    <3>2. instance = "completed"
      BY <1>3, <3>1
    <3> QED BY <2>1, <3>2
  <2>4. Fine(stack'[h], instance')
    BY <2>2, <2>3
  <2> HIDE DEF Fine
  <2> QED BY <1>6, <2>1, <2>4
<1>12. CASE Statement(h) /\ EndInstance(h)
  <2>1. /\ \A event : Drives(stack'[h], event) =>
               Drives(stack[h], event) \/ (event = "finished" /\ instance = "running")
        /\ (instance = "running" => instance' = "completed") /\ (instance # "running" => instance' = instance)
    BY <1>1, <1>12, EndDrives DEF EndInstance, MayEnd
  <2>2. 1 \in DOMAIN stack[h] /\ stack[h][1].op = "end"
    BY <1>1, <1>12, TopThere DEF EndInstance
  <2>3. ~Drives(stack[h], "cancelled")
    BY <1>3, <2>2 DEF Drives
  <2>4. Fine(stack'[h], instance')
    BY <1>3, <2>1, <2>3 DEF Drives
  <2> HIDE DEF Fine
  <2> QED BY <1>6, <2>1, <2>4
<1>13. ReadIdle(h) \/ SkipPending(h) => Statement(h)
  BY DEF Statement
<1> QED BY <1>2, <1>8, <1>9, <1>10, <1>11, <1>12, <1>13 DEF StepKinds

\* A statement of the cascade, with the start's frame for the record still on
\* a stack, is an INSERT.
LEMMA StillStarting ==
    ASSUME Shape, Calls, Opening, StartsAlone, NEW h \in Handlers, Statement(h), ~DriveRecords(h),
           NEW g \in Handlers, Drives(stack[g], "started")
    PROVE  g = h /\ Drives(stack'[h], "started") /\ CreateStep(h)
<1>1. ~Idle(h)
  BY InstanceMoves
<1>2. g = h
  BY <1>1 DEF StartsAlone
<1> QED BY <1>2, StartedKept

LEMMA SharedDrive ==
    ASSUME Shape, Calls, StartsAlone, DrivenOnce, RecordOpen, Decides, ~wf.test,
           NEW h \in Handlers, DriveRecords(h)
    PROVE  RecordOpen'
<1>1. ~Idle(h) /\ Top(h).op = "drive" /\ Top(h) \in Frames /\ 1 \in DOMAIN stack[h] /\ stack[h][1] = Top(h)
  <2>1. ~Idle(h) /\ Top(h).op = "drive"
    BY TopIs DEF DriveRecords
  <2>2. /\ stack[h] \in Seq(Frames) /\ stack[h] # <<>> /\ Len(stack[h]) \in Nat \ {0}
        /\ Top(h) \in Frames /\ Top(h) = stack[h][1]
    BY <2>1, StackTyped
  <2> QED BY <2>1, <2>2
<1>2. Top(h).event \in {"started", "cancelled", "finished"} /\ Drives(stack[h], Top(h).event)
  BY <1>1, FrameFields DEF Drives
<1>3. wf' = wf /\ UNCHANGED rows /\ instance' = instance /\ record' = RecordAfter(Top(h).event)
  BY DEF DriveRecords, rows
<1>4. Decides' = Decides
  BY <1>3, SameVerdict
<1>5. CASE Top(h).event = "started"
  <2>1. instance = "running"
    BY <1>2, <1>5 DEF StartsAlone
  <2>2. record' = "submitted"
    BY <1>3, <1>5, <2>1 DEF RecordAfter, RecordOpen
  <2> QED BY <1>3, <2>1, <2>2 DEF RecordOpen
<1>6. CASE Top(h).event = "cancelled"
  <2>1. instance = "cancelled"
    BY <1>1, <1>6 DEF DrivenOnce
  <2>2. record' = "draft"
    BY <1>3, <1>6, <2>1 DEF RecordAfter, RecordOpen
  <2> QED BY <1>3, <2>1, <2>2 DEF RecordOpen
<1>7. CASE Top(h).event = "finished"
  <2>1. instance = "completed" /\ record # "draft"
    BY <1>2, <1>7 DEF DrivenOnce, RecordOpen
  <2>2. record' \in {"approved", "rejected", record}
    BY <1>3, <1>7 DEF RecordAfter
  <2> QED BY <1>3, <2>1, <2>2 DEF RecordOpen
<1> QED BY <1>2, <1>5, <1>6, <1>7

LEMMA RecordOpenStep ==
    ASSUME MaxFaults = 0, Patient, RowsInv, Phases, Opening, StartsAlone, DrivenOnce, RecordOpen, Next
    PROVE  RecordOpen'
<1>1. Shape /\ Calls /\ Inserting
  BY DEF RowsInv
<1>2. PICK h \in Handlers : StepKinds(h) /\ \A g \in Handlers \ {h} : stack'[g] = stack[g]
  BY <1>1, HandlerSteps
<1>3. wf' = wf /\ Decides' = Decides
  <2>1. wf' = wf /\ Steps' = Steps
    BY SameDefinition, SameWorkflow
  <2> QED BY <2>1 DEF Decides
<1> SUFFICES ASSUME Decides, ~wf.test PROVE RecordOpen'
  BY <1>3 DEF RecordOpen
<1>4. CASE StartWorkflow(h)
  <2>1. instance = "absent" /\ instance' = "running" /\ record' = record /\ record = "draft"
    BY <1>4 DEF StartWorkflow, RecordOpen
  <2>2. Over([op |-> "create", step |-> 1], stack'[h])
    BY <1>1, <1>4, StartStack
  <2>3. 2 \in DOMAIN stack'[h] /\ stack'[h][2] = DriveStarted
    BY <2>2 DEF Over
  <2>4. Drives(stack'[h], "started")
    BY <2>3 DEF Drives, DriveStarted
  <2> QED BY <2>1, <2>4 DEF RecordOpen
<1>5. ASSUME ~Starting PROVE \A g \in Handlers : ~Drives(stack[g], "started")
  <2>1. ASSUME NEW g \in Handlers PROVE ~Holds(stack[g], "last")
    BY <1>5, KindIs DEF Starting, Holds
  <2> QED BY <2>1 DEF StartsAlone
<1>6. CASE CancelInstance(h)
  <2>1. instance = "running" /\ instance' = "cancelled" /\ record' = record /\ ~Starting
    BY <1>6 DEF CancelInstance
  <2>2. record = "submitted"
    BY <1>5, <2>1 DEF RecordOpen
  <2>3. stack'[h] = <<[op |-> "drive", event |-> "cancelled"]>>
    BY <1>1, <1>6, CancelPhased
  <2>4. Drives(stack'[h], "cancelled")
    <3>1. 1 \in DOMAIN stack'[h] /\ stack'[h][1] = [op |-> "drive", event |-> "cancelled"]
      BY <2>3
    <3> QED BY <3>1 DEF Drives
  <2> QED BY <2>1, <2>2, <2>4 DEF RecordOpen
<1>7. ASSUME NEW s \in Steps, NEW d \in Decisions(s), CompleteStep(h, s, d) PROVE RecordOpen'
  <2>1. instance' = instance /\ record' = record /\ Idle(h) /\ ~Starting
    BY <1>7 DEF CompleteStep, Request
  <2>2. \A g \in Handlers : Drives(stack[g], "cancelled") => Drives(stack'[g], "cancelled")
    BY <1>2, <2>1, IdleDrives
  <2> QED BY <1>5, <2>1, <2>2 DEF RecordOpen
<1>8. CASE DriveRecords(h)
  BY <1>1, <1>8, SharedDrive
<1>9. CASE Statement(h) /\ ~DriveRecords(h)
  <2>1. record' = record
    BY <1>9, RecordStays
  <2>2. ASSUME NEW g \in Handlers, Drives(stack[g], "cancelled") PROVE Drives(stack'[g], "cancelled")
    <3>1. CASE g = h
      <4>1. 1 \in DOMAIN stack[h] /\ stack[h][1].op = "drive"
        BY <2>2, <3>1 DEF DrivenOnce, Drives
      <4>2. Top(h).op = "drive"
        <5>1. ~Idle(h)
          BY <1>9, InstanceMoves
        <5> QED BY <1>1, <4>1, <5>1, StackTyped
      <4> QED BY <1>9, <4>2, OpOf DEF Statement
    <3> QED BY <1>2, <2>2, <3>1
  <2>3. CASE \E g \in Handlers : Drives(stack[g], "started")
    <3>1. CreateStep(h) /\ Drives(stack'[h], "started")
      BY <1>1, <1>9, <2>3, StillStarting
    <3>2. instance' = instance /\ instance = "running"
      BY <2>3, <3>1 DEF CreateStep, StartsAlone
    <3> QED BY <2>1, <3>1, <3>2 DEF RecordOpen
  <2>4. CASE ~ \E g \in Handlers : Drives(stack[g], "started")
    <3>1. CASE instance' = instance
      BY <2>1, <2>2, <2>4, <3>1 DEF RecordOpen
    <3>2. CASE instance' # instance
      <4>1. instance = "running" /\ instance' \in {"completed", "failed"}
        <5>1. instance = "running"
          BY <1>9, <3>2, InstanceMoves
        <5>2. instance' = "failed" \/ instance' = "completed"
          BY <1>9, <3>2, EndsBy
        <5> QED BY <5>1, <5>2
      <4>2. record = "submitted"
        BY <2>4, <4>1 DEF RecordOpen
      <4> QED BY <2>1, <4>1, <4>2 DEF RecordOpen
    <3> QED BY <3>1, <3>2
  <2> QED BY <2>3, <2>4
<1>10. (ReadIdle(h) \/ SkipPending(h) => Statement(h))
  BY DEF Statement
<1> QED BY <1>2, <1>4, <1>6, <1>7, <1>8, <1>9, <1>10 DEF StepKinds

\* What is left of RecordFollowsRun when requests interleave.
RecordSettles ==
    Quiet /\ Decides /\ ~wf.test =>
    /\ instance = "running" => record = "submitted"
    /\ instance = "cancelled" => record = "draft"
    /\ instance = "completed" => record # "draft"

\* However many requests work on a run at once, when they have returned the
\* record of a running run is under review, that of a cancelled run is back
\* with its creator and that of a completed run is not: for any definition,
\* as long as callers wait until the start of the run has returned (a cancel
\* that comes before drives the record to draft, and the start then submits it).
THEOREM RecordSettlesHolds ==
    ASSUME MaxFaults = 0, Patient
    PROVE  Spec => []RecordSettles
<1>1. Init => SharedInv
  <2> SUFFICES ASSUME Init PROVE SharedInv
    OBVIOUS
  <2>1. RowsInv /\ Phases /\ Opening
    BY RowsInvInit, WorkInit, RecordInit DEF RecordInv
  <2>2. instance = "absent" /\ record = "draft" /\ \A h \in Handlers : stack[h] = <<>>
    BY DEF Init
  <2>3. StartsAlone /\ DrivenOnce /\ RecordOpen
    BY <2>2 DEF StartsAlone, DrivenOnce, RecordOpen, Holds, Drives
  <2> QED BY <2>1, <2>3 DEF SharedInv
<1>2. SharedInv /\ [Next]_vars => SharedInv'
  <2> SUFFICES ASSUME SharedInv, [Next]_vars PROVE SharedInv'
    OBVIOUS
  <2>1. RowsInv /\ Phases /\ Opening /\ StartsAlone /\ DrivenOnce /\ RecordOpen /\ Shape /\ Calls
    BY DEF SharedInv, RowsInv
  <2>2. RowsInv'
    BY <2>1, RowsStep
  <2>3. CASE UNCHANGED vars
    <3>1. UNCHANGED <<wf, rows, instance, record, stack>> /\ Steps' = Steps
      BY <2>3, SameWorkflow DEF vars
    <3>2. Phases' /\ Opening' /\ StartsAlone' /\ DrivenOnce'
      BY <2>1, <3>1 DEF Phases, Opening, StartsAlone, DrivenOnce, Idle
    <3>3. Decides' = Decides
      BY <3>1, SameVerdict
    <3>4. RecordOpen'
      BY <2>1, <3>1, <3>3 DEF RecordOpen
    <3> QED BY <2>2, <3>2, <3>4 DEF SharedInv
  <2>4. CASE Next
    <3>1. Phases' /\ Opening'
      BY <2>1, <2>4, PhasesStep, OpeningStep
    <3>2. StartsAlone' /\ DrivenOnce' /\ RecordOpen'
      BY <2>1, <2>4, StartsAloneStep, DrivenOnceStep, RecordOpenStep
    <3> QED BY <2>2, <3>1, <3>2 DEF SharedInv
  <2> QED BY <2>3, <2>4
<1>3. SharedInv => RecordSettles
  <2> SUFFICES ASSUME SharedInv, Quiet, Decides, ~wf.test
               PROVE  /\ instance = "running" => record = "submitted"
                      /\ instance = "cancelled" => record = "draft"
                      /\ instance = "completed" => record # "draft"
    BY DEF RecordSettles
  <2>1. \A h \in Handlers : \A event : ~Drives(stack[h], event)
    BY IdleDrives DEF Quiet
  <2> QED BY <2>1 DEF SharedInv, RecordOpen
<1> QED BY <1>1, <1>2, <1>3, PTL DEF Spec

=============================================================================
